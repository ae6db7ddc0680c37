------------------------ MODULE PixelPipelineProofs ------------------------
(***************************************************************************)
(* Theorems about the devices of the pixel detector example, for every     *)
(* number of files, processors, events and digis and all three kinds of    *)
(* source: no event is stored twice, none before all samplers sent their   *)
(* part, and the merger keeps parts of events that are not complete.  The  *)
(* second half is about the parameter server that these processors ask,    *)
(* for every topology, input and order of requests: what it hands out is   *)
(* what the inputs hold for the run of the request.                        *)
(***************************************************************************)
EXTENDS PixelPipeline, SequenceLemmas, ParameterServer

-----------------------------------------------------------------------------
(* The inductive invariant. *)

AsText == SourceType = "PixelDigiSource"

\* The events a sampler sent parts of are the first ones.
Counter == [p \in Files |-> sampler[p].fEventCounter]

\* Where in the lines of a file the lines of each event begin.
LinesOf(p) == [i \in DOMAIN Events |-> EventLines(i, p)]

Offsets == [p \in Files |-> CHOOSE off : LiesAt(Lines[p], LinesOf(p), off, Len(Events))]

\* The last line that a text source read is a line of event i, not the last one.
IsAt(at, p, i) == \E k \in 1 .. Cardinality(DigisIn(i, p)) + 1 : at = Offsets[p][i - 1] + k + 1

Sources == [at : Nat, event : Messages, ok : BOOLEAN]

\* What the source of a file can be after n events.
SourceStates ==
    {t \in Files \X Sources \X Nat :
        LET p == t[1]
            s == t[2]
            n == t[3]
        IN  /\ SourceType = "PixelDigiBinSource" => s.at = n + 1
            /\ AsText => \/ s.at = 1
                         \/ \E i \in DOMAIN Events :
                               i <= n /\ IsEvent(s.event, i) /\ s.event.part = p /\ IsAt(s.at, p, i)}

Samplers == [source : Sources, fEventCounter : Nat, fMaxIndex : Int, running : BOOLEAN,
             done : BOOLEAN, listening : BOOLEAN, numAcks : Int, acks : Int]

SamplerInv ==
    /\ setup \in Setups
    /\ Merging \/ (NofFiles = 1 /\ ~AsText)
    /\ sampler \in [Files -> Samplers]
    /\ \A p \in Files : <<p, sampler[p].source, sampler[p].fEventCounter>> \in SourceStates

\* The parts of events that were sent: that of event i by a sampler that has come to it.
SentParts ==
    {m \in Messages : \E i \in DOMAIN Events :
        /\ IsEvent(m, i) /\ i <= Counter[m.part]
        /\ m.digis \subseteq Events[i].digis
        /\ ~AsText => m.digis = DigisIn(i, m.part)}

ChannelInv ==
    /\ AreChannels(Processors, QueueLength, toProc)
    /\ AreChannels(Processors, QueueLength, toMerger)
    /\ \A q \in Processors : \A i \in DOMAIN toProc[q] : toProc[q][i] \in SentParts
    /\ \A q \in Processors : \A i \in DOMAIN toMerger[q] : toMerger[q][i] \in SentParts

PartId(m) == <<m.part, EvRIPair(m)>>

\* The events that were sent on to the sink, or stored by it.
Finished ==
    IF Merging THEN {k \in DOMAIN merger.parts : merger.parts[k] >= NofParts}
    ELSE {EvRIPair(tree[j]) : j \in DOMAIN tree}

\* The events of which every sampler has sent its part.
CompleteEvents == {i \in DOMAIN Events : \A p \in Files : i <= Counter[p]}

PartsIn(buffer, k) == {p \in Files : \E b \in buffer : b.part = p /\ EvRIPair(b) = k}

MergerInv ==
    /\ merger \in [parts : {merger.parts}, buffer : {merger.buffer}]
    /\ merger.parts \in [DOMAIN merger.parts -> Nat \ {0}]
    /\ merger.buffer \subseteq SentParts
    /\ \A b \in merger.buffer : EvRIPair(b) \in DOMAIN merger.parts
    /\ \A k \in DOMAIN merger.parts :
          merger.parts[k] < NofParts => merger.parts[k] = Cardinality(PartsIn(merger.buffer, k))
    /\ ~AsText => /\ \A b \in merger.buffer : merger.parts[EvRIPair(b)] < NofParts
                  /\ \A k \in DOMAIN merger.parts : merger.parts[k] <= NofParts
    /\ \A k \in Finished : \E i \in CompleteEvents : EvRIPair(Events[i]) = k

\* Except from text, where an event comes in many pieces, a part is in one place.
PartsOnce ==
    ~AsText =>
    /\ \A q, r \in Processors : \A i \in DOMAIN toProc[q], j \in DOMAIN toProc[r] :
          PartId(toProc[q][i]) = PartId(toProc[r][j]) => q = r /\ i = j
    /\ \A q, r \in Processors : \A i \in DOMAIN toMerger[q], j \in DOMAIN toMerger[r] :
          PartId(toMerger[q][i]) = PartId(toMerger[r][j]) => q = r /\ i = j
    /\ \A q, r \in Processors : \A i \in DOMAIN toProc[q], j \in DOMAIN toMerger[r] :
          PartId(toProc[q][i]) # PartId(toMerger[r][j])
    /\ \A q \in Processors : \A i \in DOMAIN toProc[q] :
          /\ EvRIPair(toProc[q][i]) \notin Finished
          /\ \A b \in merger.buffer : PartId(toProc[q][i]) # PartId(b)
    /\ \A q \in Processors : \A i \in DOMAIN toMerger[q] :
          /\ EvRIPair(toMerger[q][i]) \notin Finished
          /\ \A b \in merger.buffer : PartId(toMerger[q][i]) # PartId(b)

\* What may be stored.
WholeEvents ==
    {m \in Messages : \E i \in CompleteEvents :
        /\ IsEvent(m, i) /\ m.digis \subseteq Events[i].digis
        /\ ~Merging => m.digis = Events[i].digis}

SinkInv ==
    /\ IsSeq(toSink) /\ IsSeq(tree) /\ (~Merging => toSink = << >> /\ merger.buffer = {})
    /\ \A j \in DOMAIN tree : tree[j] \in WholeEvents /\ EvRIPair(tree[j]) \in Finished
    /\ \A j \in DOMAIN toSink : toSink[j] \in WholeEvents /\ EvRIPair(toSink[j]) \in Finished
    /\ \A i, j \in DOMAIN tree : EvRIPair(tree[i]) = EvRIPair(tree[j]) => i = j
    /\ \A i, j \in DOMAIN toSink : EvRIPair(toSink[i]) = EvRIPair(toSink[j]) => i = j
    /\ \A i \in DOMAIN tree, j \in DOMAIN toSink : EvRIPair(tree[i]) # EvRIPair(toSink[j])

PipeInv == SamplerInv /\ ChannelInv /\ MergerInv /\ PartsOnce /\ SinkInv

-----------------------------------------------------------------------------
(* The setup, which is fixed. *)

LEMMA SetupOK ==
    ASSUME setup \in Setups
    PROVE /\ NofFiles \in Nat \ {0} /\ 0 \in Files /\ \A p \in Files : p \in Nat
          /\ IsFiniteSet(Files) /\ Cardinality(Files) = NofFiles
          /\ SourceType \in {"FairFileSource", "PixelDigiSource", "PixelDigiBinSource"}
          /\ Acks \in BOOLEAN /\ Merging \in BOOLEAN /\ MaxIndex \in Int
          /\ QueueLength \in Nat
<1>1. /\ QueueLength \in Nat /\ NofFiles \in Nat \ {0} /\ MaxIndex \in Int
      /\ SourceType \in {"FairFileSource", "PixelDigiSource", "PixelDigiBinSource"}
      /\ Acks \in BOOLEAN /\ Merging \in BOOLEAN
  BY SetupAssumption DEF SetupAssumption, NofFiles, MaxIndex, SourceType, Acks, Merging
<1>2. Files = 0 .. NofFiles - 1 BY DEF Files
<1>3. IsFiniteSet(Files) /\ Cardinality(Files) = NofFiles
  <2>1. 0 \in Int /\ NofFiles - 1 \in Int BY <1>1
  <2>2. IsFiniteSet(Files)
        /\ Cardinality(Files) = IF 0 > NofFiles - 1 THEN 0 ELSE NofFiles - 1 - 0 + 1
    BY <1>2, <2>1, FS_Interval
  <2> QED BY <1>1, <2>2
<1>4. 0 \in Files /\ \A p \in Files : p \in Nat BY <1>1, <1>2
<1> QED BY <1>1, <1>3, <1>4

LEMMA EventsOK ==
    ASSUME setup \in Setups
    PROVE /\ IsSeq(Events) /\ Len(Events) \in Nat /\ DOMAIN Events = 1 .. Len(Events)
          /\ \A i \in DOMAIN Events : /\ Events[i].run \in Nat /\ Events[i].entry \in Nat
                                      /\ IsFiniteSet(Events[i].digis)
          /\ \A i, j \in DOMAIN Events : EvRIPair(Events[i]) = EvRIPair(Events[j]) => i = j
          /\ \A m, i : IsEvent(m, i) <=> EvRIPair(m) = EvRIPair(Events[i])
<1>1. Events = setup.events BY DEF Events
<1>2. /\ Events \in Seq({Events[i] : i \in DOMAIN Events})
      /\ \A i \in DOMAIN Events : /\ Events[i].run \in Nat /\ Events[i].entry \in Nat
                                  /\ IsFiniteSet(Events[i].digis)
      /\ \A i, j \in DOMAIN Events :
            Events[i].run = Events[j].run /\ Events[i].entry = Events[j].entry => i = j
  <2>1. PICK s \in Setups : s = setup OBVIOUS
  <2>2. s.events = Events BY <1>1, <2>1
  <2>3. s.events \in Seq({s.events[i] : i \in DOMAIN s.events})
    BY SetupAssumption DEF SetupAssumption
  <2>4. \A i \in DOMAIN s.events : /\ s.events[i].run \in Nat /\ s.events[i].entry \in Nat
                                   /\ IsFiniteSet(s.events[i].digis)
    BY SetupAssumption DEF SetupAssumption
  <2>5. \A i, j \in DOMAIN s.events :
           s.events[i].run = s.events[j].run /\ s.events[i].entry = s.events[j].entry => i = j
    BY SetupAssumption DEF SetupAssumption
  <2> QED BY <2>2, <2>3, <2>4, <2>5
<1>3. IsSeq(Events) BY <1>2 DEF IsSeq
<1>4. Len(Events) \in Nat /\ DOMAIN Events = 1 .. Len(Events) BY <1>3, IsSeqIs
<1>5. \A m, i : IsEvent(m, i) <=> EvRIPair(m) = EvRIPair(Events[i]) BY DEF IsEvent, EvRIPair
<1>6. \A i, j \in DOMAIN Events : EvRIPair(Events[i]) = EvRIPair(Events[j]) => i = j
  BY <1>2 DEF EvRIPair
<1> QED BY <1>2, <1>3, <1>4, <1>5, <1>6

LEMMA SetupKept ==
    ASSUME setup' = setup
    PROVE /\ Events' = Events /\ Files' = Files /\ NofFiles' = NofFiles /\ Processors' = Processors
          /\ SourceType' = SourceType /\ Merging' = Merging /\ AsText' = AsText
          /\ NofParts' = NofParts /\ Messages' = Messages /\ Samplers' = Samplers
          /\ SourceStates' = SourceStates /\ (\A i, p : DigisIn(i, p)' = DigisIn(i, p))
<1>1. /\ Events' = Events /\ Files' = Files /\ NofFiles' = NofFiles
      /\ SourceType' = SourceType /\ Merging' = Merging
      /\ NofParts' = NofParts
  BY DEF Events, NofFiles, Files, SourceType, Merging, NofParts
<1>2. AsText' = AsText BY <1>1 DEF AsText
<1>3. Processors' = Processors BY <1>1 DEF Processors, Feeds
<1>4. Messages' = Messages BY <1>1 DEF Messages
<1>5. Samplers' = Samplers BY <1>4 DEF Samplers, Sources
<1>6. \A i, p : DigisIn(i, p)' = DigisIn(i, p) BY <1>1 DEF DigisIn, FileToSave
<1>7. SourceStates' = SourceStates
  <2>1. Lines' = Lines
    BY <1>1 DEF Lines, EventLines, DigisIn, FileToSave
  <2>2. Offsets' = Offsets
    BY <1>1, <2>1 DEF Offsets, LinesOf, EventLines, DigisIn, FileToSave
  <2> QED BY <1>1, <1>2, <1>4, <1>6, <2>2 DEF SourceStates, Sources, IsAt, IsEvent
<1> QED BY <1>1, <1>2, <1>3, <1>4, <1>5, <1>6, <1>7

-----------------------------------------------------------------------------
(* The files. *)

LEMMA SetToSeqIs ==
    ASSUME NEW S, IsFiniteSet(S)
    PROVE \A k \in 1 .. Cardinality(S) : SetToSeq(S)[k] \in S
<1> DEFINE n == Cardinality(S)
           Listing(f) == f \in [1 .. n -> S] /\ IsInjective(f)
<1>1. \E f : Listing(f)
  <2>1. n \in Nat /\ ExistsBijection(1 .. n, S) BY FS_CardinalityType
  <2>2. PICK f : f \in Bijection(1 .. n, S) BY <2>1 DEF ExistsBijection
  <2>3. f \in [1 .. n -> S] /\ IsInjective(f) BY <2>2 DEF Bijection, Injection
  <2> QED BY <2>3
<1>2. SetToSeq(S) = CHOOSE f : Listing(f) BY DEF SetToSeq
<1>3. Listing(SetToSeq(S))
  <2> HIDE DEF Listing
  <2> QED BY <1>1, <1>2
<1> QED BY <1>3

\* The lines of an event: one at the beginning, its digis, and one at the end.
LEMMA EventLinesAre ==
    ASSUME setup \in Setups, NEW p \in Files, NEW i \in DOMAIN Events,
           NEW lines, lines = EventLines(i, p), NEW c, c = Cardinality(DigisIn(i, p))
    PROVE /\ c \in Nat /\ IsSeq(lines) /\ Len(lines) = c + 2
          /\ lines[1].type = "begin"
          /\ lines[1].run = Events[i].run /\ lines[1].entry = Events[i].entry
          /\ \A k \in 1 .. c : /\ lines[k + 1].type = "digi"
                               /\ lines[k + 1].digi \in DigisIn(i, p)
          /\ lines[c + 2].type = "end"
<1> DEFINE S == DigisIn(i, p)
           digis == [k \in 1 .. c |-> [type |-> "digi", digi |-> SetToSeq(S)[k]]]
<1>1. IsFiniteSet(S)
  <2>1. IsFiniteSet(Events[i].digis) BY EventsOK
  <2> QED BY <2>1, FS_Subset DEF DigisIn
<1>2. c \in Nat BY <1>1, FS_CardinalityType
<1>3. \A k \in 1 .. c : SetToSeq(S)[k] \in S
  <2> HIDE DEF S
  <2> QED BY <1>1, SetToSeqIs DEF S
<1>4. PICK b : b = [type |-> "begin", run |-> Events[i].run, entry |-> Events[i].entry] OBVIOUS
<1>5. PICK e : e = [type |-> "end"] OBVIOUS
<1>6. PICK d : d = digis OBVIOUS
<1>7. lines = <<b>> \o d \o <<e>> BY <1>4, <1>5, <1>6 DEF EventLines
<1>8. /\ \A k \in 1 .. c : d[k].type = "digi" /\ d[k].digi \in S
      /\ d \in [1 .. c -> {d[k] : k \in 1 .. c}]
  BY <1>3, <1>6
<1>9. IsSeq(d) /\ Len(d) = c /\ DOMAIN d = 1 .. c
  <2>1. d \in Seq({d[k] : k \in 1 .. c}) BY <1>2, <1>8
  <2>2. DOMAIN d = 1 .. c BY <1>8
  <2>3. Len(d) = c BY <1>2, <2>1, <2>2
  <2>4. IsSeq(d) BY <2>1 DEF IsSeq
  <2> QED BY <2>2, <2>3, <2>4
<1>10. \A x : IsSeq(<<x>>) /\ Len(<<x>>) = 1 /\ DOMAIN <<x>> = 1 .. 1 /\ <<x>>[1] = x
  BY SingleIs
<1>11. PICK f : f = <<b>> \o d OBVIOUS
<1>12. IsSeq(<<b>>) /\ IsSeq(<<e>>) BY <1>10
<1>13. IsSeq(f) BY <1>9, <1>11, <1>12, ConcatIs
<1>14. Len(f) = Len(<<b>>) + Len(d) BY <1>9, <1>11, <1>12, ConcatIs
<1>15. \A k \in DOMAIN <<b>> : f[k] = <<b>>[k] BY <1>9, <1>11, <1>12, ConcatIs
<1>16. \A k \in DOMAIN d : f[Len(<<b>>) + k] = d[k] BY <1>9, <1>11, <1>12, ConcatIs
<1>17. Len(f) = c + 1 /\ f[1] = b /\ \A k \in 1 .. c : f[k + 1] = d[k]
  <2>1. Len(<<b>>) = 1 /\ 1 \in DOMAIN <<b>> /\ <<b>>[1] = b BY <1>10
  <2>2. \A k \in 1 .. c : 1 + k = k + 1 BY <1>2
  <2> QED BY <1>2, <1>9, <1>14, <1>15, <1>16, <2>1, <2>2
<1>18. lines = f \o <<e>> BY <1>7, <1>11
<1>19. IsSeq(lines) BY <1>12, <1>13, <1>18, ConcatIs
<1>20. Len(lines) = Len(f) + Len(<<e>>) BY <1>12, <1>13, <1>18, ConcatIs
<1>21. \A k \in DOMAIN f : lines[k] = f[k] BY <1>12, <1>13, <1>18, ConcatIs
<1>22. \A k \in DOMAIN <<e>> : lines[Len(f) + k] = <<e>>[k] BY <1>12, <1>13, <1>18, ConcatIs
<1>23. DOMAIN f = 1 .. c + 1 BY <1>13, <1>17, IsSeqIs
<1>24. Len(<<e>>) = 1 /\ 1 \in DOMAIN <<e>> /\ <<e>>[1] = e BY <1>10
<1>25. Len(lines) = c + 2 /\ lines[c + 2] = e
  <2>1. Len(f) + 1 = c + 2 BY <1>2, <1>17
  <2> QED BY <1>20, <1>22, <1>24, <2>1
<1>26. lines[1] = b BY <1>2, <1>17, <1>21, <1>23
<1>27. \A k \in 1 .. c : lines[k + 1] = d[k]
  <2> TAKE k \in 1 .. c
  <2>1. k + 1 \in 1 .. c + 1 BY <1>2
  <2> QED BY <1>17, <1>21, <1>23, <2>1
<1>28. b.type = "begin" /\ b.run = Events[i].run /\ b.entry = Events[i].entry BY <1>4
<1>29. e.type = "end" BY <1>5
<1> HIDE DEF digis
<1> QED BY <1>2, <1>8, <1>19, <1>25, <1>26, <1>27, <1>28, <1>29

\* Where the lines of the events are in a file.
LEMMA LinesLie ==
    ASSUME setup \in Setups, NEW p \in Files
    PROVE /\ LiesAt(Lines[p], LinesOf(p), Offsets[p], Len(Events))
          /\ \A i \in DOMAIN Events : LinesOf(p)[i] = EventLines(i, p)
<1>1. PICK n : n = Len(Events) OBVIOUS
<1>2. PICK s : s = LinesOf(p) OBVIOUS
<1>3. n \in Nat /\ DOMAIN Events = 1 .. n BY <1>1, EventsOK
<1>4. /\ s \in [1 .. n -> {s[i] : i \in 1 .. n}]
      /\ \A i \in 1 .. n : s[i] = EventLines(i, p)
  BY <1>2, <1>3 DEF LinesOf
<1>5. s \in Seq({s[i] : i \in 1 .. n}) BY <1>3, <1>4
<1>6. Len(s) = n
  <2>1. DOMAIN s = 1 .. n BY <1>4
  <2> QED BY <1>3, <1>5, <2>1
<1>7. n = 0 => s = << >> BY <1>5, <1>6, EmptySeq
<1>8. \A i \in 1 .. n : IsSeq(s[i]) BY <1>3, <1>4, EventLinesAre
<1>9. Lines[p] = FlattenSeq(s) BY <1>2 DEF Lines, LinesOf
<1>10. \E off : LiesAt(Lines[p], s, off, n) BY <1>3, <1>6, <1>7, <1>8, <1>9, FlattenSeqParts
<1>11. Offsets[p] = CHOOSE off : LiesAt(Lines[p], s, off, n) BY <1>1, <1>2 DEF Offsets
<1>12. LiesAt(Lines[p], s, Offsets[p], n) BY <1>10, <1>11
<1> QED BY <1>1, <1>2, <1>3, <1>4, <1>12

\* Where the lines of event i begin and end.
LEMMA OffsetsAre ==
    ASSUME setup \in Setups, NEW p \in Files, NEW i \in DOMAIN Events,
           NEW c, c = Cardinality(DigisIn(i, p)), NEW off, off = Offsets[p]
    PROVE /\ c \in Nat /\ off[i - 1] \in Nat /\ off[i] = off[i - 1] + c + 2
          /\ off[i] <= Len(Lines[p]) /\ Len(Lines[p]) \in Nat /\ off[0] = 0
          /\ i = Len(Events) => Len(Lines[p]) = off[i]
<1>1. Len(Events) \in Nat /\ DOMAIN Events = 1 .. Len(Events) BY EventsOK
<1>2. LiesAt(Lines[p], LinesOf(p), off, Len(Events)) BY LinesLie
<1>3. LinesOf(p)[i] = EventLines(i, p) BY LinesLie
<1>4. i \in 1 .. Len(Events) /\ i - 1 \in 0 .. Len(Events) /\ i \in 0 .. Len(Events)
      /\ Len(Events) \in 0 .. Len(Events)
  BY <1>1
<1>5. PICK l : l = Len(EventLines(i, p)) OBVIOUS
<1>6. /\ off \in [0 .. Len(Events) -> Nat] /\ off[0] = 0 /\ Len(Lines[p]) = off[Len(Events)]
      /\ off[i] <= off[Len(Events)] /\ off[i] = off[i - 1] + l
  BY <1>2, <1>3, <1>4, <1>5 DEF LiesAt
<1>7. c \in Nat /\ l = c + 2 BY <1>5, EventLinesAre
<1>8. off[i - 1] \in Nat /\ off[Len(Events)] \in Nat BY <1>4, <1>6
<1>9. off[i] = off[i - 1] + c + 2
  <2>1. PICK o : o = off[i - 1] OBVIOUS
  <2>2. off[i] = o + l /\ l = c + 2 /\ o \in Nat /\ c \in Nat BY <1>6, <1>7, <1>8, <2>1
  <2>3. o + l = o + c + 2 BY <2>2
  <2> QED BY <2>1, <2>2, <2>3
<1> QED BY <1>6, <1>7, <1>8, <1>9

\* The line after the first off[i - 1] + k - 1 is the k-th of event i.
LEMMA LineAt ==
    ASSUME setup \in Setups, NEW p \in Files, NEW i \in DOMAIN Events,
           NEW k \in 1 .. Cardinality(DigisIn(i, p)) + 2
    PROVE Lines[p][Offsets[p][i - 1] + k] = EventLines(i, p)[k]
<1>1. DOMAIN Events = 1 .. Len(Events) BY EventsOK
<1>2. LiesAt(Lines[p], LinesOf(p), Offsets[p], Len(Events)) BY LinesLie
<1>3. LinesOf(p)[i] = EventLines(i, p) BY LinesLie
<1>4. Len(EventLines(i, p)) = Cardinality(DigisIn(i, p)) + 2 BY EventLinesAre
<1> QED BY <1>1, <1>2, <1>3, <1>4 DEF LiesAt

\* What a source gives is a part of an event it has come to, and nothing else.
IsNext(read, p, n) ==
    /\ read \in Sources /\ <<p, read, n + 1>> \in SourceStates
    /\ \E i \in DOMAIN Events :
          /\ IsEvent(read.event, i) /\ i <= n + 1 /\ read.event.part = p
          /\ read.event.digis \subseteq Events[i].digis
          /\ ~AsText => i = n + 1 /\ read.event.digis = DigisIn(i, p)

LEMMA MessageOf ==
    ASSUME setup \in Setups, NEW p \in Files, NEW i \in DOMAIN Events,
           NEW D \in SUBSET Events[i].digis,
           NEW m, m = Message(Events[i].run, Events[i].entry, p, D)
    PROVE m \in Messages /\ IsEvent(m, i) /\ m.part = p /\ m.digis = D
<1>1. Events[i].run \in Nat /\ Events[i].entry \in Nat BY EventsOK
<1>2. D \in SUBSET UNION {Events[j].digis : j \in DOMAIN Events} OBVIOUS
<1>3. m = [run |-> Events[i].run, entry |-> Events[i].entry, part |-> p, digis |-> D]
  BY DEF Message
<1> QED BY <1>1, <1>2, <1>3 DEF Messages, IsEvent

LEMMA BlocksAre ==
    ASSUME setup \in Setups, NEW p \in Files
    PROVE /\ Len(Blocks[p]) = Len(Events)
          /\ \A i \in DOMAIN Events : Blocks[p][i] = EventBlock(i, p)
<1>1. DOMAIN Events = 1 .. Len(Events) /\ Len(Events) \in Nat BY EventsOK
<1>2. PICK blocks : blocks = Blocks[p] OBVIOUS
<1>3. blocks = [i \in DOMAIN Events |-> EventBlock(i, p)] BY <1>2 DEF Blocks
<1>4. blocks \in [1 .. Len(Events) -> {blocks[i] : i \in 1 .. Len(Events)}] BY <1>1, <1>3
<1>5. blocks \in Seq({blocks[i] : i \in 1 .. Len(Events)}) BY <1>1, <1>4
<1>6. DOMAIN blocks = 1 .. Len(Events) BY <1>4
<1>7. Len(blocks) = Len(Events) BY <1>1, <1>5, <1>6
<1> QED BY <1>2, <1>3, <1>7

LEMMA ReadBlocksIs ==
    ASSUME setup \in Setups, ~AsText, NEW p \in Files, NEW s \in Sources, NEW n \in Nat,
           <<p, s, n>> \in SourceStates, NEW read, read = ReadEvent(s, p, n), read.ok
    PROVE IsNext(read, p, n)
<1>1. /\ DOMAIN Events = 1 .. Len(Events) /\ Len(Events) \in Nat BY EventsOK
<1>2. PICK blocks : blocks = Blocks[p] OBVIOUS
<1>4. Len(blocks) = Len(Events) /\ \A i \in DOMAIN Events : blocks[i] = EventBlock(i, p)
  BY <1>2, BlocksAre
<1>5. PICK i : i = n + 1 OBVIOUS
<1>6. s \in [at : Nat, event : Messages, ok : BOOLEAN] BY DEF Sources
<1>7. EndOfFile(s).ok = FALSE BY <1>6 DEF EndOfFile
<1>8. ASSUME i \in DOMAIN Events, NEW at \in Nat, SourceType = "PixelDigiBinSource" => at = i + 1,
             read = [at |-> at, event |-> blocks[i], ok |-> s.ok]
      PROVE IsNext(read, p, n)
  <2>1. PICK m : m = blocks[i] OBVIOUS
  <2>2. m = Message(Events[i].run, Events[i].entry, p, DigisIn(i, p)) BY <1>4, <1>8, <2>1 DEF EventBlock
  <2>3. DigisIn(i, p) \in SUBSET Events[i].digis BY DEF DigisIn
  <2>4. m \in Messages /\ IsEvent(m, i) /\ m.part = p /\ m.digis = DigisIn(i, p)
    BY <1>8, <2>2, <2>3, MessageOf
  <2>5. read \in Sources /\ read.event = m /\ read.at = at BY <1>6, <1>8, <2>1, <2>4 DEF Sources
  <2>6. n + 1 \in Nat OBVIOUS
  <2>7. <<p, read, n + 1>> \in SourceStates BY <1>5, <1>8, <2>5, <2>6 DEF SourceStates
  <2>8. i <= n + 1 BY <1>5
  <2> QED BY <1>5, <1>8, <2>3, <2>4, <2>5, <2>7, <2>8 DEF IsNext
<1>9. CASE SourceType = "PixelDigiBinSource"
  <2>1. s.at = i BY <1>5, <1>9 DEF SourceStates
  <2>2. read = ReadBlock(s, p) BY <1>9 DEF ReadEvent
  <2>3. ~(s.at > Len(blocks)) BY <1>2, <1>7, <2>2 DEF ReadBlock
  <2>4. read = [s EXCEPT !.at = @ + 1, !.event = blocks[i]] BY <1>2, <2>1, <2>2, <2>3 DEF ReadBlock
  <2>5. read = [at |-> i + 1, event |-> blocks[i], ok |-> s.ok] BY <1>6, <2>1, <2>4
  <2>6. i \in DOMAIN Events BY <1>1, <1>4, <1>5, <2>1, <2>3
  <2>7. i + 1 \in Nat BY <1>5
  <2> QED BY <1>8, <2>5, <2>6, <2>7
<1>10. CASE SourceType = "FairFileSource"
  <2>1. read = ReadEntry(s, p, n) BY <1>10 DEF ReadEvent
  <2>2. ~(n >= Len(blocks)) BY <1>2, <1>7, <2>1 DEF ReadEntry
  <2>3. read = [s EXCEPT !.event = blocks[i]] BY <1>2, <1>5, <2>1, <2>2 DEF ReadEntry
  <2>4. read = [at |-> s.at, event |-> blocks[i], ok |-> s.ok] BY <1>6, <2>3
  <2>5. i \in DOMAIN Events BY <1>1, <1>4, <1>5, <2>2
  <2> QED BY <1>6, <1>8, <1>10, <2>4, <2>5
<1> QED BY <1>9, <1>10, SetupOK DEF AsText

LEMMA ReadLinesIs ==
    ASSUME setup \in Setups, AsText, NEW p \in Files, NEW s \in Sources, NEW n \in Nat,
           <<p, s, n>> \in SourceStates, NEW read, read = ReadEvent(s, p, n), read.ok
    PROVE IsNext(read, p, n)
<1>1. /\ DOMAIN Events = 1 .. Len(Events) /\ Len(Events) \in Nat BY EventsOK
<1>2. PICK lines : lines = Lines[p] OBVIOUS
<1>3. PICK off : off = Offsets[p] OBVIOUS
<1>4. s \in [at : Nat, event : Messages, ok : BOOLEAN] BY DEF Sources
<1>5. EndOfFile(s).ok = FALSE BY <1>4 DEF EndOfFile
<1>6. read = ReadLines(s, p) BY DEF ReadEvent, AsText
<1>7. PICK at : at = IF s.at <= Len(lines) /\ lines[s.at].type = "end" THEN s.at + 1 ELSE s.at
  OBVIOUS
<1>8. read = IF at > Len(lines) THEN EndOfFile(s)
             ELSE [s EXCEPT !.at = at + 1,
                            !.event = IF lines[at].type = "begin"
                                      THEN Message(lines[at].run, lines[at].entry, p, {})
                                      ELSE [@ EXCEPT !.digis = {lines[at].digi}]]
  BY <1>2, <1>6, <1>7 DEF ReadLines
<1>9. ~(at > Len(lines)) BY <1>5, <1>8
<1>10. PICK e : e = IF lines[at].type = "begin"
                    THEN Message(lines[at].run, lines[at].entry, p, {})
                    ELSE [s.event EXCEPT !.digis = {lines[at].digi}]
  OBVIOUS
<1>11. read = [at |-> at + 1, event |-> e, ok |-> s.ok] BY <1>4, <1>8, <1>9, <1>10
\* It is enough to know the event and the place of the line.
<1>12. ASSUME NEW i \in DOMAIN Events, i <= n + 1, e \in Messages, IsEvent(e, i), e.part = p,
              e.digis \subseteq Events[i].digis, IsAt(at + 1, p, i), at \in Nat
       PROVE IsNext(read, p, n)
  <2>1. read \in Sources /\ read.event = e /\ read.at = at + 1 BY <1>4, <1>11, <1>12 DEF Sources
  <2>2. n + 1 \in Nat /\ SourceType # "PixelDigiBinSource" BY DEF AsText
  <2>3. <<p, read, n + 1>> \in SourceStates BY <1>12, <2>1, <2>2 DEF SourceStates
  <2> QED BY <1>12, <2>1, <2>3 DEF IsNext
\* The first line of an event.
<1>13. ASSUME NEW i \in DOMAIN Events, i <= n + 1, at = off[i - 1] + 1
       PROVE IsNext(read, p, n)
  <2>1. PICK c : c = Cardinality(DigisIn(i, p)) OBVIOUS
  <2>2. c \in Nat /\ off[i - 1] \in Nat BY <1>3, <2>1, OffsetsAre
  <2>3. lines[at] = EventLines(i, p)[1]
    <3>1. 1 \in 1 .. Cardinality(DigisIn(i, p)) + 2 BY <2>1, <2>2
    <3> QED BY <1>2, <1>3, <1>13, <3>1, LineAt
  <2>4. lines[at].type = "begin" /\ lines[at].run = Events[i].run /\ lines[at].entry = Events[i].entry
    BY <2>3, EventLinesAre
  <2>5. e = Message(Events[i].run, Events[i].entry, p, {}) BY <1>10, <2>4
  <2>6. e \in Messages /\ IsEvent(e, i) /\ e.part = p /\ e.digis = {} BY <2>5, MessageOf
  <2>7. 1 \in 1 .. c + 1 /\ at + 1 = off[i - 1] + 1 + 1 /\ at \in Nat BY <1>13, <2>2
  <2>8. IsAt(at + 1, p, i) BY <1>3, <2>1, <2>7 DEF IsAt
  <2> QED BY <1>12, <1>13, <2>6, <2>7, <2>8
<1>14. CASE s.at = 1
  <2>1. Len(Events) # 0
    <3> SUFFICES ASSUME Len(Events) = 0 PROVE FALSE OBVIOUS
    <3>1. Len(lines) = 0
      <4>1. LiesAt(lines, LinesOf(p), off, 0) BY <1>2, <1>3, LinesLie
      <4> QED BY <4>1 DEF LiesAt
    <3> QED BY <1>7, <1>9, <1>14, <3>1
  <2>2. 1 \in DOMAIN Events BY <1>1, <2>1
  <2>3. PICK c : c = Cardinality(DigisIn(1, p)) OBVIOUS
  <2>4. c \in Nat /\ off[0] = 0 BY <1>3, <2>2, <2>3, OffsetsAre
  <2>5. off[1 - 1] + 1 = 1 BY <2>4
  <2>6. lines[1] = EventLines(1, p)[1]
    <3>1. 1 \in 1 .. Cardinality(DigisIn(1, p)) + 2 BY <2>3, <2>4
    <3> QED BY <1>2, <1>3, <2>2, <2>5, <3>1, LineAt
  <2>7. lines[1].type = "begin" BY <2>2, <2>6, EventLinesAre
  <2>8. at = off[1 - 1] + 1 BY <1>7, <1>14, <2>5, <2>7
  <2> QED BY <1>13, <2>2, <2>8
<1>15. CASE s.at # 1
  <2>1. PICK i \in DOMAIN Events :
           i <= n /\ IsEvent(s.event, i) /\ s.event.part = p /\ IsAt(s.at, p, i)
    BY <1>15 DEF SourceStates
  <2>2. PICK c : c = Cardinality(DigisIn(i, p)) OBVIOUS
  <2>3. /\ c \in Nat /\ off[i - 1] \in Nat /\ off[i] = off[i - 1] + c + 2
        /\ off[i] <= Len(lines) /\ Len(lines) \in Nat
        /\ i = Len(Events) => Len(lines) = off[i]
    <3>1. c \in Nat /\ off[i - 1] \in Nat BY <1>3, <2>2, OffsetsAre
    <3>2. off[i] = off[i - 1] + c + 2 BY <1>3, <2>2, OffsetsAre
    <3>3. off[i] <= Len(lines) /\ Len(lines) \in Nat BY <1>2, <1>3, <2>2, OffsetsAre
    <3>4. i = Len(Events) => Len(lines) = off[i] BY <1>2, <1>3, <2>2, OffsetsAre
    <3> QED BY <3>1, <3>2, <3>3, <3>4
  <2>4. PICK k \in 1 .. c + 1 : s.at = off[i - 1] + k + 1 BY <1>3, <2>1, <2>2 DEF IsAt
  <2>5. /\ k + 1 \in 1 .. c + 2 /\ s.at = off[i - 1] + (k + 1) /\ s.at <= Len(lines)
        /\ s.at \in Nat
    <3>1. k \in Nat /\ 1 <= k /\ k <= c + 1 BY <2>3
    <3>2. PICK o : o = off[i - 1] OBVIOUS
    <3>3. o \in Nat /\ s.at = o + k + 1 /\ o + c + 2 <= Len(lines) BY <2>3, <2>4, <3>2
    <3>4. k + 1 \in 1 .. c + 2 /\ s.at = o + (k + 1) /\ s.at <= Len(lines) /\ s.at \in Nat
      BY <2>3, <3>1, <3>3
    <3> QED BY <3>2, <3>4
  <2>6. lines[s.at] = EventLines(i, p)[k + 1] BY <1>2, <1>3, <2>2, <2>5, LineAt
  \* It was the last digi: the next event begins.
  <2>7. CASE k = c + 1
    <3>1. lines[s.at].type = "end"
      <4>1. EventLines(i, p)[c + 2].type = "end" BY <2>2, EventLinesAre
      <4>2. k + 1 = c + 2 BY <2>3, <2>7
      <4> QED BY <2>6, <4>1, <4>2
    <3>2. at = s.at + 1 BY <1>7, <2>5, <3>1
    <3>3. at = off[i] + 1 BY <2>3, <2>5, <2>7, <3>2
    <3>4. i # Len(Events)
      <4> SUFFICES ASSUME i = Len(Events) PROVE FALSE OBVIOUS
      <4>1. Len(lines) = off[i] /\ Len(lines) \in Nat BY <2>3
      <4> QED BY <1>9, <3>3, <4>1
    <3>5. i + 1 \in DOMAIN Events /\ i + 1 <= n + 1 /\ (i + 1) - 1 = i BY <1>1, <2>1, <3>4
    <3> QED BY <1>13, <3>3, <3>5
  \* Another digi.
  <2>8. CASE k # c + 1
    <3>1. k \in 1 .. c BY <2>3, <2>8
    <3>2. lines[s.at].type = "digi" /\ lines[s.at].digi \in DigisIn(i, p)
      BY <2>2, <2>6, <3>1, EventLinesAre
    <3>3. at = s.at BY <1>7, <3>2
    <3>4. e = [s.event EXCEPT !.digis = {lines[s.at].digi}] BY <1>10, <3>2, <3>3
    <3>5. s.event \in Messages BY <1>4
    <3>6. lines[s.at].digi \in Events[i].digis BY <3>2 DEF DigisIn
    <3>7. /\ e \in Messages /\ e.digis = {lines[s.at].digi} /\ e.part = s.event.part
          /\ e.run = s.event.run /\ e.entry = s.event.entry
      <4>1. e = [run |-> s.event.run, entry |-> s.event.entry, part |-> s.event.part,
                 digis |-> {lines[s.at].digi}]
        BY <3>4, <3>5 DEF Messages
      <4>2. {lines[s.at].digi} \in SUBSET UNION {Events[j].digis : j \in DOMAIN Events} BY <3>6
      <4> QED BY <3>5, <4>1, <4>2 DEF Messages
    <3>8. IsEvent(e, i) BY <2>1, <3>7 DEF IsEvent
    <3>9. IsAt(at + 1, p, i)
      <4>1. k + 1 \in 1 .. c + 1 /\ at + 1 = off[i - 1] + (k + 1) + 1 BY <2>3, <2>5, <3>1, <3>3
      <4> QED BY <1>3, <2>2, <4>1 DEF IsAt
    <3>10. i <= n + 1 /\ at \in Nat
      <4>1. i \in Nat /\ i <= n BY <1>1, <2>1
      <4> QED BY <1>4, <3>3, <4>1
    <3> QED BY <1>12, <2>1, <3>6, <3>7, <3>8, <3>9, <3>10
  <2> QED BY <2>7, <2>8
<1> QED BY <1>14, <1>15

LEMMA ReadIs ==
    ASSUME setup \in Setups, NEW p \in Files, NEW s \in Sources, NEW n \in Nat,
           <<p, s, n>> \in SourceStates, NEW read, read = ReadEvent(s, p, n), read.ok
    PROVE IsNext(read, p, n)
  BY ReadBlocksIs, ReadLinesIs

-----------------------------------------------------------------------------
(* The start. *)

\* Without a merger there is one file, and it is not text, from which an event
\* comes in pieces.
UnmergedIsWhole == \A s \in Setups : s.merging \/ (s.nofFiles = 1 /\ s.sourceType # "PixelDigiSource")

LEMMA NewSamplerIs ==
    ASSUME setup \in Setups, NEW p \in Files
    PROVE /\ NewSampler(p) \in Samplers /\ NewSampler(p).fEventCounter = 0
          /\ <<p, NewSampler(p).source, 0>> \in SourceStates
<1>1. PICK m : m = Message(0, 0, 0, {}) OBVIOUS
<1>2. m \in Messages
  <2>1. 0 \in Files BY SetupOK
  <2>2. m = [run |-> 0, entry |-> 0, part |-> 0, digis |-> {}] BY <1>1 DEF Message
  <2> QED BY <2>1, <2>2 DEF Messages
<1>3. Source \in Sources /\ Source.at = 1 BY <1>1, <1>2 DEF Source, Sources
<1>4. CheckMaxEventNo(p) \in Int /\ MaxIndex \in Int /\ Acks \in BOOLEAN
  <2>1. Len(Blocks[p]) \in Int BY BlocksAre, EventsOK
  <2> QED BY <2>1, SetupOK DEF CheckMaxEventNo
<1>5. NewSampler(p) \in Samplers BY <1>3, <1>4 DEF NewSampler, Samplers
<1>6. NewSampler(p).fEventCounter = 0 /\ NewSampler(p).source = Source BY DEF NewSampler
<1>7. <<p, Source, 0>> \in SourceStates BY <1>3 DEF SourceStates
<1> QED BY <1>5, <1>6, <1>7

LEMMA EmptyChannels ==
    ASSUME NEW D, NEW N \in Nat
    PROVE AreChannels(D, N, [q \in D |-> << >>])
<1>1. IsSeq(<< >>) /\ Len(<< >>) <= N BY EmptyIsSeq
<1> QED BY <1>1 DEF AreChannels

LEMMA PipeInit == ASSUME UnmergedIsWhole, Init PROVE PipeInv
<1>1. setup \in Setups BY DEF Init
<1>2. /\ sampler = [p \in Files |-> NewSampler(p)]
      /\ toProc = [q \in Processors |-> << >>] /\ toMerger = [q \in Processors |-> << >>]
      /\ merger = [parts |-> [k \in {} |-> 0], buffer |-> {}] /\ toSink = << >> /\ tree = << >>
  BY DEF Init
<1>3. SamplerInv
  <2>1. Merging \/ (NofFiles = 1 /\ ~AsText)
    BY <1>1 DEF UnmergedIsWhole, Merging, NofFiles, AsText, SourceType
  <2>2. \A p \in Files : sampler[p] \in Samplers
           /\ <<p, sampler[p].source, sampler[p].fEventCounter>> \in SourceStates
    <3> TAKE p \in Files
    <3>1. sampler[p] = NewSampler(p) BY <1>2
    <3>2. NewSampler(p) \in Samplers BY <1>1, NewSamplerIs
    <3>3. NewSampler(p).fEventCounter = 0 BY <1>1, NewSamplerIs
    <3>4. <<p, NewSampler(p).source, 0>> \in SourceStates BY <1>1, NewSamplerIs
    <3> QED BY <3>1, <3>2, <3>3, <3>4
  <2>3. sampler \in [Files -> Samplers] BY <1>2, <2>2
  <2> QED BY <1>1, <2>1, <2>2, <2>3 DEF SamplerInv
<1>4. IsSeq(<< >>) /\ DOMAIN << >> = {} BY EmptyIsSeq
<1>5. \A q \in Processors : DOMAIN toProc[q] = {} /\ DOMAIN toMerger[q] = {} BY <1>2, <1>4
<1>6. ChannelInv
  <2>1. AreChannels(Processors, QueueLength, [q \in Processors |-> << >>])
    <3>1. QueueLength \in Nat BY <1>1, SetupOK
    <3> QED BY <3>1, EmptyChannels
  <2> QED BY <1>2, <1>5, <2>1 DEF ChannelInv
<1>7. merger.parts = [k \in {} |-> 0] /\ merger.buffer = {} /\ DOMAIN merger.parts = {} BY <1>2
<1>8. Finished = {} BY <1>2, <1>4, <1>7 DEF Finished
<1>9. MergerInv
  <2>1. merger \in [parts : {merger.parts}, buffer : {merger.buffer}] BY <1>2
  <2>2. merger.parts \in [DOMAIN merger.parts -> Nat \ {0}] BY <1>7
  <2> QED BY <1>7, <1>8, <2>1, <2>2 DEF MergerInv
<1>10. PartsOnce BY <1>5 DEF PartsOnce
<1>11. SinkInv BY <1>2, <1>4, <1>7 DEF SinkInv
<1> QED BY <1>3, <1>6, <1>9, <1>10, <1>11 DEF PipeInv

-----------------------------------------------------------------------------
(* What the steps leave alone. *)

LEMMA SentGrow ==
    ASSUME SamplerInv, SamplerInv', setup' = setup,
           \A p \in Files : sampler'[p].fEventCounter >= sampler[p].fEventCounter
    PROVE /\ SentParts \subseteq SentParts' /\ CompleteEvents \subseteq CompleteEvents'
          /\ WholeEvents \subseteq WholeEvents'
<1> USE SetupKept
<1>1. setup \in Setups /\ DOMAIN Events \subseteq Int
  <2>1. setup \in Setups BY DEF SamplerInv
  <2> QED BY <2>1, EventsOK
<1>2. \A p \in Files : Counter[p] \in Nat /\ Counter'[p] \in Nat /\ Counter[p] <= Counter'[p]
  <2>1. \A p \in Files : sampler[p] \in Samplers /\ sampler'[p] \in Samplers BY DEF SamplerInv
  <2>2. \A p \in Files : Counter[p] = sampler[p].fEventCounter
                         /\ Counter'[p] = sampler'[p].fEventCounter
    BY DEF Counter
  <2> QED BY <2>1, <2>2 DEF Samplers
<1>3. \A p \in Files, i \in DOMAIN Events : i <= Counter[p] => i <= Counter'[p] BY <1>1, <1>2
<1>4. \A m \in Messages : m.part \in Files BY DEF Messages
<1>5. SentParts \subseteq SentParts' BY <1>3, <1>4 DEF SentParts, IsEvent
<1>6. CompleteEvents \subseteq CompleteEvents' BY <1>3 DEF CompleteEvents
<1>7. WholeEvents \subseteq WholeEvents' BY <1>6 DEF WholeEvents, IsEvent
<1> QED BY <1>5, <1>6, <1>7

LEMMA ChannelKept ==
    ASSUME ChannelInv, SentParts \subseteq SentParts', UNCHANGED <<setup, toProc, toMerger>>
    PROVE ChannelInv'
  BY SetupKept DEF ChannelInv, AreChannels

LEMMA FinishedKept == ASSUME UNCHANGED <<setup, merger, tree>> PROVE Finished' = Finished
  BY SetupKept DEF Finished, EvRIPair

LEMMA MergerKept ==
    ASSUME MergerInv, SentParts \subseteq SentParts', CompleteEvents \subseteq CompleteEvents',
           Finished' = Finished, UNCHANGED <<setup, merger>>
    PROVE MergerInv'
<1> USE SetupKept DEF MergerInv
<1>1. /\ merger' \in [parts : {merger'.parts}, buffer : {merger'.buffer}]
      /\ merger'.parts \in [DOMAIN merger'.parts -> Nat \ {0}]
      /\ merger'.buffer \subseteq SentParts'
      /\ \A b \in merger'.buffer : EvRIPair(b) \in DOMAIN merger'.parts
  OBVIOUS
<1>2. \A k \in DOMAIN merger'.parts :
         merger'.parts[k] < NofParts' => merger'.parts[k] = Cardinality(PartsIn(merger.buffer, k)')
  BY DEF PartsIn, EvRIPair
<1>3. AsText' \/ (/\ \A b \in merger'.buffer : merger'.parts[EvRIPair(b)] < NofParts'
                  /\ \A k \in DOMAIN merger'.parts : merger'.parts[k] <= NofParts')
  OBVIOUS
<1>4. \A k \in Finished' : \E i \in CompleteEvents' : EvRIPair(Events[i])' = k BY DEF EvRIPair
<1> QED BY <1>1, <1>2, <1>3, <1>4 DEF EvRIPair

LEMMA PartsOnceKept ==
    ASSUME PartsOnce, Finished' = Finished, UNCHANGED <<setup, toProc, toMerger, merger>>
    PROVE PartsOnce'
  BY SetupKept DEF PartsOnce, PartId, EvRIPair

LEMMA SinkKept ==
    ASSUME SinkInv, WholeEvents \subseteq WholeEvents', Finished \subseteq Finished',
           Merging \/ merger' = merger, UNCHANGED <<setup, toSink, tree>>
    PROVE SinkInv'
<1> USE SetupKept DEF SinkInv
<1>1. /\ IsSeq(toSink') /\ IsSeq(tree')
      /\ Merging' \/ (toSink' = << >> /\ merger'.buffer = {})
  OBVIOUS
<1>2. \A j \in DOMAIN tree' : tree'[j] \in WholeEvents' /\ EvRIPair(tree'[j]) \in Finished' OBVIOUS
<1>3. \A j \in DOMAIN toSink' : toSink'[j] \in WholeEvents' /\ EvRIPair(toSink'[j]) \in Finished'
  OBVIOUS
<1>4. \A i, j \in DOMAIN tree' : EvRIPair(tree'[i]) = EvRIPair(tree'[j]) => i = j OBVIOUS
<1>5. \A i, j \in DOMAIN toSink' : EvRIPair(toSink'[i]) = EvRIPair(toSink'[j]) => i = j OBVIOUS
<1>6. \A i \in DOMAIN tree', j \in DOMAIN toSink' : EvRIPair(tree'[i]) # EvRIPair(toSink'[j]) OBVIOUS
<1> QED BY <1>1, <1>2, <1>3, <1>4, <1>5, <1>6

\* A step of a sampler that has nothing to do with the others.
LEMMA OnlySampler ==
    ASSUME PipeInv, SamplerInv', UNCHANGED <<setup, toProc, toMerger, merger, toSink, tree>>,
           \A p \in Files : sampler'[p].fEventCounter >= sampler[p].fEventCounter
    PROVE PipeInv'
<1> USE DEF PipeInv
<1>1. /\ SentParts \subseteq SentParts' /\ CompleteEvents \subseteq CompleteEvents'
      /\ WholeEvents \subseteq WholeEvents'
  BY SentGrow
<1>2. Finished' = Finished BY FinishedKept
<1> QED BY <1>1, <1>2, ChannelKept, MergerKept, PartsOnceKept, SinkKept

LEMMA SamplerKept ==
    ASSUME SamplerInv, setup' = setup, sampler' \in [Files -> Samplers],
           \A p \in Files : /\ sampler'[p].source = sampler[p].source
                            /\ sampler'[p].fEventCounter = sampler[p].fEventCounter
    PROVE SamplerInv' /\ \A p \in Files : sampler'[p].fEventCounter >= sampler[p].fEventCounter
<1>1. SamplerInv' BY SetupKept DEF SamplerInv
<1>2. \A p \in Files : sampler[p].fEventCounter \in Int
  <2>1. \A p \in Files : sampler[p] \in Samplers BY DEF SamplerInv
  <2> QED BY <2>1 DEF Samplers
<1> QED BY <1>1, <1>2

-----------------------------------------------------------------------------
(* The steps of the samplers. *)

LEMMA FlagsChange ==
    ASSUME PipeInv, NEW p \in Files,
           UNCHANGED <<setup, toProc, toMerger, merger, toSink, tree>>,
           NEW s \in Samplers, s.source = sampler[p].source,
           s.fEventCounter = sampler[p].fEventCounter, sampler' = [sampler EXCEPT ![p] = s]
    PROVE PipeInv'
<1>1. SamplerInv BY DEF PipeInv
<1>2. sampler \in [Files -> Samplers] BY <1>1 DEF SamplerInv
<1>3. /\ sampler' \in [Files -> Samplers]
      /\ \A q \in Files : /\ sampler'[q].source = sampler[q].source
                          /\ sampler'[q].fEventCounter = sampler[q].fEventCounter
  BY <1>2
<1>4. SamplerInv' BY <1>1, <1>3, SamplerKept
<1>5. \A q \in Files : sampler'[q].fEventCounter >= sampler[q].fEventCounter
  BY <1>1, <1>3, SamplerKept
<1> QED BY <1>4, <1>5, OnlySampler

LEMMA StopRunningIs == ASSUME PipeInv, NEW p \in Files, StopRunning(p) PROVE PipeInv'
<1>1. sampler[p] \in Samplers /\ sampler \in [Files -> Samplers] BY DEF PipeInv, SamplerInv
<1>2. PICK s : s = [sampler[p] EXCEPT !.running = FALSE] OBVIOUS
<1>3. s \in Samplers /\ s.source = sampler[p].source /\ s.fEventCounter = sampler[p].fEventCounter
  BY <1>1, <1>2 DEF Samplers
<1>4. sampler' = [sampler EXCEPT ![p] = s] BY <1>2 DEF StopRunning
<1>5. UNCHANGED <<setup, toProc, toMerger, merger, toSink, tree>> BY DEF StopRunning
<1> QED BY <1>3, <1>4, <1>5, FlagsChange

LEMMA ListenForAcksIs == ASSUME PipeInv, NEW p \in Files, ListenForAcks(p) PROVE PipeInv'
<1>1. sampler[p] \in Samplers /\ sampler \in [Files -> Samplers] BY DEF PipeInv, SamplerInv
<1>2. PICK b : b = Listening(sampler[p], sampler[p].numAcks + 1) OBVIOUS
<1>3. PICK s : s = [sampler[p] EXCEPT !.acks = @ - 1, !.numAcks = @ + 1, !.listening = b] OBVIOUS
<1>4. b \in BOOLEAN BY <1>2 DEF Listening
<1>5. s \in Samplers /\ s.source = sampler[p].source /\ s.fEventCounter = sampler[p].fEventCounter
  <2>1. PICK r : r = sampler[p] OBVIOUS
  <2>2. r \in Samplers BY <1>1, <2>1
  <2>3. s = [source |-> r.source, fEventCounter |-> r.fEventCounter, fMaxIndex |-> r.fMaxIndex,
             running |-> r.running, done |-> r.done, listening |-> b,
             numAcks |-> r.numAcks + 1, acks |-> r.acks - 1]
    BY <1>3, <2>1, <2>2 DEF Samplers
  <2>4. r.numAcks + 1 \in Int /\ r.acks - 1 \in Int BY <2>2 DEF Samplers
  <2> QED BY <1>4, <2>1, <2>2, <2>3, <2>4 DEF Samplers
<1>6. sampler' = [sampler EXCEPT ![p] = s] BY <1>1, <1>2, <1>3 DEF ListenForAcks
<1>7. UNCHANGED <<setup, toProc, toMerger, merger, toSink, tree>> BY DEF ListenForAcks
<1> QED BY <1>5, <1>6, <1>7, FlagsChange

LEMMA PostRunIs == ASSUME PipeInv, NEW p \in Files, PostRun(p) PROVE PipeInv'
<1>1. sampler[p] \in Samplers /\ sampler \in [Files -> Samplers] BY DEF PipeInv, SamplerInv
<1>2. PICK s : s = [sampler[p] EXCEPT !.done = TRUE] OBVIOUS
<1>3. s \in Samplers /\ s.source = sampler[p].source /\ s.fEventCounter = sampler[p].fEventCounter
  BY <1>1, <1>2 DEF Samplers
<1>4. sampler' = [sampler EXCEPT ![p] = s] BY <1>2 DEF PostRun
<1>5. UNCHANGED <<setup, toProc, toMerger, merger, toSink, tree>> BY DEF PostRun
<1> QED BY <1>3, <1>4, <1>5, FlagsChange

\* The part of an event that a sampler has not come to was not sent yet.
LEMMA NotSentYet ==
    ASSUME SamplerInv, NEW p \in Files, NEW i \in DOMAIN Events, i > Counter[p],
           NEW m, IsEvent(m, i), m.part = p
    PROVE /\ \A x \in SentParts : PartId(x) # PartId(m)
          /\ \A j \in CompleteEvents : EvRIPair(Events[j]) # EvRIPair(m)
<1>1. setup \in Setups BY DEF SamplerInv
<1>2. EvRIPair(m) = EvRIPair(Events[i]) BY <1>1, EventsOK
<1>3. \A j \in DOMAIN Events : EvRIPair(Events[j]) = EvRIPair(m) => j = i BY <1>1, <1>2, EventsOK
<1>4. ~(i <= Counter[p])
  <2>1. i \in Int /\ Counter[p] \in Int
    <3>1. i \in Int BY <1>1, EventsOK
    <3>2. sampler[p] \in Samplers BY DEF SamplerInv
    <3> QED BY <3>1, <3>2 DEF Counter, Samplers
  <2> QED BY <2>1
<1>5. ASSUME NEW x \in SentParts, PartId(x) = PartId(m) PROVE FALSE
  <2>1. x.part = p /\ EvRIPair(x) = EvRIPair(m) BY <1>5 DEF PartId
  <2>2. PICK j \in DOMAIN Events : IsEvent(x, j) /\ j <= Counter[x.part] BY DEF SentParts
  <2>3. EvRIPair(x) = EvRIPair(Events[j]) BY <1>1, <2>2, EventsOK
  <2>4. j = i BY <1>3, <2>1, <2>3
  <2> QED BY <1>4, <2>1, <2>2, <2>4
<1>6. ASSUME NEW j \in CompleteEvents, EvRIPair(Events[j]) = EvRIPair(m) PROVE FALSE
  <2>1. j \in DOMAIN Events /\ j <= Counter[p] BY DEF CompleteEvents
  <2> QED BY <1>3, <1>4, <1>6, <2>1
<1> QED BY <1>5, <1>6

LEMMA ConditionalRunIs == ASSUME PipeInv, NEW p \in Files, ConditionalRun(p) PROVE PipeInv'
<1> USE DEF PipeInv
<1>1. setup \in Setups /\ sampler \in [Files -> Samplers] /\ sampler[p] \in Samplers
      /\ <<p, sampler[p].source, sampler[p].fEventCounter>> \in SourceStates
  BY DEF SamplerInv
<1>2. PICK n : n = sampler[p].fEventCounter OBVIOUS
<1>3. PICK read : read = ReadEvent(sampler[p].source, p, n) OBVIOUS
<1>4. PICK q \in Feeds[p] :
         /\ read.ok /\ Len(toProc[q]) < QueueLength
         /\ toProc' = [toProc EXCEPT ![q] = Append(@, read.event)]
         /\ sampler' = [sampler EXCEPT ![p].source = read, ![p].fEventCounter = @ + 1]
         /\ UNCHANGED <<setup, toMerger, merger, toSink, tree>>
  BY <1>2, <1>3 DEF ConditionalRun
<1>5. n \in Nat /\ sampler[p].source \in Sources BY <1>1, <1>2 DEF Samplers
<1>6. IsNext(read, p, n) BY <1>1, <1>2, <1>3, <1>4, <1>5, ReadIs
<1>7. PICK m : m = read.event OBVIOUS
<1>8. read \in Sources /\ m \in Messages /\ <<p, read, n + 1>> \in SourceStates
  BY <1>6, <1>7 DEF IsNext, Sources
<1>9. PICK i \in DOMAIN Events :
         /\ IsEvent(m, i) /\ i <= n + 1 /\ m.part = p /\ m.digis \subseteq Events[i].digis
         /\ ~AsText => i = n + 1 /\ m.digis = DigisIn(i, p)
  BY <1>6, <1>7 DEF IsNext
\* The sampler.
<1>10. PICK s : s = [sampler[p] EXCEPT !.source = read, !.fEventCounter = @ + 1] OBVIOUS
<1>11. s \in Samplers /\ s.source = read /\ s.fEventCounter = n + 1
  <2>1. PICK r : r = sampler[p] OBVIOUS
  <2>2. r \in Samplers BY <1>1, <2>1
  <2>3. s = [source |-> read, fEventCounter |-> n + 1, fMaxIndex |-> r.fMaxIndex,
             running |-> r.running, done |-> r.done, listening |-> r.listening,
             numAcks |-> r.numAcks, acks |-> r.acks]
    BY <1>2, <1>10, <2>1, <2>2 DEF Samplers
  <2>4. n + 1 \in Nat BY <1>5
  <2> QED BY <1>8, <2>2, <2>3, <2>4 DEF Samplers
<1>12. sampler' = [sampler EXCEPT ![p] = s] BY <1>1, <1>4, <1>10
<1>13. /\ sampler' \in [Files -> Samplers] /\ sampler'[p] = s
       /\ \A r \in Files : r # p => sampler'[r] = sampler[r]
  BY <1>1, <1>11, <1>12
<1>14. SamplerInv'
  <2>1. \A r \in Files : <<r, sampler'[r].source, sampler'[r].fEventCounter>> \in SourceStates
    BY <1>8, <1>11, <1>13 DEF SamplerInv
  <2> QED BY <1>4, <1>13, <2>1, SetupKept DEF SamplerInv
<1>15. \A r \in Files : sampler'[r].fEventCounter >= sampler[r].fEventCounter
  <2>1. \A r \in Files : sampler[r].fEventCounter \in Nat BY <1>1 DEF Samplers
  <2>2. n + 1 >= n BY <1>5
  <2> QED BY <1>2, <1>11, <1>13, <2>1, <2>2
<1>16. /\ SentParts \subseteq SentParts' /\ CompleteEvents \subseteq CompleteEvents'
       /\ WholeEvents \subseteq WholeEvents'
  BY <1>4, <1>14, <1>15, SentGrow
<1>17. Finished' = Finished BY <1>4, FinishedKept
<1>18. MergerInv' /\ SinkInv' BY <1>4, <1>16, <1>17, MergerKept, SinkKept
\* The message.
<1>19. m \in SentParts'
  <2>1. Counter'[p] = n + 1 BY <1>4, <1>11, <1>13, SetupKept DEF Counter
  <2> QED BY <1>4, <1>8, <1>9, <2>1, SetupKept DEF SentParts, IsEvent
<1>20. q \in Processors BY DEF Processors
<1>21. QueueLength \in Nat BY <1>1, SetupOK
<1>22. AreChannels(Processors, QueueLength, toProc) BY DEF ChannelInv
<1>23. Changed(Processors, toProc', toProc, q, Append(toProc[q], m))
  BY <1>4, <1>7, <1>20, <1>22 DEF Changed, AreChannels
<1>24. Len(toProc[q]) < QueueLength BY <1>4
<1>25. AreChannels(Processors, QueueLength, toProc')
  BY <1>20, <1>21, <1>22, <1>23, <1>24, ChannelPut
<1>26. WithMessage(Processors, toProc', toProc, q, m)
  BY <1>20, <1>21, <1>22, <1>23, <1>24, ChannelPut
<1>27. PICK l : l = Len(toProc[q]) + 1 OBVIOUS
<1>28. ASSUME NEW u \in Processors, NEW j \in DOMAIN toProc'[u]
       PROVE \/ j \in DOMAIN toProc[u] /\ toProc'[u][j] = toProc[u][j]
             \/ u = q /\ j = l /\ toProc'[u][j] = m
  BY <1>26, <1>27 DEF WithMessage
<1>29. ChannelInv'
  <2>1. \A u \in Processors : \A j \in DOMAIN toProc'[u] : toProc'[u][j] \in SentParts'
    BY <1>16, <1>19, <1>28 DEF ChannelInv
  <2>2. \A u \in Processors : \A j \in DOMAIN toMerger[u] : toMerger[u][j] \in SentParts'
    BY <1>16 DEF ChannelInv
  <2> QED BY <1>4, <1>25, <2>1, <2>2, SetupKept DEF ChannelInv
<1>30. PartsOnce'
  <2> SUFFICES ASSUME ~AsText PROVE PartsOnce' BY <1>4, SetupKept DEF PartsOnce
  <2>1. i > Counter[p]
    <3>1. Counter[p] = n BY <1>2 DEF Counter
    <3> QED BY <1>5, <1>9, <3>1
  <2>2. /\ \A x \in SentParts : PartId(x) # PartId(m)
        /\ \A j \in CompleteEvents : EvRIPair(Events[j]) # EvRIPair(m)
    BY <1>9, <2>1, NotSentYet
  <2>3. EvRIPair(m) \notin Finished BY <2>2 DEF MergerInv
  <2>4. \A b \in merger.buffer : PartId(m) # PartId(b) BY <2>2 DEF MergerInv
  <2>5. \A u \in Processors : \A j \in DOMAIN toProc[u] : PartId(toProc[u][j]) # PartId(m)
    BY <2>2 DEF ChannelInv
  <2>6. \A u \in Processors : \A j \in DOMAIN toMerger[u] : PartId(toMerger[u][j]) # PartId(m)
    BY <2>2 DEF ChannelInv
  <2>7. \A u, r \in Processors : \A j \in DOMAIN toProc'[u], k \in DOMAIN toProc'[r] :
           PartId(toProc'[u][j]) = PartId(toProc'[r][k]) => u = r /\ j = k
    <3> SUFFICES ASSUME NEW u \in Processors, NEW r \in Processors, NEW j \in DOMAIN toProc'[u],
                        NEW k \in DOMAIN toProc'[r], PartId(toProc'[u][j]) = PartId(toProc'[r][k])
                 PROVE u = r /\ j = k
      OBVIOUS
    <3>1. \/ j \in DOMAIN toProc[u] /\ toProc'[u][j] = toProc[u][j]
          \/ u = q /\ j = l /\ toProc'[u][j] = m
      BY <1>28
    <3>2. \/ k \in DOMAIN toProc[r] /\ toProc'[r][k] = toProc[r][k]
          \/ r = q /\ k = l /\ toProc'[r][k] = m
      BY <1>28
    <3> QED BY <2>5, <3>1, <3>2 DEF PartsOnce
  <2>8. \A u, r \in Processors : \A j \in DOMAIN toProc'[u], k \in DOMAIN toMerger[r] :
           PartId(toProc'[u][j]) # PartId(toMerger[r][k])
    BY <1>28, <2>6 DEF PartsOnce
  <2>9. \A u \in Processors : \A j \in DOMAIN toProc'[u] :
           /\ EvRIPair(toProc'[u][j]) \notin Finished
           /\ \A b \in merger.buffer : PartId(toProc'[u][j]) # PartId(b)
    BY <1>28, <2>3, <2>4 DEF PartsOnce
  <2>10. \A u, r \in Processors : \A j \in DOMAIN toMerger'[u], k \in DOMAIN toMerger'[r] :
            PartId(toMerger'[u][j]) = PartId(toMerger'[r][k]) => u = r /\ j = k
    BY <1>4 DEF PartsOnce
  <2>11. \A u \in Processors : \A j \in DOMAIN toMerger'[u] :
            /\ EvRIPair(toMerger'[u][j]) \notin Finished'
            /\ \A b \in merger'.buffer : PartId(toMerger'[u][j]) # PartId(b)
    BY <1>4, <1>17 DEF PartsOnce
  <2>12. /\ toMerger' = toMerger /\ merger' = merger /\ Processors' = Processors
    BY <1>4, SetupKept
  <2> QED BY <1>17, <2>7, <2>8, <2>9, <2>10, <2>11, <2>12 DEF PartsOnce
<1> QED BY <1>14, <1>18, <1>29, <1>30

-----------------------------------------------------------------------------
(* The steps of the processors and of the merger. *)

LEMMA SamplerSame ==
    ASSUME SamplerInv, UNCHANGED <<setup, sampler>>
    PROVE /\ SamplerInv' /\ SentParts \subseteq SentParts'
          /\ CompleteEvents \subseteq CompleteEvents' /\ WholeEvents \subseteq WholeEvents'
<1>1. SamplerInv' BY SamplerKept DEF SamplerInv
<1>2. \A p \in Files : sampler'[p].fEventCounter >= sampler[p].fEventCounter
  BY SamplerKept DEF SamplerInv
<1> QED BY <1>1, <1>2, SentGrow

\* The first message that a processor sent is taken.
LEMMA TakenFromMerger ==
    ASSUME PipeInv, NEW q \in Processors, toMerger[q] # << >>,
           toMerger' = [toMerger EXCEPT ![q] = Tail(@)], UNCHANGED <<setup, toProc>>,
           SentParts \subseteq SentParts', NEW msg, msg = Head(toMerger[q])
    PROVE /\ ChannelInv' /\ WithoutFirst(Processors, toMerger', toMerger, q)
          /\ 1 \in DOMAIN toMerger[q] /\ msg = toMerger[q][1]
<1> USE DEF PipeInv
<1>1. QueueLength \in Nat BY SetupOK DEF SamplerInv
<1>2. AreChannels(Processors, QueueLength, toMerger) BY DEF ChannelInv
<1>3. Changed(Processors, toMerger', toMerger, q, Tail(toMerger[q])) BY <1>2 DEF Changed, AreChannels
<1>4. AreChannels(Processors, QueueLength, toMerger') BY <1>1, <1>2, <1>3, ChannelTake
<1>5. 1 \in DOMAIN toMerger[q] BY <1>1, <1>2, <1>3, ChannelTake
<1>6. Head(toMerger[q]) = toMerger[q][1] BY <1>1, <1>2, <1>3, ChannelTake
<1>7. WithoutFirst(Processors, toMerger', toMerger, q) BY <1>1, <1>2, <1>3, ChannelTake
<1>8. \A u \in Processors : \A j \in DOMAIN toMerger'[u] : toMerger'[u][j] \in SentParts'
  BY <1>7 DEF WithoutFirst, ChannelInv
<1>9. \A u \in Processors : \A j \in DOMAIN toProc[u] : toProc[u][j] \in SentParts'
  BY DEF ChannelInv
<1>10. ChannelInv' BY <1>4, <1>8, <1>9, SetupKept DEF ChannelInv
<1> QED BY <1>5, <1>6, <1>7, <1>10

LEMMA ProcessDataIs == ASSUME PipeInv, NEW q \in Processors, ProcessData(q) PROVE PipeInv'
<1> USE DEF PipeInv
<1>1. PICK m : m = Head(toProc[q]) OBVIOUS
<1>2. /\ toProc[q] # << >> /\ Len(toMerger[q]) < QueueLength
      /\ toMerger' = [toMerger EXCEPT ![q] = Append(@, m)]
      /\ toProc' = [toProc EXCEPT ![q] = Tail(@)]
      /\ UNCHANGED <<setup, sampler, merger, toSink, tree>>
  BY <1>1 DEF ProcessData
<1>3. /\ SamplerInv' /\ SentParts \subseteq SentParts'
      /\ CompleteEvents \subseteq CompleteEvents' /\ WholeEvents \subseteq WholeEvents'
  BY <1>2, SamplerSame
<1>4. Finished' = Finished BY <1>2, FinishedKept
<1>5. MergerInv' /\ SinkInv' BY <1>2, <1>3, <1>4, MergerKept, SinkKept
<1>6. QueueLength \in Nat BY SetupOK DEF SamplerInv
<1>7. AreChannels(Processors, QueueLength, toProc) /\ AreChannels(Processors, QueueLength, toMerger)
  BY DEF ChannelInv
<1>8. Changed(Processors, toProc', toProc, q, Tail(toProc[q])) BY <1>2, <1>7 DEF Changed, AreChannels
<1>9. toProc[q] # << >> BY <1>2
<1>10. AreChannels(Processors, QueueLength, toProc') BY <1>6, <1>7, <1>8, <1>9, ChannelTake
<1>11. 1 \in DOMAIN toProc[q] BY <1>6, <1>7, <1>8, <1>9, ChannelTake
<1>12. m = toProc[q][1] BY <1>1, <1>6, <1>7, <1>8, <1>9, ChannelTake
<1>13. WithoutFirst(Processors, toProc', toProc, q) BY <1>6, <1>7, <1>8, <1>9, ChannelTake
<1>14. Changed(Processors, toMerger', toMerger, q, Append(toMerger[q], m))
  BY <1>2, <1>7 DEF Changed, AreChannels
<1>15. Len(toMerger[q]) < QueueLength BY <1>2
<1>16. AreChannels(Processors, QueueLength, toMerger') BY <1>6, <1>7, <1>14, <1>15, ChannelPut
<1>17. WithMessage(Processors, toMerger', toMerger, q, m) BY <1>6, <1>7, <1>14, <1>15, ChannelPut
<1>18. PICK l : l = Len(toMerger[q]) + 1 OBVIOUS
<1>19. ASSUME NEW u \in Processors, NEW j \in DOMAIN toMerger'[u]
       PROVE \/ j \in DOMAIN toMerger[u] /\ toMerger'[u][j] = toMerger[u][j]
             \/ u = q /\ j = l /\ toMerger'[u][j] = m
  BY <1>17, <1>18 DEF WithMessage
<1>20. ASSUME NEW u \in Processors, NEW j \in DOMAIN toProc'[u]
       PROVE \E k \in DOMAIN toProc[u] :
                /\ toProc'[u][j] = toProc[u][k] /\ ~(u = q /\ k = 1)
                /\ j \in Int /\ k = IF u = q THEN j + 1 ELSE j
  BY <1>13 DEF WithoutFirst
<1>21. m \in SentParts BY <1>11, <1>12 DEF ChannelInv
<1>22. ChannelInv'
  <2>1. \A u \in Processors : \A j \in DOMAIN toProc'[u] : toProc'[u][j] \in SentParts'
    BY <1>3, <1>20 DEF ChannelInv
  <2>2. \A u \in Processors : \A j \in DOMAIN toMerger'[u] : toMerger'[u][j] \in SentParts'
    BY <1>3, <1>19, <1>21 DEF ChannelInv
  <2> QED BY <1>2, <1>10, <1>16, <2>1, <2>2, SetupKept DEF ChannelInv
<1>23. PartsOnce'
  <2> SUFFICES ASSUME ~AsText PROVE PartsOnce' BY <1>2, SetupKept DEF PartsOnce
  <2>1. \A u, r \in Processors : \A j \in DOMAIN toProc'[u], k \in DOMAIN toProc'[r] :
           PartId(toProc'[u][j]) = PartId(toProc'[r][k]) => u = r /\ j = k
    <3> SUFFICES ASSUME NEW u \in Processors, NEW r \in Processors, NEW j \in DOMAIN toProc'[u],
                        NEW k \in DOMAIN toProc'[r], PartId(toProc'[u][j]) = PartId(toProc'[r][k])
                 PROVE u = r /\ j = k
      OBVIOUS
    <3>1. PICK j1 \in DOMAIN toProc[u] : toProc'[u][j] = toProc[u][j1]
                                         /\ j \in Int /\ j1 = IF u = q THEN j + 1 ELSE j
      BY <1>20
    <3>2. PICK k1 \in DOMAIN toProc[r] : toProc'[r][k] = toProc[r][k1]
                                         /\ k \in Int /\ k1 = IF r = q THEN k + 1 ELSE k
      BY <1>20
    <3>3. u = r /\ j1 = k1 BY <3>1, <3>2 DEF PartsOnce
    <3> QED BY <3>1, <3>2, <3>3
  <2>2. \A u \in Processors : \A j \in DOMAIN toMerger[u] : PartId(toMerger[u][j]) # PartId(m)
    BY <1>11, <1>12 DEF PartsOnce
  <2>3. \A u, r \in Processors : \A j \in DOMAIN toMerger'[u], k \in DOMAIN toMerger'[r] :
           PartId(toMerger'[u][j]) = PartId(toMerger'[r][k]) => u = r /\ j = k
    <3> SUFFICES ASSUME NEW u \in Processors, NEW r \in Processors, NEW j \in DOMAIN toMerger'[u],
                        NEW k \in DOMAIN toMerger'[r],
                        PartId(toMerger'[u][j]) = PartId(toMerger'[r][k])
                 PROVE u = r /\ j = k
      OBVIOUS
    <3>1. \/ j \in DOMAIN toMerger[u] /\ toMerger'[u][j] = toMerger[u][j]
          \/ u = q /\ j = l /\ toMerger'[u][j] = m
      BY <1>19
    <3>2. \/ k \in DOMAIN toMerger[r] /\ toMerger'[r][k] = toMerger[r][k]
          \/ r = q /\ k = l /\ toMerger'[r][k] = m
      BY <1>19
    <3> QED BY <2>2, <3>1, <3>2 DEF PartsOnce
  <2>4. \A u, r \in Processors : \A j \in DOMAIN toProc'[u], k \in DOMAIN toMerger'[r] :
           PartId(toProc'[u][j]) # PartId(toMerger'[r][k])
    <3> SUFFICES ASSUME NEW u \in Processors, NEW r \in Processors, NEW j \in DOMAIN toProc'[u],
                        NEW k \in DOMAIN toMerger'[r]
                 PROVE PartId(toProc'[u][j]) # PartId(toMerger'[r][k])
      OBVIOUS
    <3>1. PICK j1 \in DOMAIN toProc[u] : toProc'[u][j] = toProc[u][j1] /\ ~(u = q /\ j1 = 1)
      BY <1>20
    <3>2. PartId(toProc[u][j1]) # PartId(m) BY <1>11, <1>12, <3>1 DEF PartsOnce
    <3> QED BY <1>19, <3>1, <3>2 DEF PartsOnce
  <2>5. \A u \in Processors : \A j \in DOMAIN toProc'[u] :
           /\ EvRIPair(toProc'[u][j]) \notin Finished'
           /\ \A b \in merger'.buffer : PartId(toProc'[u][j]) # PartId(b)
    BY <1>2, <1>4, <1>20 DEF PartsOnce
  <2>6. \A u \in Processors : \A j \in DOMAIN toMerger'[u] :
           /\ EvRIPair(toMerger'[u][j]) \notin Finished'
           /\ \A b \in merger'.buffer : PartId(toMerger'[u][j]) # PartId(b)
    BY <1>2, <1>4, <1>11, <1>12, <1>19 DEF PartsOnce
  <2>7. Processors' = Processors BY <1>2, SetupKept
  <2> QED BY <2>1, <2>3, <2>4, <2>5, <2>6, <2>7 DEF PartsOnce
<1> QED BY <1>3, <1>5, <1>22, <1>23

\* What is known of the message that is taken and of those that are left.
PartTaken(q, msg) ==
    /\ msg \in SentParts
    /\ \A u \in Processors : \A j \in DOMAIN toMerger'[u] :
          \E k \in DOMAIN toMerger[u] : /\ toMerger'[u][j] = toMerger[u][k] /\ ~(u = q /\ k = 1)
                                        /\ j \in Int /\ k = IF u = q THEN j + 1 ELSE j
    /\ AsText \/ /\ EvRIPair(msg) \notin Finished
                 /\ \A b \in merger.buffer : PartId(b) # PartId(msg)
                 /\ \A u \in Processors : \A j \in DOMAIN toProc[u] : PartId(toProc[u][j]) # PartId(msg)
                 /\ \A u \in Processors : \A j \in DOMAIN toMerger'[u] :
                       PartId(toMerger'[u][j]) # PartId(msg)

LEMMA PartTakenIs ==
    ASSUME PipeInv, NEW q \in Processors, 1 \in DOMAIN toMerger[q], NEW msg, msg = toMerger[q][1],
           WithoutFirst(Processors, toMerger', toMerger, q)
    PROVE PartTaken(q, msg)
<1> USE DEF PipeInv
<1>1. msg \in SentParts BY DEF ChannelInv
<1>2. ASSUME NEW u \in Processors, NEW j \in DOMAIN toMerger'[u]
      PROVE \E k \in DOMAIN toMerger[u] : /\ toMerger'[u][j] = toMerger[u][k] /\ ~(u = q /\ k = 1)
                                          /\ j \in Int /\ k = IF u = q THEN j + 1 ELSE j
  BY DEF WithoutFirst
<1>3. ASSUME ~AsText
      PROVE /\ EvRIPair(msg) \notin Finished
            /\ \A b \in merger.buffer : PartId(b) # PartId(msg)
            /\ \A u \in Processors : \A j \in DOMAIN toProc[u] : PartId(toProc[u][j]) # PartId(msg)
  BY <1>3 DEF PartsOnce
<1>4. ASSUME ~AsText, NEW u \in Processors, NEW j \in DOMAIN toMerger'[u]
      PROVE PartId(toMerger'[u][j]) # PartId(msg)
  <2>1. PICK k \in DOMAIN toMerger[u] : toMerger'[u][j] = toMerger[u][k] /\ ~(u = q /\ k = 1)
    BY <1>2
  <2> QED BY <1>4, <2>1 DEF PartsOnce
<1> QED BY <1>1, <1>2, <1>3, <1>4 DEF PartTaken

\* A part is taken and none is sent: the others stay in one place each, if all
\* other parts of an event that is finished now were in the merger.
LEMMA PartsLeft ==
    ASSUME PipeInv, NEW q \in Processors, NEW msg, PartTaken(q, msg), UNCHANGED <<setup, toProc>>,
           merger'.buffer \subseteq merger.buffer \cup {msg},
           \A m \in SentParts : ~AsText /\ EvRIPair(m) \in Finished' \ Finished =>
              PartId(m) = PartId(msg) \/ \E b \in merger.buffer : PartId(m) = PartId(b)
    PROVE PartsOnce'
<1> USE DEF PipeInv
<1> SUFFICES ASSUME ~AsText PROVE PartsOnce' BY SetupKept DEF PartsOnce
<1>1. \A u, r \in Processors : \A j \in DOMAIN toProc'[u], k \in DOMAIN toProc'[r] :
         PartId(toProc'[u][j]) = PartId(toProc'[r][k]) => u = r /\ j = k
  BY DEF PartsOnce
<1>2. ASSUME NEW u \in Processors, NEW j \in DOMAIN toMerger'[u]
      PROVE \E k \in DOMAIN toMerger[u] : /\ toMerger'[u][j] = toMerger[u][k] /\ ~(u = q /\ k = 1)
                                          /\ j \in Int /\ k = IF u = q THEN j + 1 ELSE j
  BY DEF PartTaken
<1>3. \A u, r \in Processors : \A j \in DOMAIN toMerger'[u], k \in DOMAIN toMerger'[r] :
         PartId(toMerger'[u][j]) = PartId(toMerger'[r][k]) => u = r /\ j = k
  <2> SUFFICES ASSUME NEW u \in Processors, NEW r \in Processors, NEW j \in DOMAIN toMerger'[u],
                      NEW k \in DOMAIN toMerger'[r],
                      PartId(toMerger'[u][j]) = PartId(toMerger'[r][k])
               PROVE u = r /\ j = k
    OBVIOUS
  <2>1. PICK j1 \in DOMAIN toMerger[u] : toMerger'[u][j] = toMerger[u][j1]
                                         /\ j \in Int /\ j1 = IF u = q THEN j + 1 ELSE j
    BY <1>2
  <2>2. PICK k1 \in DOMAIN toMerger[r] : toMerger'[r][k] = toMerger[r][k1]
                                         /\ k \in Int /\ k1 = IF r = q THEN k + 1 ELSE k
    BY <1>2
  <2>3. u = r /\ j1 = k1 BY <2>1, <2>2 DEF PartsOnce
  <2> QED BY <2>1, <2>2, <2>3
<1>4. \A u, r \in Processors : \A j \in DOMAIN toProc'[u], k \in DOMAIN toMerger'[r] :
         PartId(toProc'[u][j]) # PartId(toMerger'[r][k])
  <2> SUFFICES ASSUME NEW u \in Processors, NEW r \in Processors, NEW j \in DOMAIN toProc'[u],
                      NEW k \in DOMAIN toMerger'[r]
               PROVE PartId(toProc'[u][j]) # PartId(toMerger'[r][k])
    OBVIOUS
  <2>1. PICK k1 \in DOMAIN toMerger[r] : toMerger'[r][k] = toMerger[r][k1] BY <1>2
  <2>2. j \in DOMAIN toProc[u] /\ toProc'[u][j] = toProc[u][j] OBVIOUS
  <2> QED BY <2>1, <2>2 DEF PartsOnce
\* A part that is left.
<1>5. ASSUME NEW m \in SentParts, EvRIPair(m) \notin Finished, PartId(m) # PartId(msg),
             \A b \in merger.buffer : PartId(m) # PartId(b)
      PROVE /\ EvRIPair(m) \notin Finished' /\ \A b \in merger'.buffer : PartId(m) # PartId(b)
  BY <1>5
<1>6. ASSUME NEW u \in Processors, NEW j \in DOMAIN toProc'[u]
      PROVE /\ EvRIPair(toProc'[u][j]) \notin Finished'
            /\ \A b \in merger'.buffer : PartId(toProc'[u][j]) # PartId(b)
  <2>1. PICK m : m = toProc[u][j] OBVIOUS
  <2>2. m \in SentParts BY <2>1 DEF ChannelInv
  <2>3. EvRIPair(m) \notin Finished /\ \A b \in merger.buffer : PartId(m) # PartId(b)
    BY <2>1 DEF PartsOnce
  <2>4. PartId(m) # PartId(msg) BY <2>1 DEF PartTaken
  <2>5. toProc'[u][j] = m BY <2>1
  <2> QED BY <1>5, <2>2, <2>3, <2>4, <2>5
<1>7. ASSUME NEW u \in Processors, NEW j \in DOMAIN toMerger'[u]
      PROVE /\ EvRIPair(toMerger'[u][j]) \notin Finished'
            /\ \A b \in merger'.buffer : PartId(toMerger'[u][j]) # PartId(b)
  <2>1. PICK m : m = toMerger'[u][j] OBVIOUS
  <2>2. PICK k \in DOMAIN toMerger[u] : m = toMerger[u][k] BY <1>2, <2>1
  <2>3. m \in SentParts BY <2>2 DEF ChannelInv
  <2>4. EvRIPair(m) \notin Finished /\ \A b \in merger.buffer : PartId(m) # PartId(b)
    BY <2>2 DEF PartsOnce
  <2>5. PartId(m) # PartId(msg) BY <2>1 DEF PartTaken
  <2> QED BY <1>5, <2>1, <2>3, <2>4, <2>5
<1>8. Processors' = Processors BY SetupKept
<1> QED BY <1>1, <1>3, <1>4, <1>6, <1>7, <1>8 DEF PartsOnce

\* The number of parts the merger has got of an event.
LEMMA ReceivedIs ==
    ASSUME SamplerInv, MergerInv, NEW msg \in SentParts, ~SkipsPart(msg),
           NEW k, k = EvRIPair(msg), NEW P, P = PartsIn(merger.buffer, k)
    PROVE /\ ReceivedParts(msg) \in Nat \ {0} /\ P \subseteq Files /\ IsFiniteSet(P)
          /\ msg.part \in Files /\ msg.part \notin P
          /\ ReceivedParts(msg) <= NofParts => ReceivedParts(msg) = Cardinality(P) + 1
<1>1. /\ NofParts = NofFiles /\ NofFiles \in Nat \ {0} /\ IsFiniteSet(Files)
  BY SetupOK DEF SamplerInv, NofParts
<1>2. P \subseteq Files BY DEF PartsIn
<1>3. IsFiniteSet(P) /\ Cardinality(P) \in Nat BY <1>1, <1>2, FS_Subset, FS_CardinalityType
<1>4. msg.part \in Files BY DEF SentParts, Messages
<1>5. msg.part \notin P BY DEF SkipsPart, Buffered, PartsIn
<1>6. CASE k \in DOMAIN merger.parts
  <2>1. merger.parts[k] \in Nat \ {0} BY <1>6 DEF MergerInv
  <2>2. ReceivedParts(msg) = merger.parts[k] + 1 BY <1>6 DEF ReceivedParts
  <2>3. merger.parts[k] < NofParts => merger.parts[k] = Cardinality(P) BY <1>6 DEF MergerInv
  <2> QED BY <1>1, <1>2, <1>3, <1>4, <1>5, <2>1, <2>2, <2>3
<1>7. CASE k \notin DOMAIN merger.parts
  <2>1. ReceivedParts(msg) = 1 BY <1>7 DEF ReceivedParts
  <2>2. P = {} BY <1>7 DEF PartsIn, MergerInv
  <2>3. Cardinality(P) = 0 BY <2>2, FS_EmptySet
  <2> QED BY <1>2, <1>3, <1>4, <1>5, <2>1, <2>3
<1> QED BY <1>6, <1>7

\* When the last part comes, all parts were sent.
LEMMA LastPart ==
    ASSUME SamplerInv, MergerInv, NEW msg \in SentParts, ~SkipsPart(msg), IsLastPart(msg),
           NEW k, k = EvRIPair(msg)
    PROVE /\ \A p \in Files : p = msg.part \/ \E b \in merger.buffer : b.part = p /\ EvRIPair(b) = k
          /\ \E i \in CompleteEvents : IsEvent(msg, i) /\ msg.digis \subseteq Events[i].digis
<1>1. PICK P : P = PartsIn(merger.buffer, k) OBVIOUS
<1>2. /\ NofParts = NofFiles /\ NofFiles \in Nat \ {0} /\ IsFiniteSet(Files)
      /\ Cardinality(Files) = NofFiles
  BY SetupOK DEF SamplerInv, NofParts
<1>3. ReceivedParts(msg) = NofFiles BY <1>2 DEF IsLastPart
<1>4. P \subseteq Files /\ IsFiniteSet(P) /\ msg.part \in Files /\ msg.part \notin P
  BY <1>1, ReceivedIs
<1>5. NofFiles = Cardinality(P) + 1 BY <1>1, <1>2, <1>3, ReceivedIs
<1>6. PICK Q : Q = P \cup {msg.part} OBVIOUS
<1>7. Q \subseteq Files /\ IsFiniteSet(Q) /\ Cardinality(Q) = NofFiles
  BY <1>4, <1>5, <1>6, FS_AddElement
<1>8. Q = Files BY <1>2, <1>7, FS_Subset
<1>9. \A p \in Files : p = msg.part \/ \E b \in merger.buffer : b.part = p /\ EvRIPair(b) = k
  BY <1>1, <1>6, <1>8 DEF PartsIn
<1>10. setup \in Setups BY DEF SamplerInv
<1>11. PICK i \in DOMAIN Events :
          IsEvent(msg, i) /\ i <= Counter[msg.part] /\ msg.digis \subseteq Events[i].digis
  BY DEF SentParts
<1>12. k = EvRIPair(Events[i]) BY <1>10, <1>11, EventsOK
<1>13. ASSUME NEW p \in Files PROVE i <= Counter[p]
  <2>1. CASE p = msg.part BY <1>11, <2>1
  <2>2. CASE \E b \in merger.buffer : b.part = p /\ EvRIPair(b) = k
    <3>1. PICK b \in merger.buffer : b.part = p /\ EvRIPair(b) = k BY <2>2
    <3>2. b \in SentParts BY DEF MergerInv
    <3>3. PICK j \in DOMAIN Events : IsEvent(b, j) /\ j <= Counter[b.part] BY <3>2 DEF SentParts
    <3>4. EvRIPair(b) = EvRIPair(Events[j]) BY <1>10, <3>3, EventsOK
    <3>5. j = i BY <1>10, <1>12, <3>1, <3>4, EventsOK
    <3> QED BY <3>1, <3>3, <3>5
  <2> QED BY <1>9, <2>1, <2>2
<1>14. i \in CompleteEvents BY <1>13 DEF CompleteEvents
<1> QED BY <1>9, <1>11, <1>14

\* The merger counts a part and goes on.
OthersKept(k) == \A l \in DOMAIN merger.parts : l # k => merger'.parts[l] = merger.parts[l]

LEMMA MergeCounts ==
    ASSUME SamplerInv, MergerInv, Merging, NEW msg \in SentParts, NEW k, k = EvRIPair(msg),
           NEW r, r = ReceivedParts(msg), ~SkipsPart(msg),
           setup' = setup, merger'.parts = CountPart(msg)
    PROVE /\ r \in Nat \ {0} /\ DOMAIN merger'.parts = DOMAIN merger.parts \cup {k}
          /\ merger'.parts \in [DOMAIN merger'.parts -> Nat \ {0}]
          /\ merger'.parts[k] = r /\ OthersKept(k)
          /\ ~IsLastPart(msg) => Finished' = Finished
          /\ IsLastPart(msg) => Finished' = Finished \cup {k} /\ k \notin Finished
<1>1. NofParts \in Nat \ {0} BY SetupOK DEF SamplerInv, NofParts
<1>2. r \in Nat \ {0} BY ReceivedIs
<1>3. merger'.parts = [l \in DOMAIN merger.parts \cup {k} |-> IF l = k THEN r ELSE merger.parts[l]]
  BY DEF CountPart
<1>4. \A l \in DOMAIN merger.parts : merger.parts[l] \in Nat \ {0} BY DEF MergerInv
<1>5. /\ DOMAIN merger'.parts = DOMAIN merger.parts \cup {k}
      /\ merger'.parts \in [DOMAIN merger'.parts -> Nat \ {0}]
      /\ merger'.parts[k] = r
      /\ \A l \in DOMAIN merger.parts : l # k => merger'.parts[l] = merger.parts[l]
  BY <1>2, <1>3, <1>4
<1>6. /\ Finished = {l \in DOMAIN merger.parts : merger.parts[l] >= NofParts}
      /\ Finished' = {l \in DOMAIN merger'.parts : merger'.parts[l] >= NofParts}
  BY SetupKept DEF Finished
<1>7. k \in DOMAIN merger.parts => r = merger.parts[k] + 1 BY DEF ReceivedParts
<1>8. k \notin DOMAIN merger.parts => r = 1 BY DEF ReceivedParts
<1>9. \A l : l # k => (l \in Finished' <=> l \in Finished) BY <1>5, <1>6
<1>10. k \in Finished' <=> r >= NofParts BY <1>5, <1>6
<1>11. k \in Finished <=> r - 1 >= NofParts
  <2>1. CASE k \in DOMAIN merger.parts
    <3>1. merger.parts[k] \in Nat /\ r - 1 = merger.parts[k] BY <1>4, <1>7, <2>1
    <3> QED BY <1>6, <2>1, <3>1
  <2>2. CASE k \notin DOMAIN merger.parts
    <3>1. r - 1 = 0 /\ ~(0 >= NofParts) BY <1>1, <1>8, <2>2
    <3>2. ~(r - 1 >= NofParts) BY <3>1
    <3> QED BY <1>6, <2>2, <3>2
  <2> QED BY <2>1, <2>2
<1>12. IsLastPart(msg) <=> r = NofParts BY DEF IsLastPart
<1>13. ASSUME ~IsLastPart(msg) PROVE Finished' = Finished
  <2>1. k \in Finished' <=> k \in Finished BY <1>1, <1>2, <1>10, <1>11, <1>12, <1>13
  <2> QED BY <1>9, <2>1
<1>14. ASSUME IsLastPart(msg) PROVE Finished' = Finished \cup {k} /\ k \notin Finished
  <2>1. k \in Finished' /\ k \notin Finished BY <1>1, <1>2, <1>10, <1>11, <1>12, <1>14
  <2> QED BY <1>9, <2>1
<1> QED BY <1>2, <1>5, <1>13, <1>14 DEF OthersKept

LEMMA MergeNotLast ==
    ASSUME PipeInv, NEW q \in Processors, NEW msg, PartTaken(q, msg), Merging, ~SkipsPart(msg),
           ~IsLastPart(msg), UNCHANGED <<setup, sampler, toProc, toSink, tree>>,
           merger' = [parts |-> CountPart(msg), buffer |-> merger.buffer \cup {msg}]
    PROVE MergerInv' /\ PartsOnce' /\ SinkInv'
<1> USE DEF PipeInv
<1>1. PICK k : k = EvRIPair(msg) OBVIOUS
<1>2. PICK r : r = ReceivedParts(msg) OBVIOUS
<1>3. msg \in SentParts BY DEF PartTaken
<1>4. merger'.parts = CountPart(msg) /\ merger'.buffer = merger.buffer \cup {msg} OBVIOUS
<1>5. /\ r \in Nat \ {0} /\ DOMAIN merger'.parts = DOMAIN merger.parts \cup {k}
      /\ merger'.parts \in [DOMAIN merger'.parts -> Nat \ {0}]
  BY <1>1, <1>2, <1>3, <1>4, MergeCounts
<1>6. merger'.parts[k] = r /\ \A l \in DOMAIN merger.parts : l # k => merger'.parts[l] = merger.parts[l]
  <2>1. merger'.parts[k] = r BY <1>1, <1>2, <1>3, <1>4, MergeCounts
  <2>2. \A l \in DOMAIN merger.parts : l # k => merger'.parts[l] = merger.parts[l]
    <3>1. OthersKept(k) BY <1>1, <1>2, <1>3, <1>4, MergeCounts
    <3> QED BY <3>1 DEF OthersKept
  <2> QED BY <2>1, <2>2
<1>7. Finished' = Finished BY <1>1, <1>2, <1>3, <1>4, MergeCounts
<1>8. /\ SentParts \subseteq SentParts' /\ CompleteEvents \subseteq CompleteEvents'
      /\ WholeEvents \subseteq WholeEvents'
  BY SamplerSame
<1>9. SinkInv' BY <1>7, <1>8, SinkKept
<1>10. PartsOnce' BY <1>4, <1>7, PartsLeft
<1>11. NofParts' = NofParts /\ AsText' = AsText /\ Events' = Events /\ Files' = Files BY SetupKept
<1>12. NofParts \in Nat \ {0} BY SetupOK DEF SamplerInv, NofParts
<1>13. \A b \in merger'.buffer : EvRIPair(b) \in DOMAIN merger'.parts
  BY <1>1, <1>4, <1>5 DEF MergerInv
<1>14. ASSUME NEW l \in DOMAIN merger'.parts, merger'.parts[l] < NofParts
       PROVE merger'.parts[l] = Cardinality(PartsIn(merger'.buffer, l))
  <2>1. CASE l # k
    <3>1. l \in DOMAIN merger.parts /\ merger'.parts[l] = merger.parts[l] BY <1>5, <1>6, <2>1
    <3>2. merger.parts[l] = Cardinality(PartsIn(merger.buffer, l)) BY <1>14, <3>1 DEF MergerInv
    <3>3. PartsIn(merger'.buffer, l) = PartsIn(merger.buffer, l)
      BY <1>1, <1>4, <2>1 DEF PartsIn
    <3> QED BY <3>1, <3>2, <3>3
  <2>2. CASE l = k
    <3>1. PICK P : P = PartsIn(merger.buffer, k) OBVIOUS
    <3>2. IsFiniteSet(P) /\ msg.part \in Files /\ msg.part \notin P
      BY <1>1, <1>3, <3>1, ReceivedIs
    <3>3. r < NofParts BY <1>6, <1>14, <2>2
    <3>4. r <= NofParts BY <1>5, <1>12, <3>3
    <3>5. r = Cardinality(P) + 1 BY <1>1, <1>2, <1>3, <3>1, <3>4, ReceivedIs
    <3>6. Cardinality(P \cup {msg.part}) = Cardinality(P) + 1 BY <3>2, FS_AddElement
    <3>7. PartsIn(merger'.buffer, k) = P \cup {msg.part}
      BY <1>1, <1>4, <3>1, <3>2 DEF PartsIn
    <3> QED BY <1>6, <2>2, <3>5, <3>6, <3>7
  <2> QED BY <2>1, <2>2
<1>15. ASSUME ~AsText
       PROVE /\ \A b \in merger'.buffer : merger'.parts[EvRIPair(b)] < NofParts
             /\ \A l \in DOMAIN merger'.parts : merger'.parts[l] <= NofParts
  <2>1. r < NofParts
    <3>1. k \notin Finished BY <1>1, <1>15 DEF PartTaken
    <3>2. r # NofParts BY <1>2 DEF IsLastPart
    <3>3. CASE k \in DOMAIN merger.parts
      <4>1. r = merger.parts[k] + 1 BY <1>1, <1>2, <3>3 DEF ReceivedParts
      <4>2. merger.parts[k] \in Nat BY <3>3 DEF MergerInv
      <4>3. ~(merger.parts[k] >= NofParts) BY <3>1, <3>3 DEF Finished
      <4> QED BY <1>12, <3>2, <4>1, <4>2, <4>3
    <3>4. CASE k \notin DOMAIN merger.parts
      <4>1. r = 1 BY <1>1, <1>2, <3>4 DEF ReceivedParts
      <4> QED BY <1>12, <3>2, <4>1
    <3> QED BY <3>3, <3>4
  <2>2. ASSUME NEW b \in merger'.buffer PROVE merger'.parts[EvRIPair(b)] < NofParts
    <3>1. CASE EvRIPair(b) = k BY <1>6, <2>1, <3>1
    <3>2. CASE EvRIPair(b) # k
      <4>1. b \in merger.buffer BY <1>1, <1>4, <3>2
      <4>2. EvRIPair(b) \in DOMAIN merger.parts /\ merger.parts[EvRIPair(b)] < NofParts
        BY <1>15, <4>1 DEF MergerInv
      <4> QED BY <1>6, <3>2, <4>2
    <3> QED BY <3>1, <3>2
  <2>3. ASSUME NEW l \in DOMAIN merger'.parts PROVE merger'.parts[l] <= NofParts
    <3>1. CASE l = k BY <1>5, <1>6, <1>12, <2>1, <3>1
    <3>2. CASE l # k
      <4>1. l \in DOMAIN merger.parts BY <1>5, <3>2
      <4>2. merger.parts[l] <= NofParts BY <1>15, <4>1 DEF MergerInv
      <4> QED BY <1>6, <3>2, <4>1, <4>2
    <3> QED BY <3>1, <3>2
  <2> QED BY <2>2, <2>3
<1>16. \A l \in Finished' : \E i \in CompleteEvents' : EvRIPair(Events[i]) = l
  BY <1>7, <1>8 DEF MergerInv
<1>17. merger'.buffer \subseteq SentParts' BY <1>3, <1>4, <1>8 DEF MergerInv
<1>18. merger' \in [parts : {merger'.parts}, buffer : {merger'.buffer}] OBVIOUS
<1>19. \A l : PartsIn(merger'.buffer, l) = PartsIn(merger.buffer, l)' BY <1>11 DEF PartsIn, EvRIPair
<1>20. MergerInv'
  BY <1>5, <1>11, <1>13, <1>14, <1>15, <1>16, <1>17, <1>18, <1>19 DEF MergerInv, EvRIPair
<1> QED BY <1>9, <1>10, <1>20

LEMMA MergeLast ==
    ASSUME PipeInv, NEW q \in Processors, NEW msg, PartTaken(q, msg), Merging, ~SkipsPart(msg),
           IsLastPart(msg), UNCHANGED <<setup, sampler, toProc, tree>>,
           merger' = [parts |-> CountPart(msg), buffer |-> EraseMerged(msg)],
           toSink' = Append(toSink, Absorbed(msg))
    PROVE MergerInv' /\ PartsOnce' /\ SinkInv'
<1> USE DEF PipeInv
<1>1. PICK k : k = EvRIPair(msg) OBVIOUS
<1>2. PICK r : r = ReceivedParts(msg) OBVIOUS
<1>3. msg \in SentParts BY DEF PartTaken
<1>4. merger'.parts = CountPart(msg) /\ merger'.buffer = merger.buffer \ OtherParts(msg)
  BY DEF EraseMerged
<1>5. /\ r \in Nat \ {0} /\ DOMAIN merger'.parts = DOMAIN merger.parts \cup {k}
      /\ merger'.parts \in [DOMAIN merger'.parts -> Nat \ {0}]
  BY <1>1, <1>2, <1>3, <1>4, MergeCounts
<1>6. merger'.parts[k] = NofParts
      /\ \A l \in DOMAIN merger.parts : l # k => merger'.parts[l] = merger.parts[l]
  <2>1. merger'.parts[k] = r BY <1>1, <1>2, <1>3, <1>4, MergeCounts
  <2>2. \A l \in DOMAIN merger.parts : l # k => merger'.parts[l] = merger.parts[l]
    <3>1. OthersKept(k) BY <1>1, <1>2, <1>3, <1>4, MergeCounts
    <3> QED BY <3>1 DEF OthersKept
  <2> QED BY <1>2, <2>1, <2>2 DEF IsLastPart
<1>7. Finished' = Finished \cup {k} /\ k \notin Finished BY <1>1, <1>3, <1>4, MergeCounts
<1>8. /\ SentParts \subseteq SentParts' /\ CompleteEvents \subseteq CompleteEvents'
      /\ WholeEvents \subseteq WholeEvents'
  BY SamplerSame
<1>9. /\ NofParts' = NofParts /\ AsText' = AsText /\ Events' = Events /\ Files' = Files
      /\ Merging' = Merging
  BY SetupKept
<1>10. NofParts \in Nat \ {0} /\ Files = 0 .. NofParts - 1
  BY SetupOK DEF SamplerInv, NofParts, Files
<1>11. PICK i \in CompleteEvents : IsEvent(msg, i) /\ msg.digis \subseteq Events[i].digis
  BY <1>1, <1>3, LastPart
<1>12. \A p \in Files : p = msg.part \/ \E b \in merger.buffer : b.part = p /\ EvRIPair(b) = k
  BY <1>1, <1>3, LastPart
<1>13. setup \in Setups /\ i \in DOMAIN Events BY DEF SamplerInv, CompleteEvents
<1>14. k = EvRIPair(Events[i]) BY <1>1, <1>11, <1>13, EventsOK
\* The parts that are left are of other events.
<1>15. \A b \in OtherParts(msg) : b \in merger.buffer /\ EvRIPair(b) = k
  BY <1>1 DEF OtherParts
<1>16. \A b \in merger'.buffer : b \in merger.buffer /\ EvRIPair(b) # k
  <2> SUFFICES ASSUME NEW b \in merger'.buffer, EvRIPair(b) = k PROVE FALSE BY <1>4
  <2>1. b \in merger.buffer /\ b \notin OtherParts(msg) BY <1>4
  <2>2. b.part # msg.part BY <1>1, <2>1 DEF SkipsPart, Buffered
  <2>3. b.part \in 0 .. NofParts - 1 BY <1>10, <2>1 DEF MergerInv, SentParts, Messages
  <2> QED BY <1>1, <2>1, <2>2, <2>3 DEF OtherParts
<1>17. PartsOnce'
  <2>1. \A m \in SentParts : ~AsText /\ EvRIPair(m) \in Finished' \ Finished =>
           PartId(m) = PartId(msg) \/ \E b \in merger.buffer : PartId(m) = PartId(b)
    <3> SUFFICES ASSUME NEW m \in SentParts, EvRIPair(m) \in Finished' \ Finished
                 PROVE PartId(m) = PartId(msg) \/ \E b \in merger.buffer : PartId(m) = PartId(b)
      OBVIOUS
    <3>1. EvRIPair(m) = k BY <1>7
    <3>2. m.part \in Files BY DEF SentParts, Messages
    <3> QED BY <1>1, <1>12, <3>1, <3>2 DEF PartId
  <2>2. merger'.buffer \subseteq merger.buffer \cup {msg} BY <1>4
  <2> QED BY <2>1, <2>2, PartsLeft
<1>18. MergerInv'
  <2>1. \A b \in merger'.buffer : EvRIPair(b) \in DOMAIN merger'.parts
    BY <1>5, <1>16 DEF MergerInv
  <2>2. ASSUME NEW l \in DOMAIN merger'.parts, merger'.parts[l] < NofParts
        PROVE merger'.parts[l] = Cardinality(PartsIn(merger'.buffer, l))
    <3>1. l # k BY <1>6, <1>10, <2>2
    <3>2. l \in DOMAIN merger.parts /\ merger'.parts[l] = merger.parts[l] BY <1>5, <1>6, <3>1
    <3>3. merger.parts[l] = Cardinality(PartsIn(merger.buffer, l)) BY <2>2, <3>2 DEF MergerInv
    <3>4. PartsIn(merger'.buffer, l) = PartsIn(merger.buffer, l)
      BY <1>4, <1>15, <3>1 DEF PartsIn
    <3> QED BY <3>2, <3>3, <3>4
  <2>3. ASSUME ~AsText, NEW b \in merger'.buffer PROVE merger'.parts[EvRIPair(b)] < NofParts
    <3>1. b \in merger.buffer /\ EvRIPair(b) # k BY <1>16, <2>3
    <3>2. EvRIPair(b) \in DOMAIN merger.parts /\ merger.parts[EvRIPair(b)] < NofParts
      BY <2>3, <3>1 DEF MergerInv
    <3> QED BY <1>6, <3>1, <3>2
  <2>4. ASSUME ~AsText, NEW l \in DOMAIN merger'.parts PROVE merger'.parts[l] <= NofParts
    <3>1. CASE l = k BY <1>6, <1>10, <3>1
    <3>2. CASE l # k
      <4>1. l \in DOMAIN merger.parts BY <1>5, <3>2
      <4>2. merger.parts[l] <= NofParts BY <2>4, <4>1 DEF MergerInv
      <4> QED BY <1>6, <3>2, <4>1, <4>2
    <3> QED BY <3>1, <3>2
  <2>5. \A l \in Finished' : \E j \in CompleteEvents' : EvRIPair(Events[j]) = l
    <3> TAKE l \in Finished'
    <3>1. CASE l = k BY <1>8, <1>14, <3>1
    <3>2. CASE l # k
      <4>1. l \in Finished BY <1>7, <3>2
      <4> QED BY <1>8, <4>1 DEF MergerInv
    <3> QED BY <3>1, <3>2
  <2>6. merger'.buffer \subseteq SentParts' BY <1>8, <1>16 DEF MergerInv
  <2>7. merger' \in [parts : {merger'.parts}, buffer : {merger'.buffer}] OBVIOUS
  <2>8. \A l : PartsIn(merger'.buffer, l) = PartsIn(merger.buffer, l)' BY <1>9 DEF PartsIn, EvRIPair
  <2> QED BY <1>5, <1>9, <2>1, <2>2, <2>3, <2>4, <2>5, <2>6, <2>7, <2>8 DEF MergerInv, EvRIPair
\* What is sent on.
<1>19. PICK a : a = Absorbed(msg) OBVIOUS
<1>20. a \in WholeEvents /\ EvRIPair(a) = k
  <2>1. PICK D : D = msg.digis \cup UNION {b.digis : b \in {b \in OtherParts(msg) : SameName(msg, b)}}
    OBVIOUS
  <2>2. msg \in Messages BY <1>3 DEF SentParts
  <2>3. a = [run |-> msg.run, entry |-> msg.entry, part |-> msg.part, digis |-> D]
    BY <1>19, <2>1, <2>2 DEF Absorbed, Messages
  <2>4. ASSUME NEW b \in OtherParts(msg) PROVE b.digis \subseteq Events[i].digis
    <3>1. b \in SentParts /\ EvRIPair(b) = k BY <1>15 DEF MergerInv
    <3>2. PICK j \in DOMAIN Events : IsEvent(b, j) /\ b.digis \subseteq Events[j].digis
      BY <3>1 DEF SentParts
    <3>3. EvRIPair(b) = EvRIPair(Events[j]) BY <1>13, <3>2, EventsOK
    <3>4. j = i BY <1>13, <1>14, <3>1, <3>3, EventsOK
    <3> QED BY <3>2, <3>4
  <2>5. D \subseteq Events[i].digis BY <1>11, <2>1, <2>4
  <2>6. D \in SUBSET UNION {Events[j].digis : j \in DOMAIN Events} BY <1>13, <2>5
  <2>7. a \in Messages /\ a.run = msg.run /\ a.entry = msg.entry /\ a.digis = D
    BY <2>2, <2>3, <2>6 DEF Messages
  <2>8. IsEvent(a, i) BY <1>11, <2>7 DEF IsEvent
  <2>9. EvRIPair(a) = k BY <1>1, <2>7 DEF EvRIPair
  <2> QED BY <2>5, <2>7, <2>8, <2>9 DEF WholeEvents
<1>21. SinkInv'
  <2>1. IsSeq(toSink) BY DEF SinkInv
  <2>2. toSink' = Append(toSink, a) BY <1>19
  <2>3. IsSeq(toSink') BY <2>1, <2>2, AppendIs
  <2>4. /\ DOMAIN toSink' = 1 .. Len(toSink) + 1
        /\ \A j \in DOMAIN toSink : toSink'[j] = toSink[j]
        /\ toSink'[Len(toSink) + 1] = a
    BY <2>1, <2>2, AppendIs
  <2>5. Len(toSink) \in Nat /\ DOMAIN toSink = 1 .. Len(toSink) BY <2>1, IsSeqIs
  <2>6. PICK l : l = Len(toSink) + 1 OBVIOUS
  <2>7. \A j \in DOMAIN toSink' :
           (j \in DOMAIN toSink /\ toSink'[j] = toSink[j]) \/ (j = l /\ toSink'[j] = a)
    BY <2>4, <2>5, <2>6
  <2>8. \A j \in DOMAIN toSink' : toSink'[j] \in WholeEvents' /\ EvRIPair(toSink'[j]) \in Finished'
    BY <1>7, <1>8, <1>20, <2>7 DEF SinkInv
  <2>9. \A j \in DOMAIN tree' : tree'[j] \in WholeEvents' /\ EvRIPair(tree'[j]) \in Finished'
    BY <1>7, <1>8 DEF SinkInv
  <2>10. \A j \in DOMAIN toSink : EvRIPair(toSink[j]) # k BY <1>7 DEF SinkInv
  <2>11. \A j \in DOMAIN tree : EvRIPair(tree[j]) # k BY <1>7 DEF SinkInv
  <2>12. \A j, m \in DOMAIN toSink' : EvRIPair(toSink'[j]) = EvRIPair(toSink'[m]) => j = m
    BY <1>20, <2>7, <2>10 DEF SinkInv
  <2>13. \A j \in DOMAIN tree', m \in DOMAIN toSink' : EvRIPair(tree'[j]) # EvRIPair(toSink'[m])
    BY <1>20, <2>7, <2>11 DEF SinkInv
  <2>14. \A j, m \in DOMAIN tree' : EvRIPair(tree'[j]) = EvRIPair(tree'[m]) => j = m
    BY DEF SinkInv
  <2>15. IsSeq(tree') BY DEF SinkInv
  <2> QED BY <1>9, <2>3, <2>8, <2>9, <2>12, <2>13, <2>14, <2>15 DEF SinkInv
<1> QED BY <1>17, <1>18, <1>21

LEMMA MergeDataIs == ASSUME PipeInv, NEW q \in Processors, MergeData(q) PROVE PipeInv'
<1>1. PICK msg : msg = Head(toMerger[q]) OBVIOUS
<1>2. /\ Merging /\ toMerger[q] # << >>
      /\ toMerger' = [toMerger EXCEPT ![q] = Tail(@)]
      /\ UNCHANGED <<setup, sampler, toProc, tree>>
  BY DEF MergeData
<1>3. \/ SkipsPart(msg) /\ UNCHANGED <<merger, toSink>>
      \/ /\ ~SkipsPart(msg) /\ ~IsLastPart(msg)
         /\ merger' = [parts |-> CountPart(msg), buffer |-> merger.buffer \cup {msg}]
         /\ UNCHANGED toSink
      \/ /\ ~SkipsPart(msg) /\ IsLastPart(msg)
         /\ merger' = [parts |-> CountPart(msg), buffer |-> EraseMerged(msg)]
         /\ toSink' = Append(toSink, Absorbed(msg))
  BY <1>1 DEF MergeData
<1>4. /\ SamplerInv' /\ SentParts \subseteq SentParts'
      /\ CompleteEvents \subseteq CompleteEvents' /\ WholeEvents \subseteq WholeEvents'
  BY <1>2, SamplerSame DEF PipeInv
<1>5. /\ ChannelInv' /\ WithoutFirst(Processors, toMerger', toMerger, q)
      /\ 1 \in DOMAIN toMerger[q] /\ msg = toMerger[q][1]
  BY <1>1, <1>2, <1>4, TakenFromMerger
<1>6. PartTaken(q, msg) BY <1>5, PartTakenIs
<1>7. MergerInv' /\ PartsOnce' /\ SinkInv'
  <2>1. CASE SkipsPart(msg) /\ UNCHANGED <<merger, toSink>>
    <3>1. Finished' = Finished BY <1>2, <2>1, FinishedKept
    <3>2. MergerInv' BY <1>2, <1>4, <2>1, <3>1, MergerKept DEF PipeInv
    <3>3. SinkInv' BY <1>2, <1>4, <2>1, <3>1, SinkKept DEF PipeInv
    <3>4. PartsOnce' BY <1>2, <1>6, <2>1, <3>1, PartsLeft
    <3> QED BY <3>2, <3>3, <3>4
  <2>2. CASE /\ ~SkipsPart(msg) /\ ~IsLastPart(msg)
             /\ merger' = [parts |-> CountPart(msg), buffer |-> merger.buffer \cup {msg}]
             /\ UNCHANGED toSink
    BY <1>2, <1>6, <2>2, MergeNotLast
  <2>3. CASE /\ ~SkipsPart(msg) /\ IsLastPart(msg)
             /\ merger' = [parts |-> CountPart(msg), buffer |-> EraseMerged(msg)]
             /\ toSink' = Append(toSink, Absorbed(msg))
    BY <1>2, <1>6, <2>3, MergeLast
  <2> QED BY <1>3, <2>1, <2>2, <2>3
<1> QED BY <1>4, <1>5, <1>7 DEF PipeInv

-----------------------------------------------------------------------------
(* The steps of the sink. *)

LEMMA AcksOnly ==
    ASSUME SamplerInv, setup' = setup,
           sampler' = IF Acks THEN [sampler EXCEPT ![0].acks = @ + 1] ELSE sampler
    PROVE /\ SamplerInv' /\ SentParts \subseteq SentParts' /\ CompleteEvents \subseteq CompleteEvents'
          /\ WholeEvents \subseteq WholeEvents'
<1>1. sampler \in [Files -> Samplers] /\ 0 \in Files BY SetupOK DEF SamplerInv
<1>2. PICK s : s = [sampler[0] EXCEPT !.acks = @ + 1] OBVIOUS
<1>3. s \in Samplers /\ s.source = sampler[0].source /\ s.fEventCounter = sampler[0].fEventCounter
  <2>1. PICK r : r = sampler[0] OBVIOUS
  <2>2. r \in Samplers BY <1>1, <2>1
  <2>3. s = [source |-> r.source, fEventCounter |-> r.fEventCounter, fMaxIndex |-> r.fMaxIndex,
             running |-> r.running, done |-> r.done, listening |-> r.listening,
             numAcks |-> r.numAcks, acks |-> r.acks + 1]
    BY <1>2, <2>1, <2>2 DEF Samplers
  <2>4. r.acks + 1 \in Int BY <2>2 DEF Samplers
  <2> QED BY <2>1, <2>2, <2>3, <2>4 DEF Samplers
<1>4. sampler' = [sampler EXCEPT ![0] = s] \/ sampler' = sampler BY <1>1, <1>2
<1>5. /\ sampler' \in [Files -> Samplers]
      /\ \A q \in Files : /\ sampler'[q].source = sampler[q].source
                          /\ sampler'[q].fEventCounter = sampler[q].fEventCounter
  BY <1>1, <1>3, <1>4
<1>6. SamplerInv' BY <1>5, SamplerKept
<1>7. \A q \in Files : sampler'[q].fEventCounter >= sampler[q].fEventCounter BY <1>5, SamplerKept
<1> QED BY <1>6, <1>7, SentGrow

LEMMA StoreMergedIs == ASSUME PipeInv, StoreMerged PROVE PipeInv'
<1> USE DEF PipeInv
<1>1. PICK a : a = Head(toSink) OBVIOUS
<1>2. /\ toSink # << >> /\ tree' = Append(tree, a) /\ toSink' = Tail(toSink)
      /\ sampler' = IF Acks THEN [sampler EXCEPT ![0].acks = @ + 1] ELSE sampler
      /\ UNCHANGED <<setup, toProc, toMerger, merger>>
  BY <1>1 DEF StoreMerged, Fill
<1>3. Merging BY <1>2 DEF SinkInv
<1>4. /\ SamplerInv' /\ SentParts \subseteq SentParts'
      /\ CompleteEvents \subseteq CompleteEvents' /\ WholeEvents \subseteq WholeEvents'
  BY <1>2, AcksOnly
<1>5. Finished' = Finished BY <1>2, <1>3, SetupKept DEF Finished
<1>6. ChannelInv' /\ MergerInv' /\ PartsOnce'
  BY <1>2, <1>4, <1>5, ChannelKept, MergerKept, PartsOnceKept
<1>7. IsSeq(toSink) /\ IsSeq(tree) BY DEF SinkInv
<1>8. /\ a = toSink[1] /\ 1 \in DOMAIN toSink /\ IsSeq(toSink')
      /\ \A j \in DOMAIN toSink' : j + 1 \in DOMAIN toSink /\ j + 1 # 1 /\ toSink'[j] = toSink[j + 1]
  BY <1>1, <1>2, <1>7, TailIs
<1>9. DOMAIN toSink' \subseteq Int BY <1>8, IsSeqIs
<1>10. PICK l : l = Len(tree) + 1 OBVIOUS
<1>11. IsSeq(tree') /\ \A j \in DOMAIN tree' :
          (j \in DOMAIN tree /\ tree'[j] = tree[j]) \/ (j = l /\ tree'[j] = a)
  <2>1. IsSeq(tree') BY <1>2, <1>7, AppendIs
  <2>2. /\ DOMAIN tree' = 1 .. Len(tree) + 1
        /\ \A j \in DOMAIN tree : tree'[j] = tree[j]
        /\ tree'[Len(tree) + 1] = a
    BY <1>2, <1>7, AppendIs
  <2>3. Len(tree) \in Nat /\ DOMAIN tree = 1 .. Len(tree) BY <1>7, IsSeqIs
  <2> QED BY <1>10, <2>1, <2>2, <2>3
<1>12. a \in WholeEvents /\ EvRIPair(a) \in Finished
       /\ \A j \in DOMAIN tree : EvRIPair(tree[j]) # EvRIPair(a)
  BY <1>8 DEF SinkInv
<1>13. SinkInv'
  <2>1. Merging' BY <1>2, <1>3, SetupKept
  <2>2. \A j \in DOMAIN tree' : tree'[j] \in WholeEvents' /\ EvRIPair(tree'[j]) \in Finished'
    BY <1>4, <1>5, <1>11, <1>12 DEF SinkInv
  <2>3. \A j \in DOMAIN toSink' : toSink'[j] \in WholeEvents' /\ EvRIPair(toSink'[j]) \in Finished'
    BY <1>4, <1>5, <1>8 DEF SinkInv
  <2>4. \A i, j \in DOMAIN tree' : EvRIPair(tree'[i]) = EvRIPair(tree'[j]) => i = j
    BY <1>11, <1>12 DEF SinkInv
  <2>5. \A i, j \in DOMAIN toSink' : EvRIPair(toSink'[i]) = EvRIPair(toSink'[j]) => i = j
    <3> SUFFICES ASSUME NEW i \in DOMAIN toSink', NEW j \in DOMAIN toSink',
                        EvRIPair(toSink'[i]) = EvRIPair(toSink'[j])
                 PROVE i = j
      OBVIOUS
    <3>1. i + 1 = j + 1 BY <1>8 DEF SinkInv
    <3> QED BY <1>9, <3>1
  <2>6. \A i \in DOMAIN tree', j \in DOMAIN toSink' : EvRIPair(tree'[i]) # EvRIPair(toSink'[j])
    <3> SUFFICES ASSUME NEW i \in DOMAIN tree', NEW j \in DOMAIN toSink'
                 PROVE EvRIPair(tree'[i]) # EvRIPair(toSink'[j])
      OBVIOUS
    <3>1. j + 1 \in DOMAIN toSink /\ j + 1 # 1 /\ toSink'[j] = toSink[j + 1] BY <1>8
    <3>2. EvRIPair(a) # EvRIPair(toSink[j + 1]) BY <1>8, <3>1 DEF SinkInv
    <3> QED BY <1>11, <3>1, <3>2 DEF SinkInv
  <2> QED BY <1>8, <1>11, <2>1, <2>2, <2>3, <2>4, <2>5, <2>6 DEF SinkInv
<1> QED BY <1>4, <1>6, <1>13

LEMMA StoreProcessedIs == ASSUME PipeInv, NEW q \in Processors, StoreProcessed(q) PROVE PipeInv'
<1> USE DEF PipeInv
<1>1. PICK msg : msg = Head(toMerger[q]) OBVIOUS
<1>2. /\ ~Merging /\ toMerger[q] # << >> /\ tree' = Append(tree, msg)
      /\ toMerger' = [toMerger EXCEPT ![q] = Tail(@)]
      /\ sampler' = IF Acks THEN [sampler EXCEPT ![0].acks = @ + 1] ELSE sampler
      /\ UNCHANGED <<setup, toProc, merger, toSink>>
  BY <1>1 DEF StoreProcessed, Fill
<1>3. NofFiles = 1 /\ ~AsText /\ setup \in Setups BY <1>2 DEF SamplerInv
<1>4. Files = {0} BY <1>3 DEF Files
<1>5. /\ SamplerInv' /\ SentParts \subseteq SentParts'
      /\ CompleteEvents \subseteq CompleteEvents' /\ WholeEvents \subseteq WholeEvents'
  BY <1>2, AcksOnly
<1>6. /\ ChannelInv' /\ WithoutFirst(Processors, toMerger', toMerger, q)
      /\ 1 \in DOMAIN toMerger[q] /\ msg = toMerger[q][1]
  BY <1>1, <1>2, <1>5, TakenFromMerger
<1>7. PartTaken(q, msg) BY <1>6, PartTakenIs
<1>8. msg \in SentParts /\ EvRIPair(msg) \notin Finished BY <1>3, <1>7 DEF PartTaken
<1>9. PICK i \in DOMAIN Events :
         IsEvent(msg, i) /\ i <= Counter[msg.part] /\ msg.digis = DigisIn(i, msg.part)
  BY <1>3, <1>8 DEF SentParts
<1>10. msg \in Messages /\ msg.part = 0 BY <1>4, <1>8 DEF SentParts, Messages
<1>11. msg.digis = Events[i].digis BY <1>3, <1>9, <1>10 DEF DigisIn, FileToSave
<1>12. i \in CompleteEvents BY <1>4, <1>9, <1>10 DEF CompleteEvents
<1>13. msg \in WholeEvents BY <1>9, <1>10, <1>11, <1>12 DEF WholeEvents
<1>14. IsSeq(tree) BY DEF SinkInv
<1>15. PICK l : l = Len(tree) + 1 OBVIOUS
<1>16. /\ IsSeq(tree') /\ l \in DOMAIN tree' /\ tree'[l] = msg
       /\ \A j \in DOMAIN tree : j \in DOMAIN tree' /\ tree'[j] = tree[j]
       /\ \A j \in DOMAIN tree' :
             (j \in DOMAIN tree /\ tree'[j] = tree[j]) \/ (j = l /\ tree'[j] = msg)
  <2>1. IsSeq(tree') BY <1>2, <1>14, AppendIs
  <2>2. /\ DOMAIN tree' = 1 .. Len(tree) + 1
        /\ \A j \in DOMAIN tree : tree'[j] = tree[j]
        /\ tree'[Len(tree) + 1] = msg
    BY <1>2, <1>14, AppendIs
  <2>3. Len(tree) \in Nat /\ DOMAIN tree = 1 .. Len(tree) BY <1>14, IsSeqIs
  <2> QED BY <1>15, <2>1, <2>2, <2>3
<1>17. Finished' = Finished \cup {EvRIPair(msg)}
  <2>1. Finished = {EvRIPair(tree[j]) : j \in DOMAIN tree} BY <1>2 DEF Finished
  <2>2. Finished' = {EvRIPair(tree'[j]) : j \in DOMAIN tree'}
    BY <1>2, SetupKept DEF Finished, EvRIPair
  <2> QED BY <1>16, <2>1, <2>2
<1>18. PartsOnce'
  <2>1. \A m \in SentParts : ~AsText /\ EvRIPair(m) \in Finished' \ Finished =>
           PartId(m) = PartId(msg) \/ \E b \in merger.buffer : PartId(m) = PartId(b)
    <3> SUFFICES ASSUME NEW m \in SentParts, EvRIPair(m) \in Finished' \ Finished
                 PROVE PartId(m) = PartId(msg)
      OBVIOUS
    <3>1. EvRIPair(m) = EvRIPair(msg) BY <1>17
    <3>2. m.part = 0 BY <1>4 DEF SentParts, Messages
    <3> QED BY <1>10, <3>1, <3>2 DEF PartId
  <2>2. merger'.buffer \subseteq merger.buffer \cup {msg} BY <1>2
  <2> QED BY <1>2, <1>7, <2>1, <2>2, PartsLeft
<1>19. MergerInv'
  <2>1. \A k \in Finished' : \E j \in CompleteEvents' : EvRIPair(Events[j]) = k
    <3> TAKE k \in Finished'
    <3>1. CASE k \in Finished BY <1>5, <3>1 DEF MergerInv
    <3>2. CASE k = EvRIPair(msg) BY <1>3, <1>5, <1>9, <1>12, <3>2, EventsOK
    <3> QED BY <1>17, <3>1, <3>2
  <2>2. Events' = Events /\ NofParts' = NofParts /\ AsText' = AsText /\ Files' = Files
    BY <1>2, SetupKept
  <2>3. merger' = merger BY <1>2
  <2>4. merger'.buffer \subseteq SentParts' BY <1>5, <2>3 DEF MergerInv
  <2>5. \A k : PartsIn(merger'.buffer, k) = PartsIn(merger.buffer, k)' BY <2>2 DEF PartsIn, EvRIPair
  <2> QED BY <2>1, <2>2, <2>3, <2>4, <2>5 DEF MergerInv, EvRIPair
<1>20. SinkInv'
  <2>1. Merging' = Merging BY <1>2, SetupKept
  <2>2. toSink = << >> /\ merger.buffer = {} BY <1>2 DEF SinkInv
  <2>3. toSink' = << >> /\ merger'.buffer = {} /\ IsSeq(toSink') BY <1>2, <2>2, EmptyIsSeq
  <2>4. DOMAIN toSink' = {} BY <2>3
  <2>5. \A j \in DOMAIN tree' : tree'[j] \in WholeEvents' /\ EvRIPair(tree'[j]) \in Finished'
    BY <1>5, <1>13, <1>16, <1>17 DEF SinkInv
  <2>6. \A j \in DOMAIN tree : EvRIPair(tree[j]) # EvRIPair(msg) BY <1>8 DEF SinkInv
  <2>7. \A j, k \in DOMAIN tree' : EvRIPair(tree'[j]) = EvRIPair(tree'[k]) => j = k
    BY <1>16, <2>6 DEF SinkInv
  <2> QED BY <1>16, <2>1, <2>3, <2>4, <2>5, <2>7 DEF SinkInv
<1> QED BY <1>5, <1>6, <1>18, <1>19, <1>20

-----------------------------------------------------------------------------
(* The theorems. *)

LEMMA PipeStep == ASSUME PipeInv, [Next]_vars PROVE PipeInv'
<1>1. CASE \E p \in Files : ConditionalRun(p) \/ StopRunning(p) \/ ListenForAcks(p) \/ PostRun(p)
  BY <1>1, ConditionalRunIs, StopRunningIs, ListenForAcksIs, PostRunIs
<1>2. CASE \E q \in Processors : ProcessData(q) \/ MergeData(q) \/ StoreProcessed(q)
  BY <1>2, ProcessDataIs, MergeDataIs, StoreProcessedIs
<1>3. CASE StoreMerged BY <1>3, StoreMergedIs
<1>4. CASE UNCHANGED vars
  <2>1. UNCHANGED <<setup, sampler, toProc, toMerger, merger, toSink, tree>> BY <1>4 DEF vars
  <2>2. SamplerInv' BY <2>1, SamplerSame DEF PipeInv
  <2>3. \A p \in Files : sampler'[p].fEventCounter >= sampler[p].fEventCounter
    BY <2>1, SamplerKept DEF PipeInv, SamplerInv
  <2> QED BY <2>1, <2>2, <2>3, OnlySampler
<1> QED BY <1>1, <1>2, <1>3, <1>4 DEF Next

\* The samplers, the queues, the merger and the sink always fit together: what a
\* sampler sends is a part of an event it has come to, each part is in one place, and
\* an event goes on to the sink once, when all its parts were sent.
THEOREM PipeInvariant == ASSUME UnmergedIsWhole PROVE Spec => []PipeInv
<1>1. Init => PipeInv BY PipeInit
<1>2. PipeInv /\ [Next]_vars => PipeInv' BY PipeStep
<1> QED BY <1>1, <1>2, PTL DEF Spec

LEMMA SequenceIn ==
    ASSUME NEW s, IsSeq(s), NEW M, \A i \in DOMAIN s : s[i] \in M
    PROVE s \in Seq(M)
<1>1. PICK T : T = {s[i] : i \in DOMAIN s} OBVIOUS
<1>2. s \in Seq(T) BY <1>1, IsSeqOf
<1>3. T \subseteq M BY <1>1
<1> QED BY <1>2, <1>3

\* The sink stores each event once, with digis of its own only, and not before every
\* sampler has sent its part of it; where nothing is merged, with all its digis.  The
\* merger holds back parts of events that are not complete, and no others.
THEOREM StoredAlwaysRight == ASSUME UnmergedIsWhole PROVE Spec => []StoredRight
<1>1. PipeInv => StoredRight
  <2> SUFFICES ASSUME PipeInv PROVE StoredRight OBVIOUS
  <2> USE DEF PipeInv
  <2>1. setup \in Setups /\ DOMAIN Events \subseteq Int
    <3>1. setup \in Setups BY DEF SamplerInv
    <3> QED BY <3>1, EventsOK
  <2>2. SentParts \subseteq Messages /\ WholeEvents \subseteq Messages BY DEF SentParts, WholeEvents
  <2>3. TypeOK
    <3>1. ASSUME NEW q \in Processors PROVE toProc[q] \in Seq(Messages) /\ toMerger[q] \in Seq(Messages)
      <4>1. IsSeq(toProc[q]) /\ IsSeq(toMerger[q]) BY DEF ChannelInv, AreChannels
      <4>2. \A j \in DOMAIN toProc[q] : toProc[q][j] \in Messages BY <2>2 DEF ChannelInv
      <4>3. \A j \in DOMAIN toMerger[q] : toMerger[q][j] \in Messages BY <2>2 DEF ChannelInv
      <4> QED BY <4>1, <4>2, <4>3, SequenceIn
    <3>2. merger.buffer \subseteq Messages BY <2>2 DEF MergerInv
    <3>3. ASSUME NEW k \in DOMAIN merger.parts
          PROVE merger.parts[k] \in IF SourceType = "PixelDigiSource" THEN Nat ELSE 1 .. NofParts
      <4>1. merger.parts[k] \in Nat \ {0} /\ (AsText \/ merger.parts[k] <= NofParts)
        BY DEF MergerInv
      <4>2. NofParts \in Nat BY <2>1, SetupOK DEF NofParts
      <4> QED BY <4>1, <4>2 DEF AsText
    <3>4. tree \in Seq(Messages)
      <4>1. IsSeq(tree) /\ \A j \in DOMAIN tree : tree[j] \in Messages BY <2>2 DEF SinkInv
      <4> QED BY <4>1, SequenceIn
    <3> QED BY <3>1, <3>2, <3>3, <3>4 DEF TypeOK
  <2>4. StoredOnce BY DEF StoredOnce, SinkInv, EvRIPair
  <2>5. ASSUME NEW k \in DOMAIN tree
        PROVE \E i \in DOMAIN Events :
                 /\ IsEvent(tree[k], i) /\ tree[k].digis \subseteq Events[i].digis
                 /\ ~Merging => tree[k].digis = Events[i].digis
                 /\ \A p \in Files : sampler[p].fEventCounter >= i
    <3>1. tree[k] \in WholeEvents BY DEF SinkInv
    <3>2. PICK i \in CompleteEvents :
             /\ IsEvent(tree[k], i) /\ tree[k].digis \subseteq Events[i].digis
             /\ ~Merging => tree[k].digis = Events[i].digis
      BY <3>1 DEF WholeEvents
    <3>3. i \in DOMAIN Events /\ \A p \in Files : i <= Counter[p] BY DEF CompleteEvents
    <3>4. \A p \in Files : sampler[p].fEventCounter >= i
      <4> TAKE p \in Files
      <4>1. sampler[p] \in Samplers BY DEF SamplerInv
      <4>2. sampler[p].fEventCounter \in Int /\ i \in Int BY <2>1, <3>3, <4>1 DEF Samplers
      <4>3. i <= sampler[p].fEventCounter BY <3>3 DEF Counter
      <4> QED BY <4>2, <4>3
    <3> QED BY <3>2, <3>3, <3>4
  <2>6. StoredWhenComplete BY <2>5 DEF StoredWhenComplete
  <2>7. StoredWholeUnmerged BY <2>5 DEF StoredWholeUnmerged, StoredWhole
  <2>8. BufferOnlyOpenEvents BY DEF BufferOnlyOpenEvents, MergerInv, AsText
  <2> QED BY <2>3, <2>4, <2>6, <2>7, <2>8 DEF StoredRight
<1>2. UnmergedIsWhole OBVIOUS
<1> QED BY <1>1, <1>2, PipeInvariant, PTL

-----------------------------------------------------------------------------
(***************************************************************************)
(* The parameter server and its clients.  The server's data base and its   *)
(* files are typed, and each method of FairRuntimeDb is described by what  *)
(* it makes of a world.                                                    *)
(***************************************************************************)

FileNames == RootFiles \cup AsciiFiles \cup {NoFile}
Ins == [1 .. 2 -> Int]
Containers == [value : Values \cup {NoValue}, in : Ins, static : BOOLEAN, changed : BOOLEAN]
Versions == [in : Ins, root : Nat]

Dbs == [list : SUBSET Names, cont : [Names -> Containers], runs : Seq(RunIds),
        vers : [RunIds -> [Names -> Versions]], current : RunIds \cup {NoRun},
        input : [1 .. 2 -> FileNames], output : RootFiles \cup {NoFile}, open : SUBSET FileNames,
        versionsChanged : BOOLEAN]

ParFiles == [RootFiles -> [cycles : [Names -> Seq(Values \cup {NoValue})],
                           run : [RunIds -> [Names -> Nat]]]]

Worlds == [db : Dbs, file : ParFiles]

LEMMA UnreadType == Unread \in Ins /\ \A k \in 1 .. 2 : Unread[k] = -1
<1>1. 1 .. 2 = {1, 2} OBVIOUS
<1>2. Unread \in [{1, 2} -> Int]  BY DEF Unread
<1> QED BY <1>1, <1>2 DEF Ins, Unread

LEMMA NewContainerType == NewContainer \in Containers BY UnreadType DEF NewContainer, Containers

LEMMA NewDbType == NewDb \in Dbs
<1>1. [n \in Names |-> NewContainer] \in [Names -> Containers] BY NewContainerType
<1>2. NewVersion \in Versions BY UnreadType DEF NewVersion, Versions
<1>3. [r \in RunIds |-> [n \in Names |-> NewVersion]] \in [RunIds -> [Names -> Versions]] BY <1>2
<1>4. <<NoFile, NoFile>> \in [1 .. 2 -> FileNames]
  <2>1. 1 .. 2 = {1, 2} OBVIOUS
  <2>2. <<NoFile, NoFile>> \in [{1, 2} -> FileNames] BY DEF FileNames
  <2> QED BY <2>1, <2>2
<1>5. << >> \in Seq(RunIds) OBVIOUS
<1> QED BY <1>1, <1>3, <1>4, <1>5 DEF NewDb, Dbs

\* The fields of a data base that a method changes.
LEMMA AddContainerIs ==
    ASSUME NEW d \in Dbs, NEW n \in Names, NEW c \in Containers
    PROVE /\ AddContainer(d, n, c) \in Dbs
          /\ AddContainer(d, n, c) = [d EXCEPT !.list = d.list \cup {n},
                !.cont = [d.cont EXCEPT ![n] = IF n \in d.list THEN d.cont[n] ELSE c]]
<1>1. PICK x : x = [d.cont EXCEPT ![n] = IF n \in d.list THEN d.cont[n] ELSE c] OBVIOUS
<1>2. d.cont \in [Names -> Containers] /\ d.list \in SUBSET Names BY DEF Dbs
<1>3. x \in [Names -> Containers] BY <1>1, <1>2
<1>4. CASE n \in d.list
  <2>1. x = d.cont BY <1>1, <1>2, <1>4
  <2>2. AddContainer(d, n, c) = d BY <1>4 DEF AddContainer
  <2>3. [d EXCEPT !.list = d.list \cup {n}, !.cont = x] = d BY <1>2, <1>4, <2>1 DEF Dbs
  <2> QED BY <1>1, <2>2, <2>3
<1>5. CASE n \notin d.list
  <2>1. AddContainer(d, n, c) = [d EXCEPT !.list = d.list \cup {n}, !.cont = x]
    BY <1>1, <1>5 DEF AddContainer
  <2>2. d.list \cup {n} \in SUBSET Names BY <1>2
  <2> QED BY <1>1, <1>3, <2>1, <2>2 DEF Dbs
<1> QED BY <1>4, <1>5

LEMMA AddRunIs ==
    ASSUME NEW d \in Dbs, NEW r \in RunIds
    PROVE /\ [AddRun(d, r) EXCEPT !.current = r] \in Dbs
          /\ \E s \in Seq(RunIds) :
                /\ [AddRun(d, r) EXCEPT !.current = r] = [d EXCEPT !.runs = s, !.current = r]
                /\ \E i \in DOMAIN s : s[i] = r
<1>1. CASE HasRun(d, r)
  <2>1. AddRun(d, r) = d BY <1>1 DEF AddRun
  <2>2. PICK s : s = d.runs OBVIOUS
  <2>3. s \in Seq(RunIds) BY <2>2 DEF Dbs
  <2>4. [d EXCEPT !.current = r] = [d EXCEPT !.runs = s, !.current = r] BY <2>2 DEF Dbs
  <2>5. \E i \in DOMAIN s : s[i] = r BY <1>1, <2>2 DEF HasRun
  <2>6. [d EXCEPT !.current = r] \in Dbs BY DEF Dbs
  <2> QED BY <2>1, <2>3, <2>4, <2>5, <2>6
<1>2. CASE ~HasRun(d, r)
  <2>1. PICK s : s = Append(d.runs, r) OBVIOUS
  <2>2. d.runs \in Seq(RunIds) BY DEF Dbs
  <2>3. s \in Seq(RunIds) BY <2>1, <2>2
  <2>4. \E i \in DOMAIN s : s[i] = r
    <3>1. IsSeq(d.runs) BY <2>2 DEF IsSeq
    <3>2. s[Len(d.runs) + 1] = r /\ Len(d.runs) + 1 \in DOMAIN s BY <2>1, <2>2
    <3> QED BY <3>2
  <2>5. AddRun(d, r) = [d EXCEPT !.runs = s, !.current = r] BY <1>2, <2>1 DEF AddRun
  <2>6. [[d EXCEPT !.runs = s, !.current = r] EXCEPT !.current = r] = [d EXCEPT !.runs = s, !.current = r]
    BY DEF Dbs
  <2>7. [d EXCEPT !.runs = s, !.current = r] \in Dbs BY <2>3 DEF Dbs
  <2> QED BY <2>3, <2>4, <2>5, <2>6, <2>7
<1> QED BY <1>1, <1>2

-----------------------------------------------------------------------------
(* Writing. *)

ZeroRoots(d) == \A r \in RunIds, n \in Names : d.vers[r][n].root = 0

LEMMA FindOutputVersionIs ==
    ASSUME NEW d \in Dbs, NEW n \in Names
    PROVE /\ FindOutputVersion(d, n) \in Nat
          /\ ZeroRoots(d) /\ d.input[1] # d.output => FindOutputVersion(d, n) = 0
<1> DEFINE Same(r) == d.vers[r][n].in = d.cont[n].in /\ d.vers[r][n].root # 0
           here == SelectInSeq(d.runs, LAMBDA r : r = d.current)
           last == SelectLastInSubSeq(d.runs, 1, here, Same)
           first == SelectInSeq(d.runs, Same)
           Root(i) == d.vers[d.runs[i]][n].root
<1>1. d.runs \in Seq(RunIds) /\ Len(d.runs) \in Nat BY DEF Dbs
<1>2. here \in 0 .. Len(d.runs)
  <2>1. PICK I : I = {i \in 1 .. Len(d.runs) : d.runs[i] = d.current} OBVIOUS
  <2>2. here = IF I # {} THEN Min(I) ELSE 0 BY <2>1 DEF SelectInSeq
  <2>3. I \subseteq 0 .. Len(d.runs) BY <1>1, <2>1
  <2>4. I # {} => Min(I) \in I
    <3>1. 0 \in Nat /\ I \in SUBSET Int /\ \A k \in I : 0 <= k BY <2>3
    <3> QED BY <3>1, MinIs
  <2> QED BY <1>1, <2>2, <2>3, <2>4
<1>3. last \in 0 .. Len(d.runs)
  <2>1. PICK I : I = {i \in 1 .. here : Same(d.runs[i])} OBVIOUS
  <2>2. last = IF I # {} THEN Max(I) ELSE 0 BY <2>1 DEF SelectLastInSubSeq
  <2>0. PICK h : h = here OBVIOUS
  <2>5. h \in 0 .. Len(d.runs) /\ \A i \in I : i \in 1 .. h BY <1>2, <2>0, <2>1
  <2>3. I \subseteq 1 .. Len(d.runs) BY <1>1, <2>5
  <2>4. I # {} => Max(I) \in I
    <3>1. Len(d.runs) \in Int /\ I \in SUBSET Int /\ \A k \in I : k <= Len(d.runs) BY <1>1, <2>3
    <3> QED BY <3>1, MaxIs
  <2> QED BY <1>1, <2>2, <2>3, <2>4
<1>4. first \in 0 .. Len(d.runs)
  <2>1. PICK I : I = {i \in 1 .. Len(d.runs) : Same(d.runs[i])} OBVIOUS
  <2>2. first = IF I # {} THEN Min(I) ELSE 0 BY <2>1 DEF SelectInSeq
  <2>3. I \subseteq 0 .. Len(d.runs) BY <1>1, <2>1
  <2>4. I # {} => Min(I) \in I
    <3>1. 0 \in Nat /\ I \in SUBSET Int /\ \A k \in I : 0 <= k BY <2>3
    <3> QED BY <3>1, MinIs
  <2> QED BY <1>1, <2>2, <2>3, <2>4
<1>5. \A i \in 1 .. Len(d.runs) : Root(i) \in Nat /\ (ZeroRoots(d) => Root(i) = 0)
  <2> SUFFICES ASSUME NEW i \in 1 .. Len(d.runs) PROVE Root(i) \in Nat /\ (ZeroRoots(d) => Root(i) = 0)
    OBVIOUS
  <2>1. PICK r \in RunIds : r = d.runs[i] BY <1>1
  <2>2. d.vers[r][n] \in Versions BY DEF Dbs
  <2> QED BY <2>1, <2>2 DEF Versions, ZeroRoots
<1>6. d.cont[n].in[1] \in Int /\ d.cont[n] \in Containers
  <2>1. d.cont[n] \in Containers BY DEF Dbs
  <2> QED BY <2>1 DEF Containers, Ins
<1>7. FindOutputVersion(d, n) =
        CASE d.cont[n].in = Unread /\ d.cont[n].changed -> 0
          [] d.cont[n].in = Unread /\ ~d.cont[n].changed -> IF last = 0 THEN 0 ELSE Root(last)
          [] d.cont[n].in # Unread /\ d.input[1] = d.output /\ d.cont[n].in[1] > 0 /\ d.cont[n].in[2] = -1
               -> d.cont[n].in[1]
          [] OTHER -> IF first = 0 THEN 0 ELSE Root(first)
  BY DEF FindOutputVersion
<1>8. PICK l, f : l = last /\ f = first OBVIOUS
<1>9. l \in 0 .. Len(d.runs) /\ f \in 0 .. Len(d.runs) BY <1>3, <1>4, <1>8
<1>10. FindOutputVersion(d, n) =
        CASE d.cont[n].in = Unread /\ d.cont[n].changed -> 0
          [] d.cont[n].in = Unread /\ ~d.cont[n].changed -> IF l = 0 THEN 0 ELSE Root(l)
          [] d.cont[n].in # Unread /\ d.input[1] = d.output /\ d.cont[n].in[1] > 0 /\ d.cont[n].in[2] = -1
               -> d.cont[n].in[1]
          [] OTHER -> IF f = 0 THEN 0 ELSE Root(f)
  BY <1>7, <1>8, Zenon
<1>11. (l # 0 => l \in 1 .. Len(d.runs)) /\ (f # 0 => f \in 1 .. Len(d.runs)) BY <1>1, <1>9
<1> HIDE DEF last, first, Root
<1> QED BY <1>5, <1>6, <1>10, <1>11

\* The first input is not the output.
Apart(d) == d.input[1] = d.output => d.output = NoFile

Writes(d) == {n \in d.list : WritesCycle(d, n)}

LEMMA OutputVersionIs ==
    ASSUME NEW w \in Worlds, NEW n \in Names, w.db.current \in RunIds
    PROVE /\ OutputVersion(w, n) \in Nat
          /\ WritesCycle(w.db, n) => /\ w.db.output \in RootFiles
                                     /\ OutputVersion(w, n) = Len(w.file[w.db.output].cycles[n]) + 1
          /\ ZeroRoots(w.db) /\ w.db.input[1] # w.db.output /\ ~WritesCycle(w.db, n)
                => OutputVersion(w, n) = 0
<1>1. w.db \in Dbs /\ w.file \in ParFiles BY DEF Worlds
<1>2. PICK v : v = FindOutputVersion(w.db, n) OBVIOUS
<1>3. v \in Nat /\ (ZeroRoots(w.db) /\ w.db.input[1] # w.db.output => v = 0)
  BY <1>1, <1>2, FindOutputVersionIs
<1>4. WritesCycle(w.db, n) => w.db.output \in RootFiles
  BY <1>1 DEF WritesCycle, OutputOpen, Dbs
<1>5. PICK c : c = Len(w.file[w.db.output].cycles[n]) OBVIOUS
<1>6. WritesCycle(w.db, n) => c \in Nat
  <2>1. SUFFICES ASSUME WritesCycle(w.db, n) PROVE c \in Nat OBVIOUS
  <2>2. w.file[w.db.output] \in [cycles : [Names -> Seq(Values \cup {NoValue})],
                                run : [RunIds -> [Names -> Nat]]] BY <1>1, <1>4, <2>1 DEF ParFiles
  <2>3. PICK s : s = w.file[w.db.output].cycles[n] OBVIOUS
  <2>4. s \in Seq(Values \cup {NoValue}) BY <2>2, <2>3
  <2>5. Len(s) \in Nat BY <2>4
  <2> QED BY <1>5, <2>3, <2>5
<1>7. OutputVersion(w, n) = IF WritesCycle(w.db, n) THEN c + 1
        ELSE IF OutputOpen(w.db) /\ (w.db.cont[n].changed \/ w.db.vers[w.db.current][n].root = 0)
             THEN v ELSE 0
  BY <1>2, <1>5 DEF OutputVersion
<1>8. OutputVersion(w, n) \in Nat BY <1>3, <1>6, <1>7
<1>9. WritesCycle(w.db, n) => OutputVersion(w, n) = c + 1 BY <1>7
<1>10. ZeroRoots(w.db) /\ w.db.input[1] # w.db.output /\ ~WritesCycle(w.db, n)
          => OutputVersion(w, n) = 0
  <2>1. SUFFICES ASSUME ZeroRoots(w.db), w.db.input[1] # w.db.output, ~WritesCycle(w.db, n)
                 PROVE OutputVersion(w, n) = 0
    OBVIOUS
  <2>2. v = 0 BY <1>3, <2>1
  <2> QED BY <1>7, <2>1, <2>2
<1> QED BY <1>4, <1>5, <1>8, <1>9, <1>10

SamePlace(d, e) ==
    /\ e.list = d.list /\ e.runs = d.runs /\ e.current = d.current
    /\ e.input = d.input /\ e.output = d.output /\ e.open = d.open

SameContents(d, e) ==
    \A n \in Names : /\ e.cont[n].value = d.cont[n].value
                     /\ e.cont[n].in = d.cont[n].in
                     /\ e.cont[n].static = d.cont[n].static

VersionsKept(d, e) ==
    \A r \in RunIds, n \in Names :
        e.vers[r][n].in = IF n \notin d.list \/ r # d.current THEN d.vers[r][n].in ELSE d.cont[n].in

\* What writeContainers makes of a world w.
Wrote(w, v) ==
    /\ v \in Worlds
    /\ SamePlace(w.db, v.db) /\ SameContents(w.db, v.db) /\ VersionsKept(w.db, v.db)
    /\ \A n \in Names : v.db.cont[n].changed = (n \notin w.db.list /\ w.db.cont[n].changed)
    /\ ZeroRoots(w.db) /\ Apart(w.db) =>
         \A r \in RunIds, n \in Names :
            v.db.vers[r][n].root = IF r = w.db.current /\ n \in Writes(w.db)
                                   THEN Len(w.file[w.db.output].cycles[n]) + 1 ELSE 0
    /\ v.db.versionsChanged = (w.db.versionsChanged \/ Writes(w.db) # {})
    /\ \A f \in RootFiles :
         /\ v.file[f].run = w.file[f].run
         /\ \A n \in Names :
              v.file[f].cycles[n] = IF f = w.db.output /\ n \in Writes(w.db)
                                    THEN Append(w.file[f].cycles[n], w.db.cont[n].value)
                                    ELSE w.file[f].cycles[n]
    /\ \A f \in RootFiles \ {w.db.output} : v.file[f] = w.file[f]

LEMMA WriteContainersIs ==
    ASSUME NEW w \in Worlds, w.db.current \in RunIds
    PROVE Wrote(w, WriteContainers(w))
<1>1. PICK d : d = w.db OBVIOUS
<1>2. d \in Dbs /\ w.file \in ParFiles BY <1>1 DEF Worlds
<1>3. PICK W : W = Writes(d) OBVIOUS
<1>4. NoRun \notin RunIds BY RunIdAssumption DEF NoRun
<1>5. PICK V : V = [r \in RunIds |-> [n \in Names |-> VersionAfterWrite(w, r, n)]] OBVIOUS
<1>6. PICK C : C = [n \in Names |-> IF n \in d.list THEN [d.cont[n] EXCEPT !.changed = FALSE]
                                    ELSE d.cont[n]] OBVIOUS
<1>7. PICK F : F = IF W = {} THEN w.file
                   ELSE [w.file EXCEPT ![d.output].cycles =
                            [n \in Names |-> IF n \in W THEN Append(@[n], d.cont[n].value) ELSE @[n]]]
  BY Zenon
<1>8. PICK v : v = WriteContainers(w) OBVIOUS
<1>9. v = [db |-> [d EXCEPT !.vers = V, !.cont = C, !.versionsChanged = d.versionsChanged \/ W # {}],
           file |-> F]
  BY <1>1, <1>3, <1>4, <1>5, <1>6, <1>7, <1>8, Zenon DEF WriteContainers, Writes
\* The containers.
<1>10. /\ C \in [Names -> Containers]
       /\ \A n \in Names : /\ C[n].value = d.cont[n].value /\ C[n].in = d.cont[n].in
                           /\ C[n].static = d.cont[n].static
                           /\ C[n].changed = (n \notin d.list /\ d.cont[n].changed)
  <2>1. ASSUME NEW n \in Names
        PROVE /\ C[n] \in Containers
              /\ C[n].value = d.cont[n].value /\ C[n].in = d.cont[n].in /\ C[n].static = d.cont[n].static
              /\ C[n].changed = (n \notin d.list /\ d.cont[n].changed)
    <3>1. d.cont[n] \in Containers BY <1>2 DEF Dbs
    <3>2. C[n] = IF n \in d.list THEN [d.cont[n] EXCEPT !.changed = FALSE] ELSE d.cont[n] BY <1>6
    <3> QED BY <3>1, <3>2 DEF Containers
  <2> QED BY <1>6, <2>1
\* The versions.
<1>11. ASSUME NEW r \in RunIds, NEW n \in Names
       PROVE /\ V[r][n] \in Versions
             /\ V[r][n].in = IF n \notin d.list \/ r # d.current THEN d.vers[r][n].in ELSE d.cont[n].in
             /\ ZeroRoots(d) /\ Apart(d) =>
                   V[r][n].root = IF r = d.current /\ n \in W
                                  THEN Len(w.file[d.output].cycles[n]) + 1 ELSE 0
  <2>1. d.vers[r][n] \in Versions /\ d.cont[n] \in Containers BY <1>2 DEF Dbs
  <2>2. PICK o : o = OutputVersion(w, n) OBVIOUS
  <2>3. /\ o \in Nat
        /\ WritesCycle(d, n) => o = Len(w.file[d.output].cycles[n]) + 1
        /\ ZeroRoots(d) /\ d.input[1] # d.output /\ ~WritesCycle(d, n) => o = 0
    BY <1>1, <2>2, OutputVersionIs
  <2>4. V[r][n] = IF n \notin d.list \/ r # d.current THEN d.vers[r][n]
                  ELSE [in |-> d.cont[n].in,
                        root |-> IF OutputOpen(d) /\ (d.cont[n].changed \/ d.vers[r][n].root = 0)
                                 THEN o ELSE d.vers[r][n].root]
    BY <1>1, <1>5, <2>2 DEF VersionAfterWrite
  <2>5. n \in W <=> n \in d.list /\ WritesCycle(d, n) BY <1>3 DEF Writes
  <2>6. WritesCycle(d, n) => OutputOpen(d) /\ d.cont[n].changed BY DEF WritesCycle
  <2>7. ZeroRoots(d) => d.vers[r][n].root = 0 BY DEF ZeroRoots
  <2>8. V[r][n] \in Versions BY <2>1, <2>3, <2>4 DEF Versions, Containers
  <2>9. V[r][n].in = IF n \notin d.list \/ r # d.current THEN d.vers[r][n].in ELSE d.cont[n].in BY <2>4
  <2>11. OutputOpen(d) /\ Apart(d) => d.input[1] # d.output BY DEF OutputOpen, Apart
  <2>10. ZeroRoots(d) /\ Apart(d) =>
            V[r][n].root = IF r = d.current /\ n \in W THEN Len(w.file[d.output].cycles[n]) + 1 ELSE 0
    BY <2>3, <2>4, <2>5, <2>6, <2>7, <2>11
  <2> QED BY <2>8, <2>9, <2>10
<1>12. V \in [RunIds -> [Names -> Versions]] BY <1>5, <1>11
\* The files.
<1>13. W # {} => d.output \in RootFiles
  BY <1>2, <1>3 DEF Writes, WritesCycle, OutputOpen, Dbs
<1>14. ASSUME NEW f \in RootFiles
       PROVE /\ F[f] \in [cycles : [Names -> Seq(Values \cup {NoValue})], run : [RunIds -> [Names -> Nat]]]
             /\ F[f].run = w.file[f].run
             /\ \A n \in Names : F[f].cycles[n] = IF f = d.output /\ n \in W
                                                  THEN Append(w.file[f].cycles[n], d.cont[n].value)
                                                  ELSE w.file[f].cycles[n]
             /\ f # d.output => F[f] = w.file[f]
  <2>1. PICK g : g = w.file[f] OBVIOUS
  <2>2. g \in [cycles : [Names -> Seq(Values \cup {NoValue})], run : [RunIds -> [Names -> Nat]]]
    BY <1>2, <2>1 DEF ParFiles
  <2>3. CASE W = {} \/ f # d.output
    <3>1. F[f] = g BY <1>2, <1>7, <2>1, <2>3 DEF ParFiles
    <3> QED BY <2>1, <2>2, <2>3, <3>1
  <2>4. CASE W # {} /\ f = d.output
    <3>1. PICK c : c = [n \in Names |-> IF n \in W THEN Append(g.cycles[n], d.cont[n].value) ELSE g.cycles[n]]
      OBVIOUS
    <3>2. F[f] = [g EXCEPT !.cycles = c] BY <1>2, <1>7, <2>1, <2>4, <3>1 DEF ParFiles
    <3>3. c \in [Names -> Seq(Values \cup {NoValue})]
      <4>1. ASSUME NEW n \in Names PROVE c[n] \in Seq(Values \cup {NoValue})
        <5>1. g.cycles[n] \in Seq(Values \cup {NoValue}) BY <2>2
        <5>2. d.cont[n] \in Containers BY <1>2 DEF Dbs
        <5>3. d.cont[n].value \in Values \cup {NoValue} BY <5>2 DEF Containers
        <5> QED BY <3>1, <5>1, <5>3
      <4> QED BY <3>1, <4>1
    <3>4. /\ F[f] \in [cycles : [Names -> Seq(Values \cup {NoValue})], run : [RunIds -> [Names -> Nat]]]
          /\ F[f].run = g.run /\ F[f].cycles = c
      BY <2>2, <3>2, <3>3
    <3>5. \A n \in Names : F[f].cycles[n] = IF f = d.output /\ n \in W
                                             THEN Append(g.cycles[n], d.cont[n].value) ELSE g.cycles[n]
      <4>1. ASSUME NEW n \in Names
            PROVE c[n] = IF n \in W THEN Append(g.cycles[n], d.cont[n].value) ELSE g.cycles[n]
        BY <3>1
      <4> QED BY <2>4, <3>4, <4>1
    <3> QED BY <2>1, <2>4, <3>4, <3>5
  <2> QED BY <2>3, <2>4
<1>15. F \in ParFiles
  <2>1. DOMAIN F = RootFiles /\ F = [f \in RootFiles |-> F[f]] BY <1>2, <1>7, Zenon DEF ParFiles
  <2> QED BY <1>14, <2>1, SMTT(30) DEF ParFiles
\* All of it.
<1>16. PICK e : e = [d EXCEPT !.vers = V, !.cont = C, !.versionsChanged = d.versionsChanged \/ W # {}]
  OBVIOUS
<1>17. /\ e \in Dbs /\ SamePlace(d, e) /\ e.vers = V /\ e.cont = C
       /\ e.versionsChanged = (d.versionsChanged \/ W # {})
  BY <1>2, <1>10, <1>12, <1>16 DEF Dbs, SamePlace
<1>18. v.db = e /\ v.file = F /\ v \in Worlds BY <1>9, <1>15, <1>16, <1>17 DEF Worlds
<1>19. SameContents(d, e) BY <1>10, <1>17 DEF SameContents
<1>20. VersionsKept(d, e) BY <1>11, <1>17 DEF VersionsKept
<1> QED BY <1>1, <1>3, <1>8, <1>10, <1>11, <1>14, <1>17, <1>18, <1>19, <1>20 DEF Wrote

\* What initContainers makes of a world w before it reads the containers.
Entered(w, r, v) ==
    /\ v \in Worlds
    /\ v.db.list = w.db.list /\ v.db.current = r /\ HasRun(v.db, r)
    /\ v.db.input = w.db.input /\ v.db.output = w.db.output /\ v.db.open = w.db.open
    /\ SameContents(w.db, v.db)
    /\ \A n \in Names : v.db.cont[n].changed => w.db.cont[n].changed
    /\ \A q \in RunIds, n \in Names :
         \/ v.db.vers[q][n].in = w.db.vers[q][n].in
         \/ /\ q = w.db.current /\ n \in w.db.list
            /\ v.db.vers[q][n].in = w.db.cont[n].in
    /\ w.db.output = NoFile =>
         /\ v.db.versionsChanged = w.db.versionsChanged
         /\ ZeroRoots(w.db) => ZeroRoots(v.db)
    /\ \A f \in RootFiles \ {w.db.output} : v.file[f] = w.file[f]

LEMMA EnterRunIs ==
    ASSUME NEW w \in Worlds, NEW r \in RunIds
    PROVE Entered(w, r, EnterRun(w, r))
<1>1. PICK l : l = IF w.db.current \notin {NoRun, r} THEN WriteContainers(w) ELSE w OBVIOUS
<1>2. w.db \in Dbs BY DEF Worlds
<1>3. /\ l \in Worlds /\ l.db.list = w.db.list /\ l.db.input = w.db.input
      /\ l.db.output = w.db.output /\ l.db.open = w.db.open /\ SameContents(w.db, l.db)
      /\ \A n \in Names : l.db.cont[n].changed => w.db.cont[n].changed
      /\ \A q \in RunIds, n \in Names :
           \/ l.db.vers[q][n].in = w.db.vers[q][n].in
           \/ q = w.db.current /\ n \in w.db.list /\ l.db.vers[q][n].in = w.db.cont[n].in
      /\ w.db.output = NoFile =>
           /\ l.db.versionsChanged = w.db.versionsChanged
           /\ ZeroRoots(w.db) => ZeroRoots(l.db)
      /\ \A f \in RootFiles \ {w.db.output} : l.file[f] = w.file[f]
  <2>1. CASE w.db.current \in {NoRun, r}
    <3>1. l = w BY <1>1, <2>1
    <3> QED BY <3>1 DEF SameContents
  <2>2. CASE w.db.current \notin {NoRun, r}
    <3>1. w.db.current \in RunIds BY <1>2, <2>2 DEF Dbs
    <3>2. Wrote(w, l) BY <1>1, <2>2, <3>1, WriteContainersIs
    <3>3. /\ l \in Worlds /\ l.db.list = w.db.list /\ l.db.input = w.db.input
          /\ l.db.output = w.db.output /\ l.db.open = w.db.open /\ SameContents(w.db, l.db)
      BY <3>2 DEF Wrote, SamePlace
    <3>4. \A n \in Names : l.db.cont[n].changed => w.db.cont[n].changed BY <3>2 DEF Wrote
    <3>5. \A q \in RunIds, n \in Names :
             \/ l.db.vers[q][n].in = w.db.vers[q][n].in
             \/ q = w.db.current /\ n \in w.db.list /\ l.db.vers[q][n].in = w.db.cont[n].in
      BY <3>2 DEF Wrote, VersionsKept
    <3>6. w.db.output = NoFile =>
             /\ l.db.versionsChanged = w.db.versionsChanged
             /\ ZeroRoots(w.db) => ZeroRoots(l.db)
      <4>1. SUFFICES ASSUME w.db.output = NoFile
                     PROVE /\ l.db.versionsChanged = w.db.versionsChanged
                           /\ ZeroRoots(w.db) => ZeroRoots(l.db)
        OBVIOUS
      <4>2. Writes(w.db) = {} BY <4>1 DEF Writes, WritesCycle, OutputOpen
      <4>3. w.db.versionsChanged \in BOOLEAN BY <1>2 DEF Dbs
      <4>4. l.db.versionsChanged = w.db.versionsChanged BY <3>2, <4>2, <4>3 DEF Wrote
      <4>5. Apart(w.db) BY <4>1 DEF Apart
      <4>6. ZeroRoots(w.db) => \A q \in RunIds, n \in Names : l.db.vers[q][n].root = 0
        BY <3>2, <4>2, <4>5 DEF Wrote
      <4> QED BY <4>4, <4>6 DEF ZeroRoots
    <3>7. \A f \in RootFiles \ {w.db.output} : l.file[f] = w.file[f] BY <3>2 DEF Wrote
    <3> QED BY <3>3, <3>4, <3>5, <3>6, <3>7
  <2> QED BY <2>1, <2>2
<1>4. PICK d, f : d = l.db /\ f = l.file OBVIOUS
<1>5. d \in Dbs /\ f \in ParFiles BY <1>3, <1>4 DEF Worlds
<1>6. PICK e : e = [AddRun(d, r) EXCEPT !.current = r] OBVIOUS
<1>7. e \in Dbs BY <1>5, <1>6, AddRunIs
<1>8. PICK s \in Seq(RunIds) : /\ e = [d EXCEPT !.runs = s, !.current = r]
                               /\ \E i \in DOMAIN s : s[i] = r
  <2>1. \E s \in Seq(RunIds) :
           /\ [AddRun(d, r) EXCEPT !.current = r] = [d EXCEPT !.runs = s, !.current = r]
           /\ \E i \in DOMAIN s : s[i] = r
    BY <1>5, AddRunIs
  <2> QED BY <1>6, <2>1
<1>9. /\ e.list = d.list /\ e.current = r /\ e.runs = s /\ e.input = d.input /\ e.output = d.output
      /\ e.open = d.open /\ e.cont = d.cont /\ e.vers = d.vers /\ e.versionsChanged = d.versionsChanged
  BY <1>5, <1>8 DEF Dbs
<1>10. EnterRun(w, r) = [l EXCEPT !.db = e] BY <1>1, <1>4, <1>6 DEF EnterRun
<1>11. PICK v : v = EnterRun(w, r) OBVIOUS
<1>12. v.db = e /\ v.file = f /\ v \in Worlds BY <1>3, <1>4, <1>5, <1>7, <1>10, <1>11 DEF Worlds
<1>13. SameContents(w.db, e) BY <1>3, <1>4, <1>9 DEF SameContents
<1>14. ZeroRoots(l.db) => ZeroRoots(e) BY <1>4, <1>9 DEF ZeroRoots
<1>15. HasRun(e, r) BY <1>8, <1>9 DEF HasRun
<1> QED BY <1>3, <1>4, <1>9, <1>11, <1>12, <1>13, <1>14, <1>15 DEF Entered

-----------------------------------------------------------------------------
(* Reading. *)

IsRoot(k) == Inputs[k] \in RootFiles

InputsKept(w) ==
    w.db.input = Inputs /\ \A k \in 1 .. 2 : IsRoot(k) => w.file[Inputs[k]] = Stocked[Inputs[k]]

\* A version that was read from an input is the one the input lists for run r.
OfRunAt(in, n, r, k) ==
    IsRoot(k) /\ in[k] > 0 => r \in RunIds /\ in[k] = Stocked[Inputs[k]].run[r][n]

\* A container has the value of the version it says it was read from.
KnownAt(c, n, k) ==
    IsRoot(k) /\ c.in[k] > 0 => c.value = KeyAt(Stocked[Inputs[k]].cycles[n], c.in[k])

OfRun(in, n, r) == \A k \in 1 .. 2 : OfRunAt(in, n, r, k)
Known(c, n) == ~c.static => \A k \in 1 .. 2 : KnownAt(c, n, k)
VersRight(d) == \A r \in RunIds, n \in Names : OfRun(d.vers[r][n].in, n, r)

LEMMA SetupTypes ==
    ASSUME topology \in Topologies
    PROVE /\ Inputs \in [1 .. 2 -> FileNames]
          /\ Stocked \in [RootFiles -> [cycles : [Names -> Seq(Values)], run : [RunIds -> [Names -> Nat]]]]
          /\ \A f \in RootFiles, r \in RunIds, n \in Names :
               Stocked[f].run[r][n] <= Len(Stocked[f].cycles[n])
          /\ SavesUpdates \in BOOLEAN /\ MaxMessages \in Nat /\ IsFiniteSet(Devices)
          /\ SavesUpdates => Output \in RootFiles
  BY ServerAssumption DEF FileNames, Inputs, Stocked, SavesUpdates, MaxMessages, Devices

\* What readInput finds for a container in the k-th input.
ReadRight(w, c, n, k, x) ==
    LET r == w.db.current
    IN  /\ x = [cont |-> x.cont, found |-> x.found] /\ x.found \in BOOLEAN
        /\ x.cont \in Containers /\ ~x.cont.static
        /\ KnownAt(x.cont, n, k) /\ OfRunAt(x.cont.in, n, r, k)
        /\ \A j \in 1 .. 2 \ {k} : x.cont.in[j] \in {c.in[j], -1}
        /\ x.found => x.cont.value = FromInput(k, r, n) /\ FromInput(k, r, n) # NoValue
        /\ ~x.found => /\ FromInput(k, r, n) = NoValue /\ x.cont.value = c.value
                       /\ IsRoot(k) => x.cont.in[k] = -1

LEMMA ReadInputIs ==
    ASSUME topology \in Topologies, NEW w \in Worlds, InputsKept(w), w.db.current \in RunIds, VersRight(w.db),
           NEW n \in Names, NEW c \in Containers, ~c.static, NEW k \in 1 .. 2, KnownAt(c, n, k)
    PROVE ReadRight(w, c, n, k, ReadInput(w, c, n, k))
<1>1. PICK f, r : f = Inputs[k] /\ r = w.db.current OBVIOUS
<1>2. f \in FileNames /\ r \in RunIds /\ w.db.input[k] = f
  BY <1>1, SetupTypes DEF InputsKept
<1>3. RootFiles \cap AsciiFiles = {} /\ NoFile \notin RootFiles \cup AsciiFiles BY FileAssumption
<1>4. c.in \in Ins /\ c.value \in Values \cup {NoValue} /\ c.static = FALSE /\ c.changed \in BOOLEAN
  BY DEF Containers
<1>5. CASE f = NoFile
  <2>1. ReadInput(w, c, n, k) = [cont |-> c, found |-> FALSE] BY <1>2, <1>3, <1>5 DEF ReadInput
  <2>2. FromInput(k, r, n) = NoValue BY <1>1, <1>3, <1>5 DEF FromInput
  <2>3. ~IsRoot(k) BY <1>1, <1>3, <1>5 DEF IsRoot
  <2>4. \A j \in 1 .. 2 : c.in[j] \in {c.in[j], -1} OBVIOUS
  <2> QED BY <1>1, <2>1, <2>2, <2>3, <2>4 DEF ReadRight, OfRunAt
<1>6. CASE f \in RootFiles
  <2>1. IsRoot(k) BY <1>1, <1>6 DEF IsRoot
  <2>2. PICK g : g = Stocked[f] OBVIOUS
  <2>3. w.file[f] = g BY <1>1, <2>1, <2>2 DEF InputsKept
  <2>4. PICK ver, cycles : ver = g.run[r][n] /\ cycles = g.cycles[n] OBVIOUS
  <2>5. ver \in Nat /\ cycles \in Seq(Values) /\ ver <= Len(cycles)
    <3>1. g \in [cycles : [Names -> Seq(Values)], run : [RunIds -> [Names -> Nat]]]
      BY <1>6, <2>2, SetupTypes
    <3>2. ver <= Len(cycles) BY <1>2, <1>6, <2>2, <2>4, SetupTypes
    <3> QED BY <1>2, <2>4, <3>1, <3>2
  <2>6. FindInputVersion(w, n, k) = ver
    <3>1. PICK p : p = w.db.vers[r][n].in[k] OBVIOUS
    <3>2. OfRunAt(w.db.vers[r][n].in, n, r, k) BY <1>2 DEF VersRight, OfRun
    <3>3. p > 0 => p = ver BY <1>1, <2>1, <2>2, <2>4, <3>1, <3>2 DEF OfRunAt
    <3>4. FindInputVersion(w, n, k) = IF p > 0 THEN p ELSE w.file[f].run[r][n]
      BY <1>1, <1>2, <3>1 DEF FindInputVersion
    <3> QED BY <2>3, <2>4, <3>3, <3>4
  <2>7. FromInput(k, r, n) = IF ver > 0 THEN KeyAt(cycles, ver) ELSE NoValue
    BY <1>1, <1>3, <1>6, <2>2, <2>4 DEF FromInput, TableValue
  <2>8. ver > 0 => KeyAt(cycles, ver) \in Values
    <3>1. ver > 0 => cycles[ver] \in Values BY <2>5
    <3> QED BY <2>5, <3>1 DEF KeyAt
  <2>9. NoValue \notin Values BY ValueAssumption
  <2>10. ReadInput(w, c, n, k) = ReadRoot(w, c, n, k) BY <1>2, <1>3, <1>6 DEF ReadInput
  <2>11. ReadRoot(w, c, n, k) =
           CASE ver <= 0 -> NotFound(c, k)
             [] ver > 0 /\ c.in[k] = ver -> [cont |-> c, found |-> TRUE]
             [] ver > 0 /\ c.in[k] # ver /\ cycles = << >> -> NotFound(c, k)
             [] OTHER -> [cont |-> [value |-> KeyAt(cycles, ver), in |-> [Unread EXCEPT ![k] = ver],
                                    static |-> FALSE, changed |-> TRUE], found |-> TRUE]
    BY <1>2, <2>3, <2>4, <2>6 DEF ReadRoot
  <2>12. CASE ver = 0
    <3>1. PICK i : i = [c.in EXCEPT ![k] = -1] OBVIOUS
    <3>2. i \in Ins /\ i[k] = -1 /\ \A j \in 1 .. 2 \ {k} : i[j] = c.in[j] BY <1>4, <3>1 DEF Ins
    <3>3. NotFound(c, k) = [cont |-> [c EXCEPT !.in = i], found |-> FALSE] BY <3>1 DEF NotFound
    <3>4. PICK e : e = [c EXCEPT !.in = i] OBVIOUS
    <3>5. e \in Containers /\ e.in = i /\ e.static = FALSE /\ e.value = c.value
      BY <1>4, <3>2, <3>4 DEF Containers
    <3>6. ReadInput(w, c, n, k) = [cont |-> e, found |-> FALSE] BY <2>10, <2>11, <2>12, <3>3, <3>4
    <3>7. KnownAt(e, n, k) /\ OfRunAt(e.in, n, r, k) BY <3>2, <3>5 DEF KnownAt, OfRunAt
    <3> QED BY <1>1, <2>7, <2>12, <3>2, <3>5, <3>6, <3>7 DEF ReadRight
  <2>13. CASE ver > 0 /\ c.in[k] = ver
    <3>1. ReadInput(w, c, n, k) = [cont |-> c, found |-> TRUE] BY <2>5, <2>10, <2>11, <2>13
    <3>2. c.value = KeyAt(cycles, ver) BY <1>1, <2>1, <2>2, <2>4, <2>13 DEF KnownAt
    <3>3. OfRunAt(c.in, n, r, k) BY <1>1, <1>2, <2>2, <2>4, <2>13 DEF OfRunAt
    <3>4. FromInput(k, r, n) = c.value /\ FromInput(k, r, n) # NoValue
      BY <2>7, <2>8, <2>9, <2>13, <3>2
    <3> QED BY <1>1, <3>1, <3>3, <3>4 DEF ReadRight
  <2>14. CASE ver > 0 /\ c.in[k] # ver
    <3>1. PICK i : i = [Unread EXCEPT ![k] = ver] OBVIOUS
    <3>2. i \in Ins /\ i[k] = ver /\ \A j \in 1 .. 2 \ {k} : i[j] = -1
      <4>1. ver \in Int BY <2>5
      <4>2. Unread \in [1 .. 2 -> Int] /\ \A j \in 1 .. 2 : Unread[j] = -1 BY UnreadType DEF Ins
      <4> QED BY <3>1, <4>1, <4>2 DEF Ins
    <3>3. PICK e : e = [value |-> KeyAt(cycles, ver), in |-> i, static |-> FALSE, changed |-> TRUE] OBVIOUS
    <3>4. e \in Containers /\ e.in = i /\ e.static = FALSE /\ e.value = KeyAt(cycles, ver)
      BY <2>8, <2>14, <3>2, <3>3 DEF Containers
    <3>5. cycles # << >> BY <2>5, <2>14
    <3>6. ReadInput(w, c, n, k) = [cont |-> e, found |-> TRUE]
      BY <2>5, <2>10, <2>11, <2>14, <3>1, <3>3, <3>5
    <3>7. KnownAt(e, n, k) BY <1>1, <2>2, <2>4, <3>2, <3>4 DEF KnownAt
    <3>8. OfRunAt(e.in, n, r, k) BY <1>1, <1>2, <2>2, <2>4, <3>2, <3>4 DEF OfRunAt
    <3>9. FromInput(k, r, n) = e.value /\ FromInput(k, r, n) # NoValue
      BY <2>7, <2>8, <2>9, <2>14, <3>4
    <3> QED BY <1>1, <3>2, <3>4, <3>6, <3>7, <3>8, <3>9 DEF ReadRight
  <2> QED BY <2>5, <2>12, <2>13, <2>14
<1>7. CASE f \in AsciiFiles
  <2>1. ~IsRoot(k) BY <1>1, <1>3, <1>7 DEF IsRoot
  <2>2. PICK v : v = Text[f][n] OBVIOUS
  <2>3. v \in Values \cup {NoValue} BY <1>7, <2>2, FileAssumption
  <2>4. FromInput(k, r, n) = v BY <1>1, <1>3, <1>7, <2>2 DEF FromInput
  <2>5. ReadInput(w, c, n, k) = ReadText(c, Text[f], n, k) BY <1>2, <1>3, <1>7 DEF ReadInput
  <2>6. CASE v = NoValue
    <3>1. ReadInput(w, c, n, k) = [cont |-> c, found |-> FALSE] BY <2>2, <2>5, <2>6 DEF ReadText
    <3> QED BY <1>1, <2>1, <2>4, <2>6, <3>1 DEF ReadRight, OfRunAt
  <2>7. CASE v # NoValue
    <3>1. PICK i : i = [c.in EXCEPT ![k] = 1] OBVIOUS
    <3>2. i \in Ins /\ \A j \in 1 .. 2 \ {k} : i[j] = c.in[j] BY <1>4, <3>1 DEF Ins
    <3>3. PICK e : e = [c EXCEPT !.value = v, !.in = i, !.changed = TRUE] OBVIOUS
    <3>4. e \in Containers /\ e.in = i /\ e.static = FALSE /\ e.value = v
      BY <1>4, <2>3, <3>2, <3>3 DEF Containers
    <3>5. ReadInput(w, c, n, k) = [cont |-> e, found |-> TRUE]
      BY <2>2, <2>5, <2>7, <3>1, <3>3 DEF ReadText
    <3>6. KnownAt(e, n, k) /\ OfRunAt(e.in, n, r, k) BY <2>1 DEF KnownAt, OfRunAt
    <3> QED BY <1>1, <2>4, <2>7, <3>2, <3>4, <3>5, <3>6 DEF ReadRight
  <2> QED BY <2>6, <2>7
<1> QED BY <1>2, <1>5, <1>6, <1>7 DEF FileNames

\* What init finds for a container.
InitRight(w, n, x) ==
    /\ x.cont \in Containers /\ ~x.cont.static
    /\ Known(x.cont, n) /\ OfRun(x.cont.in, n, w.db.current)
    /\ x.found => x.cont.value = Parameter(w.db.current, n)

LEMMA InitContainerIs ==
    ASSUME topology \in Topologies, NEW w \in Worlds, InputsKept(w), w.db.current \in RunIds, VersRight(w.db),
           NEW n \in Names, ~w.db.cont[n].static, Known(w.db.cont[n], n)
    PROVE InitRight(w, n, InitContainer(w, n))
<1>1. PICK c, r : c = w.db.cont[n] /\ r = w.db.current OBVIOUS
<1>2. c \in Containers /\ ~c.static BY <1>1 DEF Worlds, Dbs
<1>3. KnownAt(c, n, 1) /\ KnownAt(c, n, 2) /\ 1 \in 1 .. 2 /\ 2 \in 1 .. 2 BY <1>1 DEF Known
<1>4. PICK x : x = ReadInput(w, c, n, 1) OBVIOUS
<1>5. ReadRight(w, c, n, 1, x) BY <1>2, <1>3, <1>4, ReadInputIs
<1>6. PICK e : e = x.cont OBVIOUS
<1>7. /\ x = [cont |-> e, found |-> x.found] /\ x.found \in BOOLEAN
      /\ e \in Containers /\ ~e.static /\ KnownAt(e, n, 1) /\ OfRunAt(e.in, n, r, 1)
      /\ e.in[2] \in {c.in[2], -1}
      /\ x.found => e.value = FromInput(1, r, n) /\ FromInput(1, r, n) # NoValue
      /\ ~x.found => /\ FromInput(1, r, n) = NoValue /\ e.value = c.value
                     /\ IsRoot(1) => e.in[1] = -1
  BY <1>1, <1>5, <1>6 DEF ReadRight
<1>8. e.in \in Ins BY <1>7 DEF Containers
<1>9. \A k \in 1 .. 2 : k = 1 \/ k = 2 OBVIOUS
<1>10. CASE x.found
  <2>1. PICK i : i = [e.in EXCEPT ![2] = -1] OBVIOUS
  <2>2. i \in Ins /\ i[1] = e.in[1] /\ i[2] = -1 BY <1>8, <2>1 DEF Ins
  <2>3. PICK g : g = [e EXCEPT !.in = i] OBVIOUS
  <2>4. g \in Containers /\ ~g.static /\ g.in = i /\ g.value = e.value
    BY <1>7, <2>2, <2>3 DEF Containers
  <2>5. PICK y : y = InitContainer(w, n) BY SMTT(30)
  <2>6. y = [x EXCEPT !.cont = g] BY <1>1, <1>4, <1>6, <1>10, <2>1, <2>3, <2>5 DEF InitContainer
  <2>7. y.cont = g BY <1>7, <2>6
  <2>8. KnownAt(g, n, 1) /\ KnownAt(g, n, 2) BY <1>7, <2>2, <2>4 DEF KnownAt
  <2>9. OfRunAt(i, n, r, 1) /\ OfRunAt(i, n, r, 2) BY <1>7, <2>2 DEF OfRunAt
  <2>10. g.value = Parameter(r, n) BY <1>7, <1>10, <2>4 DEF Parameter
  <2> QED BY <1>1, <1>9, <2>4, <2>5, <2>7, <2>8, <2>9, <2>10 DEF InitRight, Known, OfRun
<1>11. CASE ~x.found
  <2>1. KnownAt(e, n, 2) BY <1>3, <1>7, <1>11 DEF KnownAt
  <2>2. PICK y : y = ReadInput(w, e, n, 2) OBVIOUS
  <2>3. ReadRight(w, e, n, 2, y) BY <1>3, <1>7, <2>1, <2>2, ReadInputIs
  <2>4. PICK g : g = y.cont OBVIOUS
  <2>5. /\ g \in Containers /\ ~g.static /\ KnownAt(g, n, 2) /\ OfRunAt(g.in, n, r, 2)
        /\ g.in[1] \in {e.in[1], -1}
        /\ y.found => g.value = FromInput(2, r, n)
    BY <1>1, <2>3, <2>4 DEF ReadRight
  <2>6. IsRoot(1) => g.in[1] = -1 BY <1>7, <1>11, <2>5
  <2>7. KnownAt(g, n, 1) /\ OfRunAt(g.in, n, r, 1) BY <2>6 DEF KnownAt, OfRunAt
  <2>8. y.found => g.value = Parameter(r, n) BY <1>7, <1>11, <2>5 DEF Parameter
  <2>9. InitContainer(w, n) = y BY <1>1, <1>4, <1>6, <1>11, <2>2 DEF InitContainer
  <2> QED BY <1>1, <1>9, <2>4, <2>5, <2>7, <2>8, <2>9 DEF InitRight, Known, OfRun
<1> QED BY <1>7, <1>10, <1>11

\* What initContainers makes of a world w that has entered a run.
ReadAll(w, v) ==
    /\ v \in Worlds /\ v.file = w.file
    /\ SamePlace(w.db, v.db) /\ v.db.vers = w.db.vers /\ v.db.versionsChanged = w.db.versionsChanged
    /\ \A n \in Names : n \notin w.db.list \/ w.db.cont[n].static => v.db.cont[n] = w.db.cont[n]
    /\ \A n \in w.db.list :
         ~w.db.cont[n].static =>
            /\ ~v.db.cont[n].static /\ Known(v.db.cont[n], n)
            /\ OfRun(v.db.cont[n].in, n, w.db.current)
            /\ InitSucceeds(w) => v.db.cont[n].value = Parameter(w.db.current, n)

LEMMA ReadContainersIs ==
    ASSUME topology \in Topologies, NEW w \in Worlds, InputsKept(w), w.db.current \in RunIds, VersRight(w.db),
           \A n \in Names : Known(w.db.cont[n], n)
    PROVE ReadAll(w, ReadContainers(w))
<1>1. PICK d : d = w.db OBVIOUS
<1>2. d \in Dbs BY <1>1 DEF Worlds
<1>3. PICK C : C = [n \in Names |-> IF n \in Initialised(w) THEN InitContainer(w, n).cont ELSE d.cont[n]]
  OBVIOUS
<1>4. \A n \in Names : n \in Initialised(w) <=> n \in d.list /\ ~d.cont[n].static
  BY <1>1 DEF Initialised
<1>5. \A n \in Names : n \in Initialised(w) => InitRight(w, n, InitContainer(w, n))
  BY <1>1, <1>4, InitContainerIs
<1>6. C \in [Names -> Containers]
  <2>1. ASSUME NEW n \in Names PROVE C[n] \in Containers
    <3>1. d.cont[n] \in Containers BY <1>2 DEF Dbs
    <3> QED BY <1>3, <1>5, <3>1 DEF InitRight
  <2> QED BY <1>3, <2>1
<1>7. PICK e : e = [d EXCEPT !.cont = C] OBVIOUS
<1>8. e \in Dbs /\ SamePlace(d, e) /\ e.vers = d.vers /\ e.versionsChanged = d.versionsChanged /\ e.cont = C
  BY <1>2, <1>6, <1>7 DEF Dbs, SamePlace
<1>9. PICK v : v = ReadContainers(w) OBVIOUS
<1>10. v = [w EXCEPT !.db = e] BY <1>1, <1>3, <1>7, <1>9 DEF ReadContainers
<1>11. v \in Worlds /\ v.db = e /\ v.file = w.file BY <1>8, <1>10 DEF Worlds
<1>12. \A n \in Names : n \notin d.list \/ d.cont[n].static => e.cont[n] = d.cont[n]
  BY <1>3, <1>4, <1>8
<1>13. ASSUME NEW n \in d.list, ~d.cont[n].static
       PROVE /\ ~e.cont[n].static /\ Known(e.cont[n], n)
             /\ OfRun(e.cont[n].in, n, d.current)
             /\ InitSucceeds(w) => e.cont[n].value = Parameter(d.current, n)
  <2>1. n \in Names /\ n \in Initialised(w) BY <1>2, <1>4, <1>13 DEF Dbs
  <2>2. e.cont[n] = InitContainer(w, n).cont BY <1>3, <1>8, <2>1
  <2>3. InitRight(w, n, InitContainer(w, n)) BY <1>5, <2>1
  <2>4. InitSucceeds(w) => InitContainer(w, n).found BY <2>1 DEF InitSucceeds
  <2> QED BY <1>1, <2>2, <2>3, <2>4 DEF InitRight
<1> QED BY <1>1, <1>8, <1>9, <1>11, <1>12, <1>13 DEF ReadAll

-----------------------------------------------------------------------------
(* The inductive invariant. *)

\* An input is not the output.
OutputApart == \A s \in Topologies, k \in 1 .. 2 : s.inputs[k] = Output => Output = NoFile

Sent == [run : RunIds, name : Names, value : Values]

\* The static containers are those that were sent.
StaticSent(d, S) ==
    /\ \A n \in d.list : d.cont[n].static => /\ d.cont[n].in = Unread
                                             /\ \E u \in S : u.name = n /\ u.value = d.cont[n].value
    /\ \A u \in S : /\ u.name \in d.list
                    /\ d.cont[u.name].static /\ ~d.cont[u.name].changed
                    /\ d.cont[u.name].value = u.value

\* Between two updates the server has no output.
OutputClosed(d) ==
    /\ d.output \in {NoFile, Output}
    /\ SavesUpdates => d.output = NoFile /\ ZeroRoots(d) /\ ~d.versionsChanged

\* What was read is what the inputs hold.
InputsRead(w, S) ==
    /\ w \in Worlds /\ InputsKept(w) /\ VersRight(w.db)
    /\ \A n \in Names : Known(w.db.cont[n], n)
    /\ StaticSent(w.db, S) /\ OutputClosed(w.db)

\* The containers were read for the current run.
RunRead(d) == \A n \in d.list : OfRun(d.cont[n].in, n, d.current)

\* What the tables name is what was sent.
SentInFile(f, S) ==
    \A u \in S : \E v \in Nat : /\ v = f[Output].run[u.run][u.name]
                                /\ v <= Len(f[Output].cycles[u.name])
                                /\ v > 0 => f[Output].cycles[u.name][v] = u.value

\* A processor has the value of its run, or one that was sent.
Own(p, n) ==
    \/ proc[p].params[n] = Parameter(proc[p].run, n)
    \/ \E u \in saved : u.name = n /\ proc[p].params[n] = u.value

ProcessorsRight ==
    /\ proc \in [TaskProcessors -> [pc : {"ready", "asks"}, run : RunIds \cup {NoRun},
                                at : 1 .. Len(NameOrder), messages : Nat,
                                params : [Names -> Values \cup {NoValue}]]]
    /\ \A p \in TaskProcessors :
         /\ proc[p].pc = "ready" /\ proc[p].run # NoRun => \A n \in Names : Own(p, n)
         /\ proc[p].pc = "asks" => /\ proc[p].run # NoRun
                                   /\ \A i \in 1 .. proc[p].at - 1 : Own(p, NameOrder[i])

Reported == {d \in Devices : dev[d].pc # "reports"}

DevicesRight ==
    /\ dev \in [Devices -> [pc : {"reports", "sends", "done"}, run : RunIds \cup {NoRun},
                            number : Int, at : 1 .. Len(NameOrder) + 1]]
    /\ nofDevices = Cardinality(Reported)
    /\ \A d \in Devices : dev[d].pc = "sends" => dev[d].run = NewRunId /\ SavesUpdates
    /\ \A d \in Devices : dev[d].pc # "done" => dev[d].at <= Len(NameOrder)

SavedRight ==
    /\ saved \subseteq Sent /\ \A u \in saved : u.run = NewRunId
    /\ saved # {} => SavesUpdates
    /\ SentInFile(file, saved)

ServerInv ==
    /\ topology \in Topologies /\ world \in Worlds
    /\ running => InputsRead(world, saved) /\ RunRead(db)
    /\ ProcessorsRight /\ DevicesRight /\ SavedRight

-----------------------------------------------------------------------------
(* The methods keep the invariant. *)

LEMMA AddRead ==
    ASSUME NEW w, NEW S, InputsRead(w, S), RunRead(w.db), NEW n \in Names
    PROVE \A v : v = [w EXCEPT !.db = AddContainer(@, n, NewContainer)] =>
             /\ InputsRead(v, S) /\ RunRead(v.db)
             /\ n \in v.db.list /\ v.file = w.file
<1>1. PICK d : d = w.db OBVIOUS
<1>2. d \in Dbs /\ w \in Worlds BY <1>1 DEF InputsRead, Worlds
<1>3. PICK e : e = AddContainer(d, n, NewContainer) OBVIOUS
<1>4. PICK C : C = [d.cont EXCEPT ![n] = IF n \in d.list THEN d.cont[n] ELSE NewContainer] OBVIOUS
<1>5. e \in Dbs /\ e = [d EXCEPT !.list = d.list \cup {n}, !.cont = C]
  <2>1. /\ AddContainer(d, n, NewContainer) \in Dbs
        /\ AddContainer(d, n, NewContainer) = [d EXCEPT !.list = d.list \cup {n},
              !.cont = [d.cont EXCEPT ![n] = IF n \in d.list THEN d.cont[n] ELSE NewContainer]]
    BY <1>2, NewContainerType, AddContainerIs
  <2> QED BY <1>3, <1>4, <2>1
<1>6. /\ e.list = d.list \cup {n} /\ e.cont = C /\ e.vers = d.vers /\ e.current = d.current
      /\ e.input = d.input /\ e.output = d.output /\ e.versionsChanged = d.versionsChanged
  BY <1>2, <1>5 DEF Dbs
<1>7. \A m \in Names : C[m] = IF m = n /\ n \notin d.list THEN NewContainer ELSE d.cont[m]
  BY <1>2, <1>4 DEF Dbs
<1>8. PICK v : v = [w EXCEPT !.db = e] OBVIOUS
<1>9. v \in Worlds /\ v.db = e /\ v.file = w.file BY <1>2, <1>5, <1>8 DEF Worlds
<1>10. d.list \subseteq Names BY <1>2 DEF Dbs
<1>11. InputsKept(v) BY <1>1, <1>6, <1>9 DEF InputsRead, InputsKept
<1>12. VersRight(e) BY <1>1, <1>6 DEF InputsRead, VersRight
<1>13. NewContainer.in = Unread /\ ~NewContainer.static BY DEF NewContainer
<1>14. \A k \in 1 .. 2 : ~(Unread[k] > 0) BY UnreadType
<1>15. Known(NewContainer, n) /\ OfRun(NewContainer.in, n, e.current)
  BY <1>13, <1>14 DEF Known, KnownAt, OfRun, OfRunAt
<1>16. \A m \in Names : Known(e.cont[m], m) BY <1>1, <1>6, <1>7, <1>15 DEF InputsRead
<1>17. StaticSent(e, S)
  <2>1. StaticSent(d, S) BY <1>1 DEF InputsRead
  <2>2. ASSUME NEW m \in e.list, e.cont[m].static
        PROVE e.cont[m].in = Unread /\ \E u \in S : u.name = m /\ u.value = e.cont[m].value
    <3>1. m \in Names BY <1>6, <1>10
    <3>2. e.cont[m] = d.cont[m] /\ m \in d.list BY <1>6, <1>7, <1>13, <2>2, <3>1
    <3> QED BY <2>1, <2>2, <3>2 DEF StaticSent
  <2>3. ASSUME NEW u \in S
        PROVE u.name \in e.list /\ e.cont[u.name].static /\ ~e.cont[u.name].changed
              /\ e.cont[u.name].value = u.value
    <3>1. u.name \in d.list BY <2>1 DEF StaticSent
    <3>2. e.cont[u.name] = d.cont[u.name] /\ u.name \in e.list BY <1>6, <1>7, <1>10, <3>1
    <3> QED BY <2>1, <3>2 DEF StaticSent
  <2> QED BY <2>2, <2>3 DEF StaticSent
<1>18. OutputClosed(e) BY <1>1, <1>6 DEF InputsRead, OutputClosed, ZeroRoots
<1>19. RunRead(e)
  <2>1. ASSUME NEW m \in e.list PROVE OfRun(e.cont[m].in, m, e.current)
    <3>1. m \in Names BY <1>6, <1>10
    <3>2. CASE m = n /\ n \notin d.list BY <1>6, <1>7, <1>15, <3>1, <3>2
    <3>3. CASE ~(m = n /\ n \notin d.list)
      <4>1. m \in d.list /\ e.cont[m] = d.cont[m] BY <1>6, <1>7, <3>1, <3>3
      <4> QED BY <1>1, <1>6, <4>1 DEF RunRead
    <3> QED BY <3>2, <3>3
  <2> QED BY <2>1 DEF RunRead
<1>20. InputsRead(v, S) BY <1>9, <1>11, <1>12, <1>16, <1>17, <1>18 DEF InputsRead
<1> QED BY <1>1, <1>3, <1>6, <1>8, <1>9, <1>19, <1>20

LEMMA EnterRead ==
    ASSUME OutputApart, topology \in Topologies, NEW w, NEW S, InputsRead(w, S), RunRead(w.db), NEW r \in RunIds
    PROVE \A v : v = EnterRun(w, r) =>
             /\ InputsRead(v, S) /\ v.db.current = r /\ HasRun(v.db, r) /\ v.db.list = w.db.list
             /\ SavesUpdates => \A f \in RootFiles : v.file[f] = w.file[f]
<1>1. PICK v : v = EnterRun(w, r) OBVIOUS
<1>2. w \in Worlds /\ w.db \in Dbs BY DEF InputsRead, Worlds
<1>3. Entered(w, r, v) BY <1>1, <1>2, EnterRunIs
<1>4. PICK d, e : d = w.db /\ e = v.db OBVIOUS
<1>5. /\ v \in Worlds /\ e.list = d.list /\ e.current = r /\ HasRun(e, r)
      /\ e.input = d.input /\ e.output = d.output /\ SameContents(d, e)
      /\ \A n \in Names : e.cont[n].changed => d.cont[n].changed
      /\ \A q \in RunIds, n \in Names :
           \/ e.vers[q][n].in = d.vers[q][n].in
           \/ q = d.current /\ n \in d.list /\ e.vers[q][n].in = d.cont[n].in
      /\ d.output = NoFile => /\ e.versionsChanged = d.versionsChanged
                              /\ ZeroRoots(d) => ZeroRoots(e)
      /\ \A f \in RootFiles \ {d.output} : v.file[f] = w.file[f]
  BY <1>3, <1>4 DEF Entered
<1>6. /\ InputsKept(w) /\ VersRight(d) /\ \A n \in Names : Known(d.cont[n], n)
      /\ StaticSent(d, S) /\ OutputClosed(d) /\ RunRead(d)
  BY <1>4 DEF InputsRead
<1>7. InputsKept(v)
  <2>1. ASSUME NEW k \in 1 .. 2, IsRoot(k) PROVE v.file[Inputs[k]] = Stocked[Inputs[k]]
    <3>1. Inputs[k] \in RootFiles BY <2>1 DEF IsRoot
    <3>2. Inputs[k] # d.output BY <1>6, <3>1, FileAssumption DEF OutputClosed, OutputApart, Inputs
    <3> QED BY <1>5, <1>6, <2>1, <3>1, <3>2 DEF InputsKept
  <2> QED BY <1>4, <1>5, <1>6, <2>1 DEF InputsKept
<1>8. VersRight(e)
  <2>1. ASSUME NEW q \in RunIds, NEW n \in Names PROVE OfRun(e.vers[q][n].in, n, q)
    <3>1. CASE e.vers[q][n].in = d.vers[q][n].in BY <1>6, <3>1 DEF VersRight
    <3>2. CASE q = d.current /\ n \in d.list /\ e.vers[q][n].in = d.cont[n].in
      BY <1>6, <3>2 DEF RunRead
    <3> QED BY <1>5, <3>1, <3>2
  <2> QED BY <2>1 DEF VersRight
<1>9. \A n \in Names : Known(e.cont[n], n) BY <1>5, <1>6 DEF SameContents, Known, KnownAt
<1>10. d.list \subseteq Names BY <1>2, <1>4 DEF Dbs
<1>11. StaticSent(e, S)
  <2>1. \A n \in d.list : /\ e.cont[n].value = d.cont[n].value
                          /\ e.cont[n].in = d.cont[n].in
                          /\ e.cont[n].static = d.cont[n].static
                          /\ e.cont[n].changed => d.cont[n].changed
    BY <1>5, <1>10 DEF SameContents
  <2> QED BY <1>5, <1>6, <2>1 DEF StaticSent
<1>12. OutputClosed(e) BY <1>5, <1>6 DEF OutputClosed
<1>13. SavesUpdates => \A f \in RootFiles : v.file[f] = w.file[f]
  <2>1. SavesUpdates => \A f \in RootFiles : f # d.output BY <1>6, FileAssumption DEF OutputClosed
  <2> QED BY <1>5, <2>1
<1>14. InputsRead(v, S) BY <1>4, <1>5, <1>7, <1>8, <1>9, <1>11, <1>12 DEF InputsRead
<1> QED BY <1>1, <1>4, <1>5, <1>13, <1>14

LEMMA ReadRead ==
    ASSUME topology \in Topologies, NEW w, NEW S, InputsRead(w, S), w.db.current \in RunIds
    PROVE \A v : v = ReadContainers(w) =>
             /\ InputsRead(v, S) /\ RunRead(v.db) /\ v.file = w.file /\ ReadAll(w, v)
<1>1. PICK v : v = ReadContainers(w) OBVIOUS
<1>2. w \in Worlds /\ InputsKept(w) /\ VersRight(w.db) /\ \A n \in Names : Known(w.db.cont[n], n)
  BY DEF InputsRead
<1>3. ReadAll(w, v) BY <1>1, <1>2, ReadContainersIs
<1>4. PICK d, e : d = w.db /\ e = v.db OBVIOUS
<1>5. /\ v \in Worlds /\ v.file = w.file /\ e.vers = d.vers /\ e.versionsChanged = d.versionsChanged
      /\ e.list = d.list /\ e.current = d.current /\ e.input = d.input /\ e.output = d.output
      /\ \A n \in Names : n \notin d.list \/ d.cont[n].static => e.cont[n] = d.cont[n]
      /\ \A n \in d.list : ~d.cont[n].static =>
            /\ ~e.cont[n].static /\ Known(e.cont[n], n) /\ OfRun(e.cont[n].in, n, d.current)
  BY <1>3, <1>4 DEF ReadAll, SamePlace
<1>6. d \in Dbs BY <1>2, <1>4 DEF Worlds
<1>7. d.list \subseteq Names BY <1>6 DEF Dbs
<1>8. StaticSent(d, S) /\ OutputClosed(d) BY <1>4 DEF InputsRead
<1>9. InputsKept(v) BY <1>2, <1>4, <1>5 DEF InputsKept
<1>10. VersRight(e) BY <1>2, <1>4, <1>5 DEF VersRight
<1>11. \A n \in Names : Known(e.cont[n], n) BY <1>2, <1>4, <1>5
<1>12. StaticSent(e, S)
  <2>1. ASSUME NEW n \in e.list, e.cont[n].static
        PROVE e.cont[n] = d.cont[n] /\ n \in d.list
    BY <1>5, <1>7, <2>1
  <2>2. ASSUME NEW u \in S PROVE u.name \in d.list /\ e.cont[u.name] = d.cont[u.name]
    <3>1. u.name \in d.list /\ d.cont[u.name].static BY <1>8 DEF StaticSent
    <3> QED BY <1>5, <1>7, <3>1
  <2> QED BY <1>5, <1>8, <2>1, <2>2 DEF StaticSent
<1>13. OutputClosed(e) BY <1>5, <1>8 DEF OutputClosed, ZeroRoots
<1>14. RunRead(e)
  <2>1. ASSUME NEW n \in e.list PROVE OfRun(e.cont[n].in, n, e.current)
    <3>1. CASE d.cont[n].static
      <4>1. e.cont[n].in = Unread BY <1>5, <1>7, <1>8, <3>1 DEF StaticSent
      <4>2. \A k \in 1 .. 2 : ~(Unread[k] > 0) BY UnreadType
      <4> QED BY <4>1, <4>2 DEF OfRun, OfRunAt
    <3>2. CASE ~d.cont[n].static BY <1>5, <3>2
    <3> QED BY <3>1, <3>2
  <2> QED BY <2>1 DEF RunRead
<1>15. InputsRead(v, S) BY <1>4, <1>5, <1>9, <1>10, <1>11, <1>12, <1>13 DEF InputsRead
<1> QED BY <1>1, <1>3, <1>4, <1>5, <1>14, <1>15

-----------------------------------------------------------------------------
(* An update. *)

LEMMA ResetIs ==
    ASSUME NEW d \in Dbs
    PROVE \A e : e = ResetOutputVersions(d) =>
             /\ e \in Dbs /\ SamePlace(d, e) /\ e.cont = d.cont
             /\ e.versionsChanged = d.versionsChanged /\ ZeroRoots(e)
             /\ \A r \in RunIds, n \in Names : e.vers[r][n].in = d.vers[r][n].in
<1>1. PICK V : V = [r \in RunIds |-> [n \in Names |-> [d.vers[r][n] EXCEPT !.root = 0]]] OBVIOUS
<1>2. ASSUME NEW r \in RunIds, NEW n \in Names
      PROVE V[r][n] \in Versions /\ V[r][n].root = 0 /\ V[r][n].in = d.vers[r][n].in
  <2>1. d.vers[r][n] \in Versions BY DEF Dbs
  <2>2. V[r][n] = [d.vers[r][n] EXCEPT !.root = 0] BY <1>1
  <2> QED BY <2>1, <2>2 DEF Versions
<1>3. V \in [RunIds -> [Names -> Versions]] BY <1>1, <1>2
<1>4. PICK e : e = ResetOutputVersions(d) OBVIOUS
<1>5. e = [d EXCEPT !.vers = V] BY <1>1, <1>4 DEF ResetOutputVersions
<1>6. /\ e \in Dbs /\ SamePlace(d, e) /\ e.cont = d.cont /\ e.vers = V
      /\ e.versionsChanged = d.versionsChanged
  BY <1>3, <1>5 DEF Dbs, SamePlace
<1> QED BY <1>2, <1>4, <1>6 DEF ZeroRoots

\* What SetOutput makes of a data base.
OutputSet(d, f, e) ==
    /\ e \in Dbs /\ e.list = d.list /\ e.runs = d.runs /\ e.current = d.current
    /\ e.input = d.input /\ e.output = f /\ OutputOpen(e) /\ e.cont = d.cont
    /\ e.versionsChanged = d.versionsChanged /\ ZeroRoots(e)
    /\ \A r \in RunIds, n \in Names : e.vers[r][n].in = d.vers[r][n].in

LEMMA SetOutputIs ==
    ASSUME NEW d \in Dbs, NEW f \in RootFiles PROVE OutputSet(d, f, SetOutput(d, f))
<1>1. PICK b : b = [d EXCEPT !.output = f, !.open = @ \cup {f}] OBVIOUS
<1>2. /\ b \in Dbs /\ b.list = d.list /\ b.runs = d.runs /\ b.current = d.current
      /\ b.input = d.input /\ b.output = f /\ f \in b.open /\ b.cont = d.cont
      /\ b.versionsChanged = d.versionsChanged /\ b.vers = d.vers
  BY <1>1 DEF Dbs, FileNames
<1>3. PICK e : e = SetOutput(d, f) OBVIOUS
<1>4. e = ResetOutputVersions(b) BY <1>1, <1>3 DEF SetOutput
<1>5. /\ e \in Dbs /\ SamePlace(b, e) /\ e.cont = b.cont
      /\ e.versionsChanged = b.versionsChanged /\ ZeroRoots(e)
      /\ \A r \in RunIds, n \in Names : e.vers[r][n].in = b.vers[r][n].in
  BY <1>2, <1>4, ResetIs
<1>6. OutputOpen(e) BY <1>2, <1>5, FileAssumption DEF SamePlace, OutputOpen
<1>7. OutputSet(d, f, e) BY <1>2, <1>5, <1>6 DEF SamePlace, OutputSet
<1> QED BY <1>3, <1>7

\* What writeVersions makes of a world w.
WroteVersions(w, v) ==
    /\ v \in Worlds
    /\ SamePlace(w.db, v.db) /\ v.db.cont = w.db.cont /\ v.db.vers = w.db.vers
    /\ OutputOpen(w.db) => ~v.db.versionsChanged
    /\ ~TableWritten(w.db) => v = w
    /\ \A f \in RootFiles \ {w.db.output} : v.file[f] = w.file[f]
    /\ \A f \in RootFiles : v.file[f].cycles = w.file[f].cycles
    /\ TableWritten(w.db) =>
         \A r \in RunIds : HasRun(w.db, r) =>
            \A n \in Names : v.file[w.db.output].run[r][n] =
                                IF n \in w.db.list THEN w.db.vers[r][n].root ELSE 0

LEMMA WriteVersionsIs ==
    ASSUME NEW w \in Worlds
    PROVE WroteVersions(w, WriteVersions(w))
<1>1. PICK d, v : d = w.db /\ v = WriteVersions(w) OBVIOUS
<1>2. d \in Dbs /\ w.file \in ParFiles BY <1>1 DEF Worlds
<1>3. CASE ~TableWritten(d)
  <2>1. v = w BY <1>1, <1>3 DEF WriteVersions
  <2>2. OutputOpen(d) => ~d.versionsChanged BY <1>3 DEF TableWritten
  <2> QED BY <1>1, <1>3, <2>1, <2>2 DEF WroteVersions, SamePlace
<1>4. CASE TableWritten(d)
  <2>1. d.output \in RootFiles BY <1>2, <1>4 DEF TableWritten, OutputOpen, Dbs
  <2>2. PICK o, g : o = d.output /\ g = w.file[o] OBVIOUS
  <2>3. g \in [cycles : [Names -> Seq(Values \cup {NoValue})], run : [RunIds -> [Names -> Nat]]]
    BY <1>2, <2>1, <2>2 DEF ParFiles
  <2>4. PICK R : R = [r \in RunIds |-> IF HasRun(d, r) THEN Table(d, r) ELSE g.run[r]] OBVIOUS
  <2>5. R \in [RunIds -> [Names -> Nat]]
    <3>1. ASSUME NEW r \in RunIds PROVE Table(d, r) \in [Names -> Nat]
      <4>1. ASSUME NEW n \in Names PROVE d.vers[r][n].root \in Nat
        <5>1. d.vers[r][n] \in Versions BY <1>2 DEF Dbs
        <5> QED BY <5>1 DEF Versions
      <4> QED BY <4>1 DEF Table
    <3> QED BY <2>3, <2>4, <3>1
  <2>6. PICK F : F = [w.file EXCEPT ![o] = [g EXCEPT !.run = R]] OBVIOUS
  <2>7. PICK e : e = [d EXCEPT !.versionsChanged = FALSE] OBVIOUS
  <2>8. v = [db |-> e, file |-> F]
    BY <1>1, <1>4, <2>2, <2>4, <2>6, <2>7 DEF WriteVersions
  <2>9. PICK h : h = [g EXCEPT !.run = R] OBVIOUS
  <2>10. /\ h \in [cycles : [Names -> Seq(Values \cup {NoValue})], run : [RunIds -> [Names -> Nat]]]
         /\ h.cycles = g.cycles /\ h.run = R
    BY <2>3, <2>5, <2>9
  <2>11. /\ F \in ParFiles /\ F[o] = h /\ \A f \in RootFiles \ {o} : F[f] = w.file[f]
    BY <1>2, <2>1, <2>2, <2>6, <2>9, <2>10 DEF ParFiles
  <2>12. /\ e \in Dbs /\ SamePlace(d, e) /\ e.cont = d.cont /\ e.vers = d.vers
         /\ ~e.versionsChanged
    BY <1>2, <2>7 DEF Dbs, SamePlace
  <2>13. v \in Worlds /\ v.db = e /\ v.file = F BY <2>8, <2>11, <2>12 DEF Worlds
  <2>14. \A f \in RootFiles : F[f].cycles = w.file[f].cycles BY <2>2, <2>10, <2>11
  <2>15. ASSUME NEW r \in RunIds, HasRun(d, r), NEW n \in Names
         PROVE F[o].run[r][n] = IF n \in d.list THEN d.vers[r][n].root ELSE 0
    BY <2>4, <2>10, <2>11, <2>15 DEF Table
  <2> QED BY <1>1, <1>4, <2>2, <2>11, <2>12, <2>13, <2>14, <2>15 DEF WroteVersions
<1> QED BY <1>3, <1>4

\* What saveOutput makes of a world w with an open output.
Saved(w, v) ==
    /\ v \in Worlds /\ SamePlace(w.db, v.db) /\ SameContents(w.db, v.db) /\ VersionsKept(w.db, v.db)
    /\ \A n \in w.db.list : ~v.db.cont[n].changed
    /\ ~v.db.versionsChanged
    /\ \A f \in RootFiles \ {w.db.output} : v.file[f] = w.file[f]
    /\ \A n \in Names :
         v.file[w.db.output].cycles[n] = IF n \in Writes(w.db)
                                         THEN Append(w.file[w.db.output].cycles[n], w.db.cont[n].value)
                                         ELSE w.file[w.db.output].cycles[n]
    /\ ~w.db.versionsChanged /\ Writes(w.db) = {} =>
         v.file[w.db.output].run = w.file[w.db.output].run
    /\ ZeroRoots(w.db) /\ Apart(w.db) /\ Writes(w.db) # {} =>
         \A r \in RunIds : HasRun(w.db, r) =>
            \A n \in Names :
               v.file[w.db.output].run[r][n] = IF r = w.db.current /\ n \in Writes(w.db)
                                               THEN Len(w.file[w.db.output].cycles[n]) + 1 ELSE 0

LEMMA SaveOutputIs ==
    ASSUME NEW w \in Worlds, w.db.current \in RunIds, OutputOpen(w.db)
    PROVE Saved(w, SaveOutput(w))
<1>1. PICK l, v : l = WriteContainers(w) /\ v = WriteVersions(l) OBVIOUS
<1>2. Wrote(w, l) BY <1>1, WriteContainersIs
<1>3. l \in Worlds BY <1>2 DEF Wrote
<1>4. WroteVersions(l, v) BY <1>1, <1>3, WriteVersionsIs
<1>5. SaveOutput(w) = v BY <1>1 DEF SaveOutput
<1>6. PICK o : o = w.db.output OBVIOUS
<1>7. o \in RootFiles BY <1>6 DEF OutputOpen, Worlds, Dbs
<1>8. SamePlace(w.db, l.db) /\ SamePlace(l.db, v.db) BY <1>2, <1>4 DEF Wrote, WroteVersions
<1>9. SamePlace(w.db, v.db) /\ l.db.output = o /\ l.db.list = w.db.list /\ OutputOpen(l.db)
  BY <1>6, <1>8 DEF SamePlace, OutputOpen
<1>10. v.db.cont = l.db.cont /\ v.db.vers = l.db.vers BY <1>4 DEF WroteVersions
<1>11. SameContents(w.db, v.db) BY <1>2, <1>10 DEF Wrote, SameContents
<1>12. VersionsKept(w.db, v.db) BY <1>2, <1>10 DEF Wrote, VersionsKept
<1>13. w.db.list \subseteq Names BY DEF Worlds, Dbs
<1>14. \A n \in w.db.list : ~v.db.cont[n].changed BY <1>2, <1>10, <1>13 DEF Wrote
<1>15. ~v.db.versionsChanged /\ v \in Worlds BY <1>4, <1>9 DEF WroteVersions
<1>16. \A f \in RootFiles \ {o} : v.file[f] = w.file[f]
  <2>1. \A f \in RootFiles \ {o} : l.file[f] = w.file[f] BY <1>2, <1>6 DEF Wrote
  <2>2. \A f \in RootFiles \ {o} : v.file[f] = l.file[f] BY <1>4, <1>9 DEF WroteVersions
  <2> QED BY <2>1, <2>2
<1>17. \A n \in Names : v.file[o].cycles[n] = IF n \in Writes(w.db)
                                              THEN Append(w.file[o].cycles[n], w.db.cont[n].value)
                                              ELSE w.file[o].cycles[n]
  <2>1. v.file[o].cycles = l.file[o].cycles BY <1>4, <1>7 DEF WroteVersions
  <2>2. \A n \in Names : l.file[o].cycles[n] = IF n \in Writes(w.db)
                                               THEN Append(w.file[o].cycles[n], w.db.cont[n].value)
                                               ELSE w.file[o].cycles[n]
    BY <1>2, <1>6, <1>7 DEF Wrote
  <2> QED BY <2>1, <2>2
<1>18. l.db.versionsChanged = (w.db.versionsChanged \/ Writes(w.db) # {}) BY <1>2 DEF Wrote
<1>19. ASSUME ~w.db.versionsChanged, Writes(w.db) = {} PROVE v.file[o].run = w.file[o].run
  <2>1. ~TableWritten(l.db) BY <1>18, <1>19 DEF TableWritten
  <2>2. v = l BY <1>4, <2>1 DEF WroteVersions
  <2> QED BY <1>2, <1>7, <2>2 DEF Wrote
<1>20. ASSUME ZeroRoots(w.db), Apart(w.db), Writes(w.db) # {}, NEW r \in RunIds, HasRun(w.db, r), NEW n \in Names
       PROVE v.file[o].run[r][n] = IF r = w.db.current /\ n \in Writes(w.db)
                                   THEN Len(w.file[o].cycles[n]) + 1 ELSE 0
  <2>1. TableWritten(l.db) BY <1>9, <1>18, <1>20 DEF TableWritten
  <2>2. HasRun(l.db, r) BY <1>8, <1>20 DEF SamePlace, HasRun
  <2>3. v.file[o].run[r][n] = IF n \in w.db.list THEN l.db.vers[r][n].root ELSE 0
    BY <1>4, <1>9, <2>1, <2>2 DEF WroteVersions
  <2>4. l.db.vers[r][n].root = IF r = w.db.current /\ n \in Writes(w.db)
                               THEN Len(w.file[o].cycles[n]) + 1 ELSE 0
    BY <1>2, <1>6, <1>20 DEF Wrote
  <2>5. Writes(w.db) \subseteq w.db.list BY DEF Writes
  <2> QED BY <2>3, <2>4, <2>5
<1> QED BY <1>5, <1>6, <1>9, <1>11, <1>12, <1>14, <1>15, <1>16, <1>17, <1>19, <1>20 DEF Saved

LEMMA SaveTyped == ASSUME NEW w \in Worlds PROVE SaveOutput(w) \in Worlds
<1>1. WriteContainers(w) \in Worlds
  <2>1. CASE w.db.current = NoRun BY <2>1 DEF WriteContainers
  <2>2. CASE w.db.current # NoRun
    <3>1. w.db.current \in RunIds BY <2>2 DEF Worlds, Dbs
    <3> QED BY <3>1, WriteContainersIs DEF Wrote
  <2> QED BY <2>1, <2>2
<1> QED BY <1>1, WriteVersionsIs DEF SaveOutput, WroteVersions

\* What closeOutput leaves of what was saved.
LEMMA CloseIs ==
    ASSUME NEW w \in Worlds, w.db.output # NoFile
    PROVE \A s, v : s = SaveOutput(w) /\ v = CloseOutput(w) =>
             /\ s \in Worlds /\ v \in Worlds /\ v.file = s.file
             /\ v.db.list = s.db.list /\ v.db.current = s.db.current /\ v.db.input = s.db.input
             /\ v.db.output = NoFile /\ v.db.cont = s.db.cont
             /\ v.db.versionsChanged = s.db.versionsChanged /\ ZeroRoots(v.db)
             /\ \A r \in RunIds, n \in Names : v.db.vers[r][n].in = s.db.vers[r][n].in
<1>1. PICK s, v : s = SaveOutput(w) /\ v = CloseOutput(w) OBVIOUS
<1>2. s \in Worlds BY <1>1, SaveTyped
<1>3. PICK d, e : d = s.db /\ e = ResetOutputVersions(d) OBVIOUS
<1>4. d \in Dbs BY <1>2, <1>3 DEF Worlds
<1>5. /\ e \in Dbs /\ SamePlace(d, e) /\ e.cont = d.cont
      /\ e.versionsChanged = d.versionsChanged /\ ZeroRoots(e)
      /\ \A r \in RunIds, n \in Names : e.vers[r][n].in = d.vers[r][n].in
  BY <1>3, <1>4, ResetIs
<1>6. PICK g : g = [e EXCEPT !.output = NoFile, !.open = @ \ {w.db.output}] OBVIOUS
<1>7. /\ g \in Dbs /\ g.list = e.list /\ g.current = e.current /\ g.input = e.input
      /\ g.output = NoFile /\ g.cont = e.cont /\ g.versionsChanged = e.versionsChanged /\ g.vers = e.vers
  BY <1>5, <1>6 DEF Dbs
<1>8. v = [s EXCEPT !.db = g] BY <1>1, <1>3, <1>6 DEF CloseOutput
<1>9. v \in Worlds /\ v.db = g /\ v.file = s.file BY <1>2, <1>7, <1>8 DEF Worlds
<1>10. ZeroRoots(g) BY <1>5, <1>7 DEF ZeroRoots
<1> QED BY <1>1, <1>2, <1>3, <1>5, <1>7, <1>9, <1>10 DEF SamePlace

\* The data base that has got a container with an update and has its output open.
Opened(w, n, v, u) ==
    /\ u \in Worlds /\ u.file = w.file
    /\ u.db.list = w.db.list \cup {n} /\ u.db.runs = w.db.runs /\ u.db.current = w.db.current
    /\ u.db.input = w.db.input /\ u.db.output = Output /\ OutputOpen(u.db)
    /\ u.db.versionsChanged = w.db.versionsChanged /\ ZeroRoots(u.db)
    /\ \A r \in RunIds, m \in Names : u.db.vers[r][m].in = w.db.vers[r][m].in
    /\ \A m \in Names : m # n \/ n \in w.db.list => u.db.cont[m] = w.db.cont[m]
    /\ n \notin w.db.list => /\ u.db.cont[n].value = v /\ u.db.cont[n].in = Unread
                             /\ u.db.cont[n].static /\ u.db.cont[n].changed

LEMMA OpenIs ==
    ASSUME NEW w \in Worlds, NEW n \in Names, NEW v \in Values, Output \in RootFiles
    PROVE Opened(w, n, v, OpenForUpdate(w, n, v))
<1>1. PICK d, c : d = w.db /\ c = [NewContainer EXCEPT !.value = v, !.changed = TRUE, !.static = TRUE] OBVIOUS
<1>2. /\ c \in Containers /\ c.value = v /\ c.in = Unread /\ c.static /\ c.changed
  BY <1>1, NewContainerType DEF Containers, NewContainer
<1>3. d \in Dbs BY <1>1 DEF Worlds
<1>4. PICK b : b = AddContainer(d, n, c) OBVIOUS
<1>5. PICK C : C = [d.cont EXCEPT ![n] = IF n \in d.list THEN d.cont[n] ELSE c] OBVIOUS
<1>6. b \in Dbs /\ b = [d EXCEPT !.list = d.list \cup {n}, !.cont = C]
  <2>1. /\ AddContainer(d, n, c) \in Dbs
        /\ AddContainer(d, n, c) = [d EXCEPT !.list = d.list \cup {n},
              !.cont = [d.cont EXCEPT ![n] = IF n \in d.list THEN d.cont[n] ELSE c]]
    BY <1>2, <1>3, AddContainerIs
  <2> QED BY <1>4, <1>5, <2>1
<1>7. /\ b.list = d.list \cup {n} /\ b.cont = C /\ b.vers = d.vers /\ b.current = d.current
      /\ b.runs = d.runs /\ b.input = d.input /\ b.versionsChanged = d.versionsChanged
  BY <1>3, <1>6 DEF Dbs
<1>8. \A m \in Names : C[m] = IF m = n /\ n \notin d.list THEN c ELSE d.cont[m]
  BY <1>3, <1>5 DEF Dbs
<1>9. PICK e : e = SetOutput(b, Output) OBVIOUS
<1>10. /\ e \in Dbs /\ e.list = b.list /\ e.runs = b.runs /\ e.current = b.current
       /\ e.input = b.input /\ e.output = Output /\ OutputOpen(e) /\ e.cont = b.cont
       /\ e.versionsChanged = b.versionsChanged /\ ZeroRoots(e)
       /\ \A r \in RunIds, m \in Names : e.vers[r][m].in = b.vers[r][m].in
  <2>1. OutputSet(b, Output, SetOutput(b, Output)) BY <1>6, SetOutputIs
  <2> QED BY <1>9, <2>1 DEF OutputSet
<1>11. PICK u : u = OpenForUpdate(w, n, v) OBVIOUS
<1>12. u = [w EXCEPT !.db = e] BY <1>1, <1>4, <1>9, <1>11 DEF OpenForUpdate
<1>13. u \in Worlds /\ u.db = e /\ u.file = w.file BY <1>10, <1>12 DEF Worlds
<1>14. \A m \in Names : m # n \/ n \in d.list => e.cont[m] = d.cont[m] BY <1>7, <1>8, <1>10
<1>15. n \notin d.list => e.cont[n] = c BY <1>7, <1>8, <1>10
<1>16. /\ e.list = d.list \cup {n} /\ e.runs = d.runs /\ e.current = d.current
       /\ e.input = d.input /\ e.output = Output /\ OutputOpen(e)
       /\ e.versionsChanged = d.versionsChanged /\ ZeroRoots(e)
       /\ \A r \in RunIds, m \in Names : e.vers[r][m].in = d.vers[r][m].in
  BY <1>7, <1>10
<1>17. Opened(w, n, v, u) BY <1>1, <1>2, <1>13, <1>14, <1>15, <1>16 DEF Opened
<1> QED BY <1>11, <1>17

\* The updates that were saved, with this one.
SavedWith(d, n, v, S) == IF n \in d.list THEN S ELSE S \cup {[run |-> NewRunId, name |-> n, value |-> v]}

LEMMA UpdateRead ==
    ASSUME OutputApart, topology \in Topologies, SavesUpdates, NEW w, NEW S \in SUBSET Sent,
           InputsRead(w, S), RunRead(w.db), w.db.current = NewRunId, HasRun(w.db, NewRunId),
           \A u \in S : u.run = NewRunId, SentInFile(w.file, S), NEW n \in Names, NEW v \in Values
    PROVE \A x, T : /\ x = CloseOutput(SaveOutput(OpenForUpdate(w, n, v)))
                    /\ T = SavedWith(w.db, n, v, S)
             => /\ InputsRead(x, T) /\ RunRead(x.db) /\ SentInFile(x.file, T)
                /\ T \subseteq Sent /\ \A u \in T : u.run = NewRunId
<1> DEFINE R == NewRunId
<1>1. R \in RunIds BY ServerAssumption DEF NewRunId
<1>2. Output \in RootFiles /\ Output # NoFile BY SetupTypes, FileAssumption
<1>3. PICK u, s, z, x : /\ u = OpenForUpdate(w, n, v) /\ s = SaveOutput(u)
                        /\ z = SaveOutput(s) /\ x = CloseOutput(s)
  OBVIOUS
<1>4. PICK T : T = SavedWith(w.db, n, v, S) OBVIOUS
<1>5. w \in Worlds /\ w.db \in Dbs BY DEF InputsRead, Worlds
<1>6. Opened(w, n, v, u) BY <1>2, <1>3, <1>5, OpenIs
<1>7. /\ u \in Worlds /\ u.db.current = R /\ OutputOpen(u.db) /\ u.db.output = Output
  BY <1>6 DEF Opened
<1>8. Saved(u, s) BY <1>1, <1>3, <1>7, SaveOutputIs
<1>9. /\ s \in Worlds /\ SamePlace(u.db, s.db) BY <1>8 DEF Saved
<1>10. s.db.current = R /\ OutputOpen(s.db) /\ s.db.output = Output
  BY <1>7, <1>9 DEF SamePlace, OutputOpen
<1>11. Saved(s, z) BY <1>1, <1>3, <1>9, <1>10, SaveOutputIs
<1>12. /\ z \in Worlds /\ x \in Worlds /\ x.file = z.file
       /\ x.db.list = z.db.list /\ x.db.current = z.db.current /\ x.db.input = z.db.input
       /\ x.db.output = NoFile /\ x.db.cont = z.db.cont
       /\ x.db.versionsChanged = z.db.versionsChanged /\ ZeroRoots(x.db)
       /\ \A r \in RunIds, m \in Names : x.db.vers[r][m].in = z.db.vers[r][m].in
  BY <1>2, <1>3, <1>9, <1>10, CloseIs
\* The second time nothing is written.
<1>13. Writes(s.db) = {} /\ ~s.db.versionsChanged
  BY <1>8, <1>9 DEF Saved, SamePlace, Writes, WritesCycle
<1>14. /\ \A f \in RootFiles : f # Output => z.file[f] = s.file[f]
       /\ z.file[Output].run = s.file[Output].run
       /\ \A m \in Names : z.file[Output].cycles[m] = s.file[Output].cycles[m]
  BY <1>10, <1>11, <1>13 DEF Saved
\* The data base.
<1>15. PICK d, g : d = u.db /\ g = x.db OBVIOUS
<1>16. /\ g.list = d.list /\ g.current = R /\ g.input = d.input
  BY <1>7, <1>9, <1>11, <1>12, <1>15, SMTT(30) DEF Saved, SamePlace
<1>17. \A m \in Names : /\ g.cont[m].value = d.cont[m].value /\ g.cont[m].in = d.cont[m].in
                        /\ g.cont[m].static = d.cont[m].static
  BY <1>8, <1>11, <1>12, <1>15 DEF Saved, SameContents
<1>18. \A m \in g.list : ~g.cont[m].changed
  BY <1>9, <1>11, <1>12, <1>15, <1>16 DEF Saved, SamePlace
<1>19. ~g.versionsChanged BY <1>11, <1>12, <1>15 DEF Saved
<1>20. d.list = w.db.list \cup {n} /\ d.list \subseteq Names /\ d.input = w.db.input
  BY <1>5, <1>6, <1>15 DEF Opened, Dbs
<1>21. \A k \in 1 .. 2 : ~(Unread[k] > 0) BY UnreadType
<1>22. /\ \A m \in Names : Known(d.cont[m], m)
       /\ \A m \in d.list : OfRun(d.cont[m].in, m, R)
  <2>1. ASSUME NEW m \in Names PROVE Known(d.cont[m], m) /\ (m \in d.list => OfRun(d.cont[m].in, m, R))
    <3>1. CASE m # n \/ n \in w.db.list
      <4>1. d.cont[m] = w.db.cont[m] /\ (m \in d.list => m \in w.db.list)
        BY <1>6, <1>15, <1>20, <3>1 DEF Opened
      <4> QED BY <4>1 DEF InputsRead, RunRead
    <3>2. CASE m = n /\ n \notin w.db.list
      <4>1. d.cont[m].in = Unread BY <1>6, <1>15, <3>2 DEF Opened
      <4> QED BY <1>21, <4>1 DEF Known, KnownAt, OfRun, OfRunAt
    <3> QED BY <3>1, <3>2
  <2> QED BY <1>20, <2>1
<1>23. RunRead(g) BY <1>16, <1>17, <1>20, <1>22 DEF RunRead
<1>24. VersRight(g)
  <2>1. ASSUME NEW r \in RunIds, NEW m \in Names
        PROVE /\ s.db.vers[r][m].in \in {d.vers[r][m].in} \/ (r = R /\ m \in d.list /\ s.db.vers[r][m].in = d.cont[m].in)
              /\ g.vers[r][m].in = s.db.vers[r][m].in \/ (r = R /\ m \in d.list /\ g.vers[r][m].in = s.db.cont[m].in)
              /\ s.db.cont[m].in = d.cont[m].in
    <3>1. s.db.list = d.list BY <1>9, <1>15 DEF SamePlace
    <3>2. s.db.vers[r][m].in = IF m \notin d.list \/ r # R THEN d.vers[r][m].in ELSE d.cont[m].in
      BY <1>7, <1>8, <1>15 DEF Saved, VersionsKept
    <3>3. z.db.vers[r][m].in = IF m \notin d.list \/ r # R THEN s.db.vers[r][m].in ELSE s.db.cont[m].in
      BY <1>10, <1>11, <3>1 DEF Saved, VersionsKept
    <3>4. s.db.cont[m].in = d.cont[m].in BY <1>8, <1>15 DEF Saved, SameContents
    <3> QED BY <1>12, <1>15, <3>2, <3>3, <3>4
  <2>2. \A r \in RunIds, m \in Names : OfRun(d.vers[r][m].in, m, r)
    BY <1>6, <1>15 DEF Opened, InputsRead, VersRight
  <2>3. ASSUME NEW r \in RunIds, NEW m \in Names PROVE OfRun(g.vers[r][m].in, m, r)
    <3>1. \/ g.vers[r][m].in = d.vers[r][m].in
          \/ r = R /\ m \in d.list /\ g.vers[r][m].in = d.cont[m].in
      BY <2>1
    <3> QED BY <1>22, <2>2, <3>1
  <2> QED BY <2>3 DEF VersRight
<1>25. \A m \in Names : Known(g.cont[m], m) BY <1>17, <1>22 DEF Known, KnownAt
<1>26. StaticSent(g, T)
  <2>1. StaticSent(w.db, S) BY DEF InputsRead
  <2>2. \A m \in w.db.list : m \in Names /\ d.cont[m] = w.db.cont[m] BY <1>5, <1>6, <1>15 DEF Opened, Dbs
  <2>3. ASSUME NEW m \in g.list, g.cont[m].static
        PROVE g.cont[m].in = Unread /\ \E q \in T : q.name = m /\ q.value = g.cont[m].value
    <3>1. m \in Names /\ g.cont[m].in = d.cont[m].in /\ d.cont[m].static /\ g.cont[m].value = d.cont[m].value
      BY <1>16, <1>17, <1>20, <2>3
    <3>2. CASE m \in w.db.list
      <4>1. /\ w.db.cont[m].in = Unread
            /\ \E q \in S : q.name = m /\ q.value = w.db.cont[m].value
        BY <2>1, <2>2, <3>1, <3>2 DEF StaticSent
      <4>2. S \subseteq T BY <1>4 DEF SavedWith
      <4> QED BY <2>2, <3>1, <3>2, <4>1, <4>2
    <3>3. CASE m \notin w.db.list
      <4>1. m = n BY <1>16, <1>20, <3>3
      <4>2. d.cont[m].in = Unread /\ d.cont[m].value = v BY <1>6, <1>15, <3>3, <4>1 DEF Opened
      <4>3. PICK q : q = [run |-> R, name |-> n, value |-> v] OBVIOUS
      <4>4. q \in T /\ q.name = m /\ q.value = v BY <1>4, <3>3, <4>1, <4>3 DEF SavedWith
      <4> QED BY <3>1, <4>2, <4>4
    <3> QED BY <3>2, <3>3
  <2>4. ASSUME NEW q \in T
        PROVE /\ q.name \in g.list /\ g.cont[q.name].static /\ ~g.cont[q.name].changed
              /\ g.cont[q.name].value = q.value
    <3>1. CASE q \in S
      <4>1. q.name \in w.db.list /\ w.db.cont[q.name].static /\ w.db.cont[q.name].value = q.value
        BY <2>1, <3>1 DEF StaticSent
      <4>2. q.name \in g.list BY <1>16, <1>20, <4>1
      <4> QED BY <1>17, <1>18, <2>2, <4>1, <4>2
    <3>2. CASE q \notin S
      <4>1. n \notin w.db.list /\ q = [run |-> R, name |-> n, value |-> v] BY <1>4, <3>2 DEF SavedWith
      <4>2. q.name = n /\ q.value = v BY <4>1
      <4>3. d.cont[n].static /\ d.cont[n].value = v BY <1>6, <1>15, <4>1 DEF Opened
      <4>4. n \in g.list BY <1>16, <1>20
      <4> QED BY <1>17, <1>18, <4>2, <4>3, <4>4
    <3> QED BY <3>1, <3>2
  <2> QED BY <2>3, <2>4 DEF StaticSent
<1>27. OutputClosed(g) BY <1>12, <1>15, <1>19 DEF OutputClosed
<1>28. InputsKept(x)
  <2>1. ASSUME NEW k \in 1 .. 2, IsRoot(k) PROVE x.file[Inputs[k]] = Stocked[Inputs[k]]
    <3>1. Inputs[k] \in RootFiles BY <2>1 DEF IsRoot
    <3>2. Inputs[k] # Output BY <1>2 DEF OutputApart, Inputs
    <3>3. x.file[Inputs[k]] = s.file[Inputs[k]] BY <1>12, <1>14, <3>1, <3>2
    <3>4. s.file[Inputs[k]] = u.file[Inputs[k]] BY <1>7, <1>8, <3>1, <3>2 DEF Saved
    <3> QED BY <1>6, <2>1, <3>3, <3>4 DEF Opened, InputsRead, InputsKept
  <2>2. w.db.input = Inputs BY DEF InputsRead, InputsKept
  <2> QED BY <1>15, <1>16, <1>20, <2>1, <2>2 DEF InputsKept
<1>29. InputsRead(x, T) BY <1>12, <1>15, <1>24, <1>25, <1>26, <1>27, <1>28 DEF InputsRead
<1>30. T \subseteq Sent /\ \A q \in T : q.run = R BY <1>1, <1>4 DEF SavedWith, Sent
\* The file.
<1>31. PICK old, new : old = w.file[Output] /\ new = x.file[Output] OBVIOUS
<1>32. /\ \A m \in Names : new.cycles[m] = IF m \in Writes(d) THEN Append(old.cycles[m], d.cont[m].value)
                                            ELSE old.cycles[m]
       /\ Writes(d) = {} => new.run = old.run
       /\ Writes(d) # {} => \A m \in Names : new.run[R][m] = IF m \in Writes(d) THEN Len(old.cycles[m]) + 1
                                                              ELSE 0
  <2>1. u.file = w.file /\ ~d.versionsChanged /\ ZeroRoots(d) BY <1>6, <1>15 DEF Opened, InputsRead, OutputClosed
  <2>2. Apart(d)
    <3>1. d.input = Inputs /\ d.output = Output BY <1>7, <1>15, <1>20 DEF InputsRead, InputsKept
    <3>2. Inputs[1] # Output BY <1>2 DEF OutputApart, Inputs
    <3> QED BY <3>1, <3>2 DEF Apart
  <2>3. HasRun(d, R) BY <1>6, <1>15 DEF Opened, HasRun
  <2>4. \A m \in Names : s.file[Output].cycles[m] = IF m \in Writes(d)
                                                    THEN Append(u.file[Output].cycles[m], d.cont[m].value)
                                                    ELSE u.file[Output].cycles[m]
    BY <1>7, <1>8, <1>15 DEF Saved
  <2>5. Writes(d) = {} => s.file[Output].run = u.file[Output].run BY <1>7, <1>8, <1>15, <2>1 DEF Saved
  <2>6. Writes(d) # {} => \A m \in Names : s.file[Output].run[R][m] =
                             IF m \in Writes(d) THEN Len(u.file[Output].cycles[m]) + 1 ELSE 0
    BY <1>1, <1>7, <1>8, <1>15, <2>1, <2>2, <2>3 DEF Saved
  <2> QED BY <1>12, <1>14, <1>31, <2>1, <2>4, <2>5, <2>6
<1>33. SentInFile(x.file, T)
  <2>0. old \in [cycles : [Names -> Seq(Values \cup {NoValue})], run : [RunIds -> [Names -> Nat]]]
    BY <1>2, <1>5, <1>31 DEF Worlds, ParFiles
  <2>1. ASSUME NEW q \in T
        PROVE \E i \in Nat : /\ i = new.run[q.run][q.name] /\ i <= Len(new.cycles[q.name])
                             /\ i > 0 => new.cycles[q.name][i] = q.value
    <3>1. q.run = R /\ q.name \in Names BY <1>30 DEF Sent
    <3>2. PICK m : m = q.name OBVIOUS
    <3>3. PICK c : c = old.cycles[m] OBVIOUS
    <3>4. c \in Seq(Values \cup {NoValue}) /\ Len(c) \in Nat BY <2>0, <3>1, <3>2, <3>3
    <3>5. CASE q \in S
      <4>1. m \in w.db.list /\ ~w.db.cont[m].changed BY <3>2, <3>5 DEF InputsRead, StaticSent
      <4>2. d.cont[m] = w.db.cont[m] BY <1>6, <1>15, <3>1, <3>2, <4>1 DEF Opened
      <4>3. m \notin Writes(d) BY <4>1, <4>2 DEF Writes, WritesCycle
      <4>4. new.cycles[m] = c BY <1>32, <3>1, <3>2, <3>3, <4>3
      <4>5. CASE Writes(d) = {}
        <5>1. new.run = old.run BY <1>32, <4>5
        <5>2. \E i \in Nat : i = old.run[q.run][m] /\ i <= Len(c) /\ (i > 0 => c[i] = q.value)
          BY <1>31, <3>2, <3>3, <3>5 DEF SentInFile
        <5>3. PICK i \in Nat : i = old.run[q.run][m] /\ i <= Len(c) /\ (i > 0 => c[i] = q.value) BY <5>2
        <5>4. i = new.run[q.run][q.name] /\ i <= Len(new.cycles[q.name])
          BY <3>2, <4>4, <5>1, <5>3
        <5>5. i > 0 => new.cycles[q.name][i] = q.value BY <3>2, <4>4, <5>3
        <5> QED BY <5>4, <5>5
      <4>6. CASE Writes(d) # {}
        <5>1. new.run[R][m] = 0 BY <1>32, <3>1, <3>2, <4>3, <4>6
        <5> QED BY <3>1, <3>2, <3>4, <4>4, <5>1
      <4> QED BY <4>5, <4>6
    <3>6. CASE q \notin S
      <4>1. n \notin w.db.list /\ q = [run |-> R, name |-> n, value |-> v] BY <1>4, <3>6 DEF SavedWith
      <4>2. m = n /\ q.value = v BY <3>2, <4>1
      <4>3. /\ d.cont[n].value = v /\ d.cont[n].in = Unread /\ d.cont[n].changed /\ n \in d.list
        BY <1>6, <1>15, <4>1, SMTT(30) DEF Opened
      <4>4. FindOutputVersion(d, n) = 0 BY <4>3, Zenon DEF FindOutputVersion
      <4>5. n \in Writes(d) BY <1>7, <1>15, <4>3, <4>4 DEF Writes, WritesCycle
      <4>6. new.cycles[m] = Append(c, v) /\ new.run[R][m] = Len(c) + 1
        BY <1>32, <3>1, <3>2, <3>3, <4>2, <4>3, <4>5
      <4>7. Len(Append(c, v)) = Len(c) + 1 /\ Append(c, v)[Len(c) + 1] = v BY <3>4
      <4> QED BY <3>1, <3>2, <3>4, <4>2, <4>6, <4>7
    <3> QED BY <3>5, <3>6
  <2> QED BY <1>31, <2>1 DEF SentInFile
<1> QED BY <1>3, <1>4, <1>23, <1>15, <1>29, <1>30, <1>33

-----------------------------------------------------------------------------
(* The server starts. *)

\* A data base that holds nothing.
Fresh(d) ==
    /\ d \in Dbs /\ d.list = {} /\ d.current = NoRun /\ ~d.versionsChanged /\ ZeroRoots(d)
    /\ \A n \in Names : d.cont[n].in = Unread /\ ~d.cont[n].static
    /\ \A r \in RunIds, n \in Names : d.vers[r][n].in = Unread

LEMMA NewDbFresh == Fresh(NewDb) /\ NewDb.input \in [1 .. 2 -> FileNames] /\ NewDb.output = NoFile
<1>1. NewDb \in Dbs BY NewDbType
<1>2. NewDb.list = {} /\ NewDb.current = NoRun /\ NewDb.versionsChanged = FALSE /\ NewDb.output = NoFile
  BY DEF NewDb
<1>3. ASSUME NEW r \in RunIds, NEW n \in Names
      PROVE NewDb.vers[r][n].root = 0 /\ NewDb.vers[r][n].in = Unread
  BY DEF NewDb, NewVersion
<1>4. ASSUME NEW n \in Names PROVE NewDb.cont[n].in = Unread /\ ~NewDb.cont[n].static
  BY DEF NewDb, NewContainer
<1>5. NewDb.input \in [1 .. 2 -> FileNames] BY <1>1 DEF Dbs
<1> QED BY <1>1, <1>2, <1>3, <1>4, <1>5 DEF Fresh, ZeroRoots

LEMMA SetInputFresh ==
    ASSUME NEW d, Fresh(d), NEW k \in 1 .. 2, NEW f \in FileNames
    PROVE \A e : e = SetInput(d, k, f) =>
             Fresh(e) /\ e.output = d.output /\ e.input = [d.input EXCEPT ![k] = f]
<1>1. d \in Dbs BY DEF Fresh
<1>2. PICK b : b = [d EXCEPT !.input[k] = f, !.open = @ \cup {f}] OBVIOUS
<1>3. d.input \in [1 .. 2 -> FileNames] /\ d.open \subseteq FileNames BY <1>1 DEF Dbs
<1>4. /\ b \in Dbs /\ b.list = d.list /\ b.current = d.current /\ b.cont = d.cont /\ b.vers = d.vers
      /\ b.input = [d.input EXCEPT ![k] = f] /\ b.output = d.output
      /\ b.versionsChanged = d.versionsChanged
  BY <1>1, <1>2, <1>3 DEF Dbs
<1>5. PICK V, C : /\ V = [r \in RunIds |-> [n \in Names |-> [b.vers[r][n] EXCEPT !.in = Unread]]]
                  /\ C = [n \in Names |-> IF b.cont[n].static THEN b.cont[n]
                                          ELSE [b.cont[n] EXCEPT !.in = Unread, !.changed = FALSE]]
  OBVIOUS
<1>6. ASSUME NEW r \in RunIds, NEW n \in Names
      PROVE V[r][n] \in Versions /\ V[r][n].root = 0 /\ V[r][n].in = Unread
  <2>1. b.vers[r][n] \in Versions /\ b.vers[r][n].root = 0 BY <1>4 DEF Dbs, Fresh, ZeroRoots
  <2>2. V[r][n] = [b.vers[r][n] EXCEPT !.in = Unread] BY <1>5
  <2> QED BY <2>1, <2>2, UnreadType DEF Versions
<1>7. ASSUME NEW n \in Names PROVE C[n] \in Containers /\ C[n].in = Unread /\ ~C[n].static
  <2>1. b.cont[n] \in Containers /\ ~b.cont[n].static BY <1>4 DEF Dbs, Fresh
  <2>2. C[n] = [b.cont[n] EXCEPT !.in = Unread, !.changed = FALSE] BY <1>5, <2>1
  <2> QED BY <2>1, <2>2, UnreadType DEF Containers
<1>8. V \in [RunIds -> [Names -> Versions]] BY <1>5, <1>6
<1>9. C \in [Names -> Containers] BY <1>5, <1>7
<1>10. PICK s : s = ResetInputVersions(b) OBVIOUS
<1>11. s = [b EXCEPT !.vers = V, !.cont = C] BY <1>5, <1>10 DEF ResetInputVersions
<1>12. /\ s \in Dbs /\ s.list = b.list /\ s.current = b.current /\ s.cont = C /\ s.vers = V
       /\ s.input = b.input /\ s.output = b.output /\ s.versionsChanged = b.versionsChanged
  BY <1>4, <1>8, <1>9, <1>11 DEF Dbs
<1>13. Fresh(s) BY <1>4, <1>6, <1>7, <1>12 DEF Fresh, ZeroRoots
<1>14. PICK e : e = SetInput(d, k, f) OBVIOUS
<1>15. e = s \/ e = ResetOutputVersions(s) BY <1>2, <1>10, <1>14 DEF SetInput
<1>16. CASE e = s BY <1>4, <1>12, <1>13, <1>14, <1>16
<1>17. CASE e = ResetOutputVersions(s)
  <2>1. /\ e \in Dbs /\ SamePlace(s, e) /\ e.cont = s.cont
        /\ e.versionsChanged = s.versionsChanged /\ ZeroRoots(e)
        /\ \A r \in RunIds, n \in Names : e.vers[r][n].in = s.vers[r][n].in
    BY <1>12, <1>17, ResetIs
  <2>2. Fresh(e) BY <1>13, <2>1 DEF Fresh, SamePlace
  <2> QED BY <1>4, <1>12, <1>14, <2>1, <2>2 DEF SamePlace
<1> QED BY <1>15, <1>16, <1>17

LEMMA StartRead ==
    ASSUME topology \in Topologies
    PROVE \A w : w = ServerInit => InputsRead(w, {}) /\ RunRead(w.db)
<1>1. Inputs \in [1 .. 2 -> FileNames] /\ 1 \in 1 .. 2 /\ 2 \in 1 .. 2 BY SetupTypes
<1> DEFINE SetIf(d, k) == IF Inputs[k] = NoFile THEN d ELSE SetInput(d, k, Inputs[k])
<1>2. ASSUME NEW d, Fresh(d), d.output = NoFile, d.input \in [1 .. 2 -> FileNames], NEW k \in 1 .. 2,
             d.input[k] = NoFile
      PROVE \A e : e = SetIf(d, k) => /\ Fresh(e) /\ e.output = NoFile
                                      /\ e.input = [d.input EXCEPT ![k] = Inputs[k]]
  <2>1. CASE Inputs[k] = NoFile
    <3>1. [d.input EXCEPT ![k] = Inputs[k]] = d.input BY <1>2, <2>1
    <3> QED BY <1>2, <2>1, <3>1
  <2>2. CASE Inputs[k] # NoFile
    <3>1. Inputs[k] \in FileNames BY <1>1
    <3>2. \A e : e = SetInput(d, k, Inputs[k]) =>
             Fresh(e) /\ e.output = d.output /\ e.input = [d.input EXCEPT ![k] = Inputs[k]]
      BY <1>2, <3>1, SetInputFresh
    <3> QED BY <1>2, <2>2, <3>2
  <2> QED BY <2>1, <2>2
<1>3. PICK a : a = SetIf(NewDb, 1) OBVIOUS
<1>4. NewDb.input = <<NoFile, NoFile>> BY DEF NewDb
<1>5. Fresh(a) /\ a.output = NoFile /\ a.input = [NewDb.input EXCEPT ![1] = Inputs[1]]
  <2>1. PICK d : d = NewDb OBVIOUS
  <2>2. Fresh(d) /\ d.output = NoFile /\ d.input \in [1 .. 2 -> FileNames] /\ d.input[1] = NoFile
    BY <1>4, <2>1, NewDbFresh
  <2>3. a = SetIf(d, 1) BY <1>3, <2>1
  <2>4. \A e : e = SetIf(d, 1) => /\ Fresh(e) /\ e.output = NoFile
                                  /\ e.input = [d.input EXCEPT ![1] = Inputs[1]]
    <3> HIDE DEF SetIf
    <3>1. 1 \in 1 .. 2 BY <1>1
    <3> QED BY <1>2, <2>2, <3>1
  <2> QED BY <2>1, <2>3, <2>4
<1>6. PICK b : b = SetIf(a, 2) OBVIOUS
<1>7. a.input \in [1 .. 2 -> FileNames] /\ a.input[2] = NoFile /\ a.input[1] = Inputs[1]
  BY <1>1, <1>4, <1>5, NewDbFresh
<1>8. Fresh(b) /\ b.output = NoFile /\ b.input = [a.input EXCEPT ![2] = Inputs[2]]
  BY <1>1, <1>2, <1>5, <1>6, <1>7
<1>9. b.input = Inputs BY <1>1, <1>7, <1>8
<1>10. PICK c : c = IF SavesUpdates \/ Output = NoFile THEN b ELSE SetOutput(b, Output) OBVIOUS
<1>11. Fresh(c) /\ c.input = Inputs /\ OutputClosed(c)
  <2>1. CASE SavesUpdates \/ Output = NoFile
    <3>1. c = b BY <1>10, <2>1
    <3> QED BY <1>8, <1>9, <3>1 DEF OutputClosed, Fresh
  <2>2. CASE ~(SavesUpdates \/ Output = NoFile)
    <3>1. Output \in RootFiles BY <2>2, ServerAssumption
    <3>2. b \in Dbs BY <1>8 DEF Fresh
    <3>3. OutputSet(b, Output, c) BY <1>10, <2>2, <3>1, <3>2, SetOutputIs
    <3>4. Fresh(c) BY <1>8, <3>3 DEF Fresh, OutputSet
    <3> QED BY <1>9, <2>2, <3>3, <3>4 DEF OutputSet, OutputClosed
  <2> QED BY <2>1, <2>2
<1>12. PICK w : w = [db |-> c, file |-> Stocked] OBVIOUS
<1>13. ServerInit = w
  <2>1. ServerInit = SaveOutput(w) BY <1>3, <1>6, <1>10, <1>12 DEF ServerInit
  <2>2. WriteContainers(w) = w BY <1>11, <1>12 DEF WriteContainers, Fresh
  <2>3. WriteVersions(w) = w BY <1>11, <1>12 DEF WriteVersions, TableWritten, Fresh
  <2> QED BY <2>1, <2>2, <2>3 DEF SaveOutput
<1>14. Stocked \in ParFiles
  <2>1. Stocked \in [RootFiles -> [cycles : [Names -> Seq(Values)], run : [RunIds -> [Names -> Nat]]]]
    BY SetupTypes
  <2>2. ASSUME NEW f \in RootFiles
        PROVE Stocked[f] \in [cycles : [Names -> Seq(Values \cup {NoValue})], run : [RunIds -> [Names -> Nat]]]
    <3>1. PICK g : g = Stocked[f] OBVIOUS
    <3>2. g \in [cycles : [Names -> Seq(Values)], run : [RunIds -> [Names -> Nat]]] BY <2>1, <3>1
    <3>3. g.cycles \in [Names -> Seq(Values \cup {NoValue})] BY <3>2
    <3> QED BY <3>1, <3>2, <3>3
  <2> QED BY <2>1, <2>2 DEF ParFiles
<1>15. w \in Worlds /\ w.db = c /\ w.file = Stocked BY <1>11, <1>12, <1>14 DEF Worlds, Fresh
<1>16. InputsKept(w) BY <1>11, <1>15 DEF InputsKept
<1>17. \A k \in 1 .. 2 : ~(Unread[k] > 0) BY UnreadType
<1>18. VersRight(c) BY <1>11, <1>17 DEF VersRight, OfRun, OfRunAt, Fresh
<1>19. \A n \in Names : Known(c.cont[n], n) BY <1>11, <1>17 DEF Known, KnownAt, Fresh
<1>20. StaticSent(c, {}) /\ RunRead(c) BY <1>11 DEF StaticSent, RunRead, Fresh
<1> QED BY <1>11, <1>13, <1>15, <1>16, <1>18, <1>19, <1>20 DEF InputsRead

-----------------------------------------------------------------------------
(* Each step keeps the invariant. *)

LEMMA TopologyKept ==
    ASSUME topology' = topology
    PROVE /\ Inputs' = Inputs /\ Stocked' = Stocked /\ SavesUpdates' = SavesUpdates
          /\ TaskProcessors' = TaskProcessors /\ Devices' = Devices /\ MaxMessages' = MaxMessages
          /\ \A r, n : Parameter(r, n)' = Parameter(r, n)
<1>1. Inputs' = Inputs /\ Stocked' = Stocked BY DEF Inputs, Stocked
<1>2. ASSUME NEW r, NEW n PROVE Parameter(r, n)' = Parameter(r, n)
  <2>1. ASSUME NEW f PROVE TableValue(f, r, n)' = TableValue(f, r, n) BY <1>1 DEF TableValue
  <2>2. ASSUME NEW k \in 1 .. 2 PROVE FromInput(k, r, n)' = FromInput(k, r, n)
    BY <1>1, <2>1 DEF FromInput
  <2> QED BY <2>2 DEF Parameter
<1> QED BY <1>1, <1>2 DEF SavesUpdates, TaskProcessors, Devices, MaxMessages

\* What holds of a world that is the next one holds after the step.
LEMMA ReadKept ==
    ASSUME topology' = topology, NEW w, NEW S, InputsRead(w, S), RunRead(w.db), world' = w, saved' = S
    PROVE InputsRead(world, saved)' /\ RunRead(db)'
<1>1. Inputs' = Inputs /\ Stocked' = Stocked /\ (SavesUpdates' <=> SavesUpdates) BY TopologyKept
<1>2. db' = w.db BY DEF db
<1>3. \A k \in 1 .. 2 : IsRoot(k)' <=> IsRoot(k) BY <1>1 DEF IsRoot
<1>4. \A in, n, r : \A k \in 1 .. 2 : OfRunAt(in, n, r, k)' <=> OfRunAt(in, n, r, k)
  BY <1>1, <1>3 DEF OfRunAt
<1>5. \A c, n : \A k \in 1 .. 2 : KnownAt(c, n, k)' <=> KnownAt(c, n, k) BY <1>1, <1>3 DEF KnownAt
<1>6. \A in, n, r : OfRun(in, n, r)' <=> OfRun(in, n, r) BY <1>4 DEF OfRun
<1>7. \A c, n : Known(c, n)' <=> Known(c, n) BY <1>5 DEF Known
<1>8. InputsKept(world)' BY <1>1, <1>3 DEF InputsRead, InputsKept
<1>9. VersRight(world.db)' BY <1>6 DEF InputsRead, VersRight
<1>10. (\A n \in Names : Known(world.db.cont[n], n))' BY <1>7 DEF InputsRead
<1>11. StaticSent(world.db, saved)' BY DEF InputsRead, StaticSent
<1>12. OutputClosed(world.db)' BY <1>1 DEF InputsRead, OutputClosed
<1>13. RunRead(db)' BY <1>2, <1>6 DEF RunRead
<1>14. world' \in Worlds BY DEF InputsRead
<1> QED BY <1>8, <1>9, <1>10, <1>11, <1>12, <1>13, <1>14 DEF InputsRead

LEMMA OwnKept ==
    ASSUME topology' = topology, saved \subseteq saved', NEW p, NEW n, Own(p, n),
           proc'[p].run = proc[p].run, proc'[p].params[n] = proc[p].params[n]
    PROVE Own(p, n)'
<1>1. Parameter(proc[p].run, n)' = Parameter(proc[p].run, n)'  OBVIOUS
<1>2. \A r : Parameter(r, n)' = Parameter(r, n) BY TopologyKept
<1>3. CASE proc[p].params[n] = Parameter(proc[p].run, n)
  <2>1. PICK r : r = proc[p].run OBVIOUS
  <2>2. proc'[p].params[n] = Parameter(r, n)' BY <1>2, <1>3, <2>1
  <2>3. Own(p, n)' <=> \/ proc'[p].params[n] = Parameter(proc[p].run, n)'
                       \/ \E u \in saved' : u.name = n /\ proc'[p].params[n] = u.value
    BY DEF Own
  <2>4. Parameter(proc[p].run, n)' = Parameter(r, n)' BY <2>1 DEF Parameter, FromInput, TableValue
  <2> QED BY <2>2, <2>3, <2>4
<1>4. CASE \E u \in saved : u.name = n /\ proc[p].params[n] = u.value BY <1>4 DEF Own
<1> QED BY <1>3, <1>4 DEF Own

\* What a request for container n in run r makes of a world w.
LEMMA RequestRead ==
    ASSUME OutputApart, topology \in Topologies, NEW w, NEW S, InputsRead(w, S), RunRead(w.db),
           NEW n \in Names, NEW r \in RunIds
    PROVE \A in, out : /\ in = EnterRun([w EXCEPT !.db = AddContainer(@, n, NewContainer)], r)
                       /\ out = ReadContainers(in)
             => /\ InputsRead(out, S) /\ RunRead(out.db)
                /\ SavesUpdates => \A f \in RootFiles : out.file[f] = w.file[f]
                /\ InitSucceeds(in) => \/ out.db.cont[n].value = Parameter(r, n)
                                       \/ \E u \in S : u.name = n /\ out.db.cont[n].value = u.value
<1>1. PICK a, in, out : /\ a = [w EXCEPT !.db = AddContainer(@, n, NewContainer)]
                        /\ in = EnterRun(a, r) /\ out = ReadContainers(in)
  OBVIOUS
<1>2. InputsRead(a, S) /\ RunRead(a.db) /\ n \in a.db.list /\ a.file = w.file BY <1>1, AddRead
<1>3. /\ InputsRead(in, S) /\ in.db.current = r /\ in.db.list = a.db.list
      /\ SavesUpdates => \A f \in RootFiles : in.file[f] = a.file[f]
  <2>1. \A v : v = EnterRun(a, r) =>
             /\ InputsRead(v, S) /\ v.db.current = r /\ HasRun(v.db, r) /\ v.db.list = a.db.list
             /\ SavesUpdates => \A f \in RootFiles : v.file[f] = a.file[f]
    BY <1>2, EnterRead
  <2> QED BY <1>1, <2>1
<1>4. in.db.current \in RunIds BY <1>3
<1>5. InputsRead(out, S) /\ RunRead(out.db) /\ out.file = in.file /\ ReadAll(in, out)
  BY <1>1, <1>3, <1>4, ReadRead
<1>6. ASSUME InitSucceeds(in)
      PROVE \/ out.db.cont[n].value = Parameter(r, n)
            \/ \E u \in S : u.name = n /\ out.db.cont[n].value = u.value
  <2>1. n \in in.db.list BY <1>2, <1>3
  <2>2. CASE in.db.cont[n].static
    <3>1. out.db.cont[n] = in.db.cont[n] BY <1>5, <2>2 DEF ReadAll
    <3>2. \E u \in S : u.name = n /\ u.value = in.db.cont[n].value
      BY <1>3, <2>1, <2>2 DEF InputsRead, StaticSent
    <3> QED BY <3>1, <3>2
  <2>3. CASE ~in.db.cont[n].static
    <3>1. out.db.cont[n].value = Parameter(in.db.current, n) BY <1>5, <1>6, <2>1, <2>3 DEF ReadAll
    <3> QED BY <1>3, <3>1
  <2> QED BY <2>2, <2>3
<1> QED BY <1>1, <1>2, <1>3, <1>5, <1>6

\* The tables of the output in a file that is the same.
LEMMA SentKept ==
    ASSUME NEW f, NEW g, NEW S, SentInFile(f, S), S # {} => f[Output] = g[Output]
    PROVE SentInFile(g, S)
BY DEF SentInFile

LEMMA NameListed == \A i \in 1 .. Len(NameOrder) : NameOrder[i] \in Names
BY NameAssumption

LEMMA EachListed == \A n \in Names : \E i \in 1 .. Len(NameOrder) : NameOrder[i] = n
<1>1. Names = {NameOrder[i] : i \in DOMAIN NameOrder} BY NameAssumption DEF ToSet
<1>2. DOMAIN NameOrder = 1 .. Len(NameOrder) BY NameAssumption
<1> QED BY <1>1, <1>2

LEMMA ServerStarts == ClientsInit => ServerInv
<1> SUFFICES ASSUME ClientsInit PROVE ServerInv OBVIOUS
<1> USE DEF ClientsInit
<1>1. PICK w : w = ServerInit OBVIOUS
<1>2. InputsRead(w, {}) /\ RunRead(w.db) BY <1>1, StartRead
<1>3. world \in Worlds /\ InputsRead(world, saved) /\ RunRead(db) BY <1>1, <1>2 DEF InputsRead, db
<1>4. ProcessorsRight
  <2>1. 1 \in 1 .. Len(NameOrder) BY NameAssumption
  <2>2. [n \in Names |-> NoValue] \in [Names -> Values \cup {NoValue}] OBVIOUS
  <2> QED BY <2>1, <2>2 DEF NewProcessor, ProcessorsRight
<1>5. DevicesRight
  <2>1. 1 \in 1 .. Len(NameOrder) + 1 BY NameAssumption
  <2>2. Reported = {} BY DEF Reported, NewDevice
  <2>3. Cardinality(Reported) = 0 BY <2>2, FS_EmptySet
  <2> QED BY <2>1, <2>3, NameAssumption DEF NewDevice, DevicesRight
<1>6. SavedRight BY DEF SavedRight, SentInFile
<1> QED BY <1>3, <1>4, <1>5, <1>6 DEF ServerInv

\* The devices, where none of them does anything.
LEMMA DevicesKept == ASSUME DevicesRight, topology' = topology, dev' = dev, nofDevices' = nofDevices
                     PROVE DevicesRight'
<1>1. (SavesUpdates' <=> SavesUpdates) /\ Devices' = Devices BY TopologyKept
<1>2. Reported' = Reported BY <1>1 DEF Reported
<1> QED BY <1>1, <1>2 DEF DevicesRight

\* The processors, where none of them does anything.
LEMMA ProcessorsKept ==
    ASSUME ProcessorsRight, topology' = topology, proc' = proc, saved \subseteq saved'
    PROVE ProcessorsRight'
<1>1. TaskProcessors' = TaskProcessors BY TopologyKept
<1>2. \A p, n : Own(p, n) => Own(p, n)' BY OwnKept
<1> QED BY <1>1, <1>2 DEF ProcessorsRight

LEMMA ProcessDataKeeps ==
    ASSUME ServerInv, NEW p \in TaskProcessors, ProcessDataOfRun(p) PROVE ServerInv'
<1> USE DEF ServerInv, ProcessDataOfRun
<1>1. topology' = topology /\ world' = world /\ saved' = saved /\ running' = running OBVIOUS
<1>2. running' => InputsRead(world, saved)' /\ RunRead(db)'
  <2>1. PICK w, S : w = world /\ S = saved OBVIOUS
  <2>2. running => InputsRead(w, S) /\ RunRead(w.db) BY <2>1 DEF db
  <2> QED BY <1>1, <2>1, <2>2, ReadKept
<1>3. DevicesRight' BY <1>1, DevicesKept, SMTT(30)
<1>4. ProcessorsRight'
  <2>1. PICK r \in RunIds :
           proc' = [proc EXCEPT ![p].run = r, ![p].messages = @ + 1, ![p].at = 1,
                                ![p].pc = IF r = proc[p].run THEN "ready" ELSE "asks"]
    OBVIOUS
  <2>2. PICK P : P = [pc : {"ready", "asks"}, run : RunIds \cup {NoRun},
                      at : 1 .. Len(NameOrder), messages : Nat, params : [Names -> Values \cup {NoValue}]]
    OBVIOUS
  <2>3. proc \in [TaskProcessors -> P] BY <2>2 DEF ProcessorsRight
  <2>4. PICK x, y : x = proc[p] /\ y = proc'[p] OBVIOUS
  <2>5. PICK c, m : c = (IF r = x.run THEN "ready" ELSE "asks") /\ m = x.messages + 1 OBVIOUS
  <2>5a. y = [x EXCEPT !.run = r, !.messages = m, !.at = 1, !.pc = c] BY <2>1, <2>3, <2>4, <2>5
  <2>6. 1 \in 1 .. Len(NameOrder) BY NameAssumption
  <2>7. x \in P BY <2>3, <2>4
  <2>8. /\ y \in P /\ y.run = r /\ y.at = 1 /\ y.params = x.params
        /\ y.pc = IF r = x.run THEN "ready" ELSE "asks"
    <3>1. m \in Nat /\ c \in {"ready", "asks"} BY <2>2, <2>5, <2>7
    <3>2. y \in P /\ y.run = r /\ y.at = 1 /\ y.params = x.params /\ y.pc = c
      BY <2>2, <2>5a, <2>6, <2>7, <3>1
    <3> QED BY <2>5, <3>2
  <2>9. proc' \in [TaskProcessors -> P] BY <2>1, <2>3, <2>4, <2>8
  <2>10. \A q \in TaskProcessors : q # p => proc'[q] = proc[q] BY <2>1, <2>3
  <2>11. r # NoRun BY RunIdAssumption DEF NoRun
  <2>12. TaskProcessors' = TaskProcessors BY <1>1, TopologyKept
  <2>13. ASSUME NEW q \in TaskProcessors, proc'[q].pc = "ready", proc'[q].run # NoRun, NEW n \in Names
         PROVE Own(q, n)'
    <3>1. proc[q].pc = "ready" /\ proc'[q].run = proc[q].run /\ proc'[q].params = proc[q].params
      BY <2>4, <2>8, <2>10, <2>13
    <3>2. Own(q, n) BY <2>13, <3>1 DEF ProcessorsRight
    <3> QED BY <1>1, <3>1, <3>2, OwnKept
  <2>14. ASSUME NEW q \in TaskProcessors, proc'[q].pc = "asks"
         PROVE proc'[q].run # NoRun /\ \A i \in 1 .. proc'[q].at - 1 : Own(q, NameOrder[i])'
    <3>1. CASE q = p
      <4>1. proc'[q].run = r /\ proc'[q].at = 1 BY <2>4, <2>8, <3>1
      <4>2. 1 .. proc'[q].at - 1 = {} BY <4>1
      <4> QED BY <2>11, <4>1, <4>2
    <3>2. CASE q # p
      <4>1. proc'[q] = proc[q] BY <2>10, <3>2
      <4>2. proc[q].run # NoRun /\ \A i \in 1 .. proc[q].at - 1 : Own(q, NameOrder[i])
        BY <2>14, <4>1 DEF ProcessorsRight
      <4>3. \A i \in 1 .. proc[q].at - 1 : Own(q, NameOrder[i])' BY <1>1, <4>1, <4>2, OwnKept
      <4> QED BY <4>1, <4>2, <4>3
    <3> QED BY <3>1, <3>2
  <2> QED BY <2>2, <2>9, <2>12, <2>13, <2>14 DEF ProcessorsRight
<1>5. SavedRight'
  <2>1. SavesUpdates' <=> SavesUpdates BY <1>1, TopologyKept
  <2> QED BY <1>1, <2>1 DEF SavedRight, SentInFile, file
<1> QED BY <1>1, <1>2, <1>3, <1>4, <1>5

\* The file of the output is the same where updates are saved, so the tables say what they said.
LEMMA SavedKept ==
    ASSUME SavedRight, topology \in Topologies, topology' = topology, saved' = saved,
           SavesUpdates => \A f \in RootFiles : world'.file[f] = world.file[f]
    PROVE SavedRight'
<1>1. SavesUpdates' <=> SavesUpdates BY TopologyKept
<1>2. saved # {} => Output \in RootFiles BY SetupTypes DEF SavedRight
<1>3. PICK f, g, S : f = file /\ g = file' /\ S = saved OBVIOUS
<1>4. S # {} => f[Output] = g[Output] BY <1>2, <1>3 DEF SavedRight, file
<1>5. SentInFile(f, S) BY <1>3 DEF SavedRight
<1>6. SentInFile(g, S) BY <1>4, <1>5, SentKept
<1>7. SentInFile(file, saved)' <=> SentInFile(g, S) BY <1>3 DEF SentInFile
<1> QED BY <1>1, <1>6, <1>7 DEF SavedRight

LEMMA ProcessRequestKeeps ==
    ASSUME OutputApart, ServerInv, NEW p \in TaskProcessors, ProcessRequest(p) PROVE ServerInv'
<1> USE DEF ServerInv
<1>1. /\ topology' = topology /\ running' = running /\ nofDevices' = nofDevices /\ dev' = dev
      /\ saved' = saved /\ running /\ proc[p].pc = "asks"
  BY DEF ProcessRequest
<1>2. PICK w, S, x : w = world /\ S = saved /\ x = proc[p] OBVIOUS
<1>3. InputsRead(w, S) /\ RunRead(w.db) BY <1>1, <1>2 DEF db
<1>4. PICK n : n = NameOrder[x.at] OBVIOUS
<1>5. PICK P : P = [pc : {"ready", "asks"}, run : RunIds \cup {NoRun},
                    at : 1 .. Len(NameOrder), messages : Nat, params : [Names -> Values \cup {NoValue}]]
  OBVIOUS
<1>6. proc \in [TaskProcessors -> P] BY <1>5 DEF ProcessorsRight
<1>7. x \in P BY <1>2, <1>6
<1>8. /\ x.at \in 1 .. Len(NameOrder) /\ x.run \in RunIds /\ n \in Names
      /\ x.params \in [Names -> Values \cup {NoValue}]
  <2>1. x.run # NoRun BY <1>1, <1>2 DEF ProcessorsRight
  <2>2. x.at \in 1 .. Len(NameOrder) /\ x.run \in RunIds \cup {NoRun} BY <1>5, <1>7
  <2>3. x.params \in [Names -> Values \cup {NoValue}] BY <1>5, <1>7
  <2> QED BY <1>4, <2>1, <2>2, <2>3, NameListed
<1>9. PICK in, out : /\ in = EnterRun([w EXCEPT !.db = AddContainer(@, n, NewContainer)], x.run)
                     /\ out = ReadContainers(in)
  OBVIOUS
<1>10. ForRequest(p) = in BY <1>2, <1>4, <1>9, SMTT(30) DEF ForRequest
<1>11. InitSucceeds(in) /\ world' = out /\ TakeReply(p, out.db.cont[n].value)
  BY <1>2, <1>4, <1>9, <1>10, Zenon DEF ProcessRequest
<1>12. /\ InputsRead(out, S) /\ RunRead(out.db)
       /\ SavesUpdates => \A f \in RootFiles : out.file[f] = w.file[f]
       /\ InitSucceeds(in) => \/ out.db.cont[n].value = Parameter(x.run, n)
                              \/ \E u \in S : u.name = n /\ out.db.cont[n].value = u.value
  BY <1>3, <1>8, <1>9, RequestRead
<1>13. InputsRead(world, saved)' /\ RunRead(db)' BY <1>1, <1>2, <1>11, <1>12, ReadKept
<1>14. out \in Worlds BY <1>12 DEF InputsRead
<1>15. PICK v : v = out.db.cont[n].value OBVIOUS
<1>16. v \in Values \cup {NoValue} BY <1>8, <1>14, <1>15 DEF Worlds, Dbs, Containers
<1>17. PICK y, c, a : /\ y = proc'[p]
                      /\ c = (IF x.at = Len(NameOrder) THEN "ready" ELSE "asks")
                      /\ a = IF x.at = Len(NameOrder) THEN 1 ELSE x.at + 1
  OBVIOUS
<1>18. /\ \A q \in TaskProcessors : q # p => proc'[q] = proc[q]
       /\ proc' \in [TaskProcessors -> P]
       /\ y.run = x.run /\ y.at = a /\ y.pc = c
       /\ y.params[n] = v /\ \A m \in Names : m # n => y.params[m] = x.params[m]
  <2>1. proc' = [proc EXCEPT ![p].params[n] = v,
                             ![p].at = IF @ = Len(NameOrder) THEN 1 ELSE @ + 1,
                             ![p].pc = IF proc[p].at = Len(NameOrder) THEN "ready" ELSE "asks"]
    BY <1>2, <1>4, <1>11, <1>15 DEF TakeReply
  <2>2. PICK g : g = [x.params EXCEPT ![n] = v] OBVIOUS
  <2>3. g \in [Names -> Values \cup {NoValue}] /\ g[n] = v /\ \A m \in Names : m # n => g[m] = x.params[m]
    BY <1>8, <1>16, <2>2
  <2>4. y = [x EXCEPT !.params = g, !.at = a, !.pc = c]
    BY <1>2, <1>6, <1>7, <1>17, <2>1, <2>2
  <2>5. a \in 1 .. Len(NameOrder) /\ c \in {"ready", "asks"}
    <3>1. Len(NameOrder) \in Nat /\ Len(NameOrder) > 0 BY NameAssumption
    <3> QED BY <1>8, <1>17, <3>1
  <2>6. y \in P /\ y.run = x.run /\ y.at = a /\ y.pc = c /\ y.params = g
    BY <1>5, <1>7, <2>3, <2>4, <2>5
  <2>7. \A q \in TaskProcessors : q # p => proc'[q] = proc[q] BY <1>6, <2>1
  <2>8. proc' \in [TaskProcessors -> P] BY <1>6, <1>17, <2>1, <2>6, <2>7
  <2> QED BY <2>3, <2>6, <2>7, <2>8, SMTT(30)
<1>19. Own(p, n)'
  <2>1. \A r : Parameter(r, n)' = Parameter(r, n) BY <1>1, TopologyKept
  <2>2. PICK r : r = x.run OBVIOUS
  <2>3. Own(p, n)' <=> \/ proc'[p].params[n] = Parameter(r, n)'
                       \/ \E u \in saved' : u.name = n /\ proc'[p].params[n] = u.value
    <3>1. r = proc'[p].run BY <1>17, <1>18, <2>2
    <3>2. Parameter(r, n)' = Parameter(proc[p].run, n)' BY <3>1 DEF Parameter, FromInput, TableValue
    <3> QED BY <3>2 DEF Own
  <2>4. \/ v = Parameter(r, n)
        \/ \E u \in saved : u.name = n /\ v = u.value
    BY <1>2, <1>11, <1>12, <1>15, <2>2
  <2>5. proc'[p].params[n] = v BY <1>17, <1>18
  <2> QED BY <1>1, <2>1, <2>3, <2>4, <2>5
<1>20. ProcessorsRight'
  <2>1. TaskProcessors' = TaskProcessors BY <1>1, TopologyKept
  <2>2. \A i \in 1 .. x.at : Own(p, NameOrder[i])'
    <3>1. ASSUME NEW i \in 1 .. x.at PROVE Own(p, NameOrder[i])'
      <4>1. PICK m : m = NameOrder[i] OBVIOUS
      <4>2. Len(NameOrder) \in Nat BY NameAssumption
      <4>3. i \in 1 .. Len(NameOrder) BY <1>8, <4>2
      <4>4. m \in Names BY <4>1, <4>3, NameListed
      <4>5. CASE m = n BY <1>19, <4>1, <4>5
      <4>6. CASE m # n
        <5>1. i # x.at BY <1>4, <4>1, <4>6
        <5>2. i \in 1 .. x.at - 1 BY <1>8, <5>1
        <5>3. Own(p, m) BY <1>1, <1>2, <4>1, <5>2 DEF ProcessorsRight
        <5>4. proc'[p].run = proc[p].run /\ proc'[p].params[m] = proc[p].params[m]
          BY <1>2, <1>17, <1>18, <4>4, <4>6
        <5>5. saved \subseteq saved' BY <1>1
        <5>6. Own(p, m)' BY <1>1, <5>3, <5>4, <5>5, OwnKept
        <5> QED BY <4>1, <5>6
      <4> QED BY <4>5, <4>6
    <3> QED BY <3>1
  <2>3. ASSUME NEW q \in TaskProcessors, proc'[q].pc = "ready", proc'[q].run # NoRun, NEW m \in Names
        PROVE Own(q, m)'
    <3>1. CASE q = p
      <4>1. x.at = Len(NameOrder) BY <1>17, <1>18, <2>3, <3>1
      <4>2. PICK i \in 1 .. Len(NameOrder) : NameOrder[i] = m BY EachListed
      <4> QED BY <2>2, <3>1, <4>1, <4>2
    <3>2. CASE q # p
      <4>1. proc'[q] = proc[q] BY <1>18, <3>2
      <4>2. Own(q, m) BY <2>3, <4>1 DEF ProcessorsRight
      <4>3. saved \subseteq saved' BY <1>1
      <4> QED BY <1>1, <4>1, <4>2, <4>3, OwnKept
    <3> QED BY <3>1, <3>2
  <2>4. ASSUME NEW q \in TaskProcessors, proc'[q].pc = "asks"
        PROVE proc'[q].run # NoRun /\ \A i \in 1 .. proc'[q].at - 1 : Own(q, NameOrder[i])'
    <3>1. CASE q = p
      <4>1. proc'[q].run = x.run /\ proc'[q].at = a /\ c = "asks" BY <1>17, <1>18, <2>4, <3>1
      <4>2. a = x.at + 1 BY <1>17, <4>1
      <4>3. a - 1 = x.at BY <1>8, <4>2
      <4>4. x.run # NoRun BY <1>8, RunIdAssumption DEF NoRun
      <4> QED BY <2>2, <3>1, <4>1, <4>3, <4>4
    <3>2. CASE q # p
      <4>1. proc'[q] = proc[q] BY <1>18, <3>2
      <4>2. proc[q].run # NoRun /\ \A i \in 1 .. proc[q].at - 1 : Own(q, NameOrder[i])
        BY <2>4, <4>1 DEF ProcessorsRight
      <4>3. saved \subseteq saved' BY <1>1
      <4>4. \A i \in 1 .. proc[q].at - 1 : Own(q, NameOrder[i])' BY <1>1, <4>1, <4>2, <4>3, OwnKept
      <4> QED BY <4>1, <4>2, <4>4
    <3> QED BY <3>1, <3>2
  <2> QED BY <1>5, <1>18, <2>1, <2>3, <2>4 DEF ProcessorsRight
<1>21. DevicesRight' BY <1>1, DevicesKept
<1>22. SavedRight' BY <1>1, <1>2, <1>11, <1>12, SavedKept
<1> QED BY <1>1, <1>11, <1>13, <1>14, <1>20, <1>21, <1>22

\* The server stops, because a request failed or at the end of the run.
LEMMA StopKeeps ==
    ASSUME ServerInv, topology' = topology, running' = FALSE, proc' = proc, dev' = dev,
           nofDevices' = nofDevices, saved' = saved, world' \in Worlds,
           SavesUpdates => \A f \in RootFiles : world'.file[f] = world.file[f]
    PROVE ServerInv'
<1> USE DEF ServerInv
<1>1. saved \subseteq saved' OBVIOUS
<1>2. ProcessorsRight' BY <1>1, ProcessorsKept
<1>3. DevicesRight' BY DevicesKept
<1>4. SavedRight' BY SavedKept
<1> QED BY <1>2, <1>3, <1>4

LEMMA RequestFailsKeeps ==
    ASSUME OutputApart, ServerInv, NEW p \in TaskProcessors, RequestFails(p) PROVE ServerInv'
<1>1. /\ topology' = topology /\ running' = FALSE /\ nofDevices' = nofDevices /\ dev' = dev
      /\ saved' = saved /\ proc' = proc /\ running /\ proc[p].pc = "asks"
  BY DEF RequestFails
<1>2. PICK w, S, x : w = world /\ S = saved /\ x = proc[p] OBVIOUS
<1>3. topology \in Topologies /\ InputsRead(w, S) /\ RunRead(w.db) BY <1>1, <1>2 DEF db, ServerInv
<1>4. PICK n : n = NameOrder[x.at] OBVIOUS
<1>5. x.run \in RunIds /\ n \in Names
  <2>1. x.run # NoRun BY <1>1, <1>2 DEF ServerInv, ProcessorsRight
  <2>2. x.at \in 1 .. Len(NameOrder) /\ x.run \in RunIds \cup {NoRun}
    BY <1>2 DEF ServerInv, ProcessorsRight
  <2> QED BY <1>4, <2>1, <2>2, NameListed
<1>6. PICK in, out : /\ in = EnterRun([w EXCEPT !.db = AddContainer(@, n, NewContainer)], x.run)
                     /\ out = ReadContainers(in)
  OBVIOUS
<1>7. ForRequest(p) = in BY <1>2, <1>4, <1>6 DEF ForRequest
<1>8. world' = out BY <1>6, <1>7 DEF RequestFails
<1>9. InputsRead(out, S) /\ (SavesUpdates => \A f \in RootFiles : out.file[f] = w.file[f])
  BY <1>3, <1>5, <1>6, RequestRead
<1>10. world' \in Worlds BY <1>8, <1>9 DEF InputsRead
<1> QED BY <1>1, <1>2, <1>8, <1>9, <1>10, StopKeeps

LEMMA ReportKeeps ==
    ASSUME ServerInv, NEW d \in Devices, ReportSimDevice(d) PROVE ServerInv'
<1> USE DEF ServerInv
<1>1. /\ topology' = topology /\ running' = running /\ proc' = proc /\ world' = world
      /\ saved' = saved /\ running /\ SavesUpdates /\ dev[d].pc = "reports"
      /\ nofDevices' = nofDevices + 1
      /\ dev' = [dev EXCEPT ![d] = [@ EXCEPT !.pc = "sends", !.run = NewRunId, !.number = nofDevices]]
  BY DEF ReportSimDevice
<1>2. running' => InputsRead(world, saved)' /\ RunRead(db)'
  <2>1. PICK w, S : w = world /\ S = saved OBVIOUS
  <2>2. running => InputsRead(w, S) /\ RunRead(w.db) BY <2>1 DEF db
  <2> QED BY <1>1, <2>1, <2>2, ReadKept
<1>3. saved \subseteq saved' BY <1>1
<1>4. ProcessorsRight' BY <1>1, <1>3, ProcessorsKept
<1>5. SavedRight' BY <1>1, SavedKept
<1>6. DevicesRight'
  <2>1. (SavesUpdates' <=> SavesUpdates) /\ Devices' = Devices BY <1>1, TopologyKept
  <2>2. PICK P : P = [pc : {"reports", "sends", "done"}, run : RunIds \cup {NoRun},
                      number : Int, at : 1 .. Len(NameOrder) + 1]
    OBVIOUS
  <2>3. dev \in [Devices -> P] BY <2>2 DEF DevicesRight
  <2>4. IsFiniteSet(Reported) /\ nofDevices = Cardinality(Reported) /\ d \notin Reported
    <3>1. IsFiniteSet(Devices) BY SetupTypes
    <3> QED BY <1>1, <3>1, FS_Subset DEF Reported, DevicesRight
  <2>5. nofDevices \in Nat BY <2>4, FS_CardinalityType
  <2>6. PICK x, y : x = dev[d] /\ y = dev'[d] OBVIOUS
  <2>7. y = [x EXCEPT !.pc = "sends", !.run = NewRunId, !.number = nofDevices] BY <1>1, <2>3, <2>6
  <2>8. NewRunId \in RunIds BY ServerAssumption DEF NewRunId
  <2>9. x \in P BY <2>3, <2>6
  <2>10. y \in P /\ y.pc = "sends" /\ y.run = NewRunId /\ y.at = x.at
    <3>1. nofDevices \in Int BY <2>5
    <3>2. PICK m : m = nofDevices OBVIOUS
    <3>3. y = [x EXCEPT !.pc = "sends", !.run = NewRunId, !.number = m] /\ m \in Int
      BY <2>7, <3>1, <3>2
    <3>4. x \in [pc : {"reports", "sends", "done"}, run : RunIds \cup {NoRun},
                 number : Int, at : 1 .. Len(NameOrder) + 1]
      BY <2>2, <2>9
    <3>5. y.pc = "sends" /\ y.run = NewRunId /\ y.at = x.at /\ y.number = m BY <3>3, <3>4
    <3>6. y \in [pc : {"reports", "sends", "done"}, run : RunIds \cup {NoRun},
                 number : Int, at : 1 .. Len(NameOrder) + 1]
      BY <2>8, <3>3, <3>4
    <3> QED BY <2>2, <3>5, <3>6
  <2>11. \A e \in Devices : e # d => dev'[e] = dev[e] BY <1>1, <2>3
  <2>12. dev' \in [Devices -> P] BY <1>1, <2>3, <2>6, <2>10, <2>11
  <2>13. Reported' = Reported \cup {d} BY <2>1, <2>6, <2>10, <2>11 DEF Reported
  <2>14. Cardinality(Reported') = Cardinality(Reported) + 1 BY <2>4, <2>13, FS_AddElement
  <2>15. x.at <= Len(NameOrder) BY <1>1, <2>6 DEF DevicesRight
  <2>16. ASSUME NEW e \in Devices, dev'[e].pc = "sends"
         PROVE dev'[e].run = NewRunId /\ SavesUpdates
    <3>1. CASE e = d BY <1>1, <2>6, <2>10, <3>1
    <3>2. CASE e # d BY <2>11, <2>16, <3>2 DEF DevicesRight
    <3> QED BY <3>1, <3>2
  <2>17. nofDevices' = Cardinality(Reported') BY <1>1, <2>4, <2>14
  <2>18. \A e \in Devices' : dev'[e].pc # "done" => dev'[e].at <= Len(NameOrder)
    <3>1. ASSUME NEW e \in Devices, dev'[e].pc # "done" PROVE dev'[e].at <= Len(NameOrder)
      <4>1. CASE e = d BY <2>6, <2>10, <2>15, <4>1
      <4>2. CASE e # d BY <2>11, <3>1, <4>2 DEF DevicesRight
      <4> QED BY <4>1, <4>2
    <3> QED BY <2>1, <3>1
  <2> QED BY <2>1, <2>2, <2>12, <2>16, <2>17, <2>18 DEF DevicesRight
<1> QED BY <1>1, <1>2, <1>4, <1>5, <1>6

\* What an update enters.
LEMMA UpdateEnters ==
    ASSUME OutputApart, topology \in Topologies, NEW w, NEW S, InputsRead(w, S), RunRead(w.db),
           NEW r \in RunIds
    PROVE \A in, out : in = EnterRun(w, r) /\ out = ReadContainers(in)
             => /\ InputsRead(out, S) /\ RunRead(out.db) /\ out.db.current = r /\ HasRun(out.db, r)
                /\ out.db.list = in.db.list
                /\ SavesUpdates => \A f \in RootFiles : out.file[f] = w.file[f]
<1>1. PICK in, out : in = EnterRun(w, r) /\ out = ReadContainers(in) OBVIOUS
<1>2. /\ InputsRead(in, S) /\ in.db.current = r /\ HasRun(in.db, r) /\ in.db.list = w.db.list
      /\ SavesUpdates => \A f \in RootFiles : in.file[f] = w.file[f]
  <2>1. \A v : v = EnterRun(w, r) =>
             /\ InputsRead(v, S) /\ v.db.current = r /\ HasRun(v.db, r) /\ v.db.list = w.db.list
             /\ SavesUpdates => \A f \in RootFiles : v.file[f] = w.file[f]
    BY EnterRead
  <2> QED BY <1>1, <2>1
<1>3. in.db.current \in RunIds BY <1>2
<1>4. InputsRead(out, S) /\ RunRead(out.db) /\ out.file = in.file /\ ReadAll(in, out)
  BY <1>1, <1>2, <1>3, ReadRead
<1>5. SamePlace(in.db, out.db) BY <1>4 DEF ReadAll
<1>6. out.db.current = r /\ out.db.list = in.db.list /\ HasRun(out.db, r)
  BY <1>2, <1>5 DEF SamePlace, HasRun
<1> QED BY <1>1, <1>2, <1>4, <1>6

LEMMA UpdateFailsKeeps ==
    ASSUME OutputApart, ServerInv, NEW d \in Devices, UpdateFails(d) PROVE ServerInv'
<1>1. /\ topology' = topology /\ running' = FALSE /\ nofDevices' = nofDevices /\ dev' = dev
      /\ saved' = saved /\ proc' = proc /\ running /\ dev[d].pc = "sends"
  BY DEF UpdateFails
<1>2. PICK w, S, r : w = world /\ S = saved /\ r = dev[d].run OBVIOUS
<1>3. topology \in Topologies /\ InputsRead(w, S) /\ RunRead(w.db) BY <1>1, <1>2 DEF db, ServerInv
<1>4. r \in RunIds
  <2>1. r = NewRunId BY <1>1, <1>2 DEF ServerInv, DevicesRight
  <2> QED BY <2>1, ServerAssumption DEF NewRunId
<1>5. PICK in, out : in = EnterRun(w, r) /\ out = ReadContainers(in) OBVIOUS
<1>6. world' = out BY <1>2, <1>5 DEF UpdateFails
<1>7. InputsRead(out, S) /\ (SavesUpdates => \A f \in RootFiles : out.file[f] = w.file[f])
  BY <1>3, <1>4, <1>5, UpdateEnters
<1>8. world' \in Worlds BY <1>6, <1>7 DEF InputsRead
<1> QED BY <1>1, <1>2, <1>6, <1>7, <1>8, StopKeeps

LEMMA ProcessUpdateKeeps ==
    ASSUME OutputApart, ServerInv, NEW d \in Devices, ProcessUpdate(d) PROVE ServerInv'
<1> USE DEF ServerInv
<1>1. /\ topology' = topology /\ running' = running /\ nofDevices' = nofDevices /\ proc' = proc
      /\ running /\ dev[d].pc = "sends"
      /\ dev' = [dev EXCEPT ![d].at = @ + 1,
                            ![d].pc = IF dev[d].at = Len(NameOrder) THEN "done" ELSE "sends"]
  BY DEF ProcessUpdate
<1>2. PICK w, S, x : w = world /\ S = saved /\ x = dev[d] OBVIOUS
<1>3. InputsRead(w, S) /\ RunRead(w.db) BY <1>1, <1>2 DEF db
<1>4. PICK n : n = NameOrder[x.at] OBVIOUS
<1>5. PICK P : P = [pc : {"reports", "sends", "done"}, run : RunIds \cup {NoRun},
                    number : Int, at : 1 .. Len(NameOrder) + 1]
  OBVIOUS
<1>6. dev \in [Devices -> P] BY <1>5 DEF DevicesRight
<1>7. x \in P /\ x.run = NewRunId /\ SavesUpdates /\ x.at <= Len(NameOrder)
  BY <1>1, <1>2, <1>6 DEF DevicesRight
<1>8. NewRunId \in RunIds BY ServerAssumption DEF NewRunId
<1>9. x.at \in 1 .. Len(NameOrder) /\ n \in Names
  <2>1. x.at \in 1 .. Len(NameOrder) + 1 /\ Len(NameOrder) \in Nat BY <1>5, <1>7, NameAssumption
  <2>2. x.at \in 1 .. Len(NameOrder) BY <1>7, <2>1
  <2> QED BY <1>4, <2>2, NameListed
<1>10. PICK in, out : in = EnterRun(w, NewRunId) /\ out = ReadContainers(in) OBVIOUS
<1>11. PICK v \in Values :
          /\ world' = CloseOutput(SaveOutput(OpenForUpdate(out, n, v)))
          /\ saved' = IF n \in in.db.list THEN S
                      ELSE S \cup {[run |-> NewRunId, name |-> n, value |-> v]}
  BY <1>2, <1>4, <1>7, <1>10 DEF ProcessUpdate
<1>12. /\ InputsRead(out, S) /\ RunRead(out.db) /\ out.db.current = NewRunId
       /\ HasRun(out.db, NewRunId) /\ out.db.list = in.db.list
       /\ \A f \in RootFiles : out.file[f] = w.file[f]
  BY <1>3, <1>7, <1>8, <1>10, UpdateEnters
<1>13. S \in SUBSET Sent /\ \A u \in S : u.run = NewRunId BY <1>2 DEF SavedRight
<1>14. SentInFile(out.file, S)
  <2>1. SentInFile(w.file, S) BY <1>2 DEF SavedRight, file
  <2>2. Output \in RootFiles BY <1>7, SetupTypes
  <2>3. PICK f, g : f = w.file /\ g = out.file OBVIOUS
  <2>4. SentInFile(f, S) /\ f[Output] = g[Output] BY <1>12, <2>1, <2>2, <2>3
  <2>5. SentInFile(g, S) BY <2>4, SentKept
  <2> QED BY <2>3, <2>5
<1>15. PICK y, T : /\ y = CloseOutput(SaveOutput(OpenForUpdate(out, n, v)))
                   /\ T = SavedWith(out.db, n, v, S)
  OBVIOUS
<1>16. world' = y /\ saved' = T BY <1>11, <1>12, <1>15 DEF SavedWith
<1>17. /\ InputsRead(y, T) /\ RunRead(y.db) /\ SentInFile(y.file, T)
       /\ T \subseteq Sent /\ \A u \in T : u.run = NewRunId
  BY <1>7, <1>9, <1>12, <1>13, <1>14, <1>15, UpdateRead
<1>18. InputsRead(world, saved)' /\ RunRead(db)' BY <1>1, <1>16, <1>17, ReadKept
<1>19. world' \in Worlds BY <1>16, <1>17 DEF InputsRead
<1>20. saved \subseteq saved' BY <1>2, <1>15, <1>16 DEF SavedWith
<1>21. ProcessorsRight' BY <1>1, <1>20, ProcessorsKept
<1>22. DevicesRight'
  <2>1. (SavesUpdates' <=> SavesUpdates) /\ Devices' = Devices BY <1>1, TopologyKept
  <2>2. PICK y1, c : y1 = dev'[d] /\ c = IF x.at = Len(NameOrder) THEN "done" ELSE "sends" OBVIOUS
  <2>3. PICK a : a = x.at + 1 OBVIOUS
  <2>4. y1 = [x EXCEPT !.at = a, !.pc = c] BY <1>1, <1>2, <1>6, <2>2, <2>3
  <2>5. a \in 1 .. Len(NameOrder) + 1 /\ (x.at # Len(NameOrder) => a <= Len(NameOrder))
    <3>1. Len(NameOrder) \in Nat BY NameAssumption
    <3> QED BY <1>9, <2>3, <3>1
  <2>6. c \in {"sends", "done"} BY <2>2
  <2>7. y1 \in P /\ y1.pc = c /\ y1.at = a /\ y1.run = x.run BY <1>5, <1>7, <2>4, <2>5, <2>6
  <2>8. \A e \in Devices : e # d => dev'[e] = dev[e] BY <1>1, <1>6
  <2>9. dev' \in [Devices -> P] BY <1>1, <1>6, <2>2, <2>7, <2>8
  <2>10. Reported' = Reported BY <1>1, <2>1, <2>2, <2>6, <2>7, <2>8 DEF Reported
  <2>11. ASSUME NEW e \in Devices, dev'[e].pc = "sends"
         PROVE dev'[e].run = NewRunId /\ SavesUpdates
    <3>1. CASE e = d BY <1>7, <2>2, <2>7, <3>1
    <3>2. CASE e # d BY <2>8, <2>11, <3>2 DEF DevicesRight
    <3> QED BY <3>1, <3>2
  <2>12. \A e \in Devices' : dev'[e].pc # "done" => dev'[e].at <= Len(NameOrder)
    <3>1. ASSUME NEW e \in Devices, dev'[e].pc # "done" PROVE dev'[e].at <= Len(NameOrder)
      <4>1. CASE e = d BY <2>2, <2>5, <2>7, <3>1, <4>1
      <4>2. CASE e # d BY <2>8, <3>1, <4>2 DEF DevicesRight
      <4> QED BY <4>1, <4>2
    <3> QED BY <2>1, <3>1
  <2> QED BY <1>1, <1>5, <2>1, <2>9, <2>10, <2>11, <2>12 DEF DevicesRight
<1>23. SavedRight'
  <2>1. SavesUpdates' BY <1>1, <1>7, TopologyKept
  <2>2. SentInFile(file, saved)' BY <1>16, <1>17 DEF SentInFile, file
  <2> QED BY <1>16, <1>17, <2>1, <2>2 DEF SavedRight
<1> QED BY <1>1, <1>18, <1>19, <1>21, <1>22, <1>23

LEMMA StopServerKeeps == ASSUME ServerInv, StopServer PROVE ServerInv'
<1>1. /\ topology' = topology /\ running' = FALSE /\ nofDevices' = nofDevices /\ dev' = dev
      /\ saved' = saved /\ proc' = proc /\ running /\ world' = Destroy(world)
  BY DEF StopServer
<1>2. PICK w, d : w = world /\ d = w.db OBVIOUS
<1>3. w \in Worlds /\ d \in Dbs /\ (SavesUpdates => d.output = NoFile)
  BY <1>1, <1>2 DEF ServerInv, InputsRead, OutputClosed, Worlds
<1>4. ASSUME NEW e \in Dbs, NEW k \in 1 .. 2
      PROVE CloseInput(e, k) \in Dbs /\ CloseInput(e, k).output = e.output
  <2>1. PICK g : g = CloseInput(e, k) OBVIOUS
  <2>2. g = [e EXCEPT !.open = @ \ {e.input[k]}, !.input[k] = NoFile] BY <2>1 DEF CloseInput
  <2>3. g \in Dbs /\ g.output = e.output BY <2>2 DEF Dbs, FileNames
  <2> QED BY <2>1, <2>3
<1>5. PICK e : e = CloseInput(CloseInput(d, 1), 2) OBVIOUS
<1>6. e \in Dbs /\ e.output = d.output
  <2>1. 1 \in 1 .. 2 /\ 2 \in 1 .. 2 OBVIOUS
  <2> QED BY <1>3, <1>4, <1>5, <2>1
<1>7. PICK u, v : u = [w EXCEPT !.db = e] /\ v = CloseOutput(u) OBVIOUS
<1>8. u \in Worlds /\ u.db = e /\ u.file = w.file BY <1>3, <1>6, <1>7 DEF Worlds
<1>9. world' = v BY <1>1, <1>2, <1>5, <1>7 DEF Destroy
<1>10. v \in Worlds /\ (e.output = NoFile => v.file = w.file)
  <2>1. CASE e.output = NoFile
    <3>1. v = u BY <1>7, <1>8, <2>1 DEF CloseOutput
    <3> QED BY <1>8, <3>1
  <2>2. CASE e.output # NoFile
    <3>1. u.db.output # NoFile BY <1>8, <2>2
    <3> QED BY <1>7, <1>8, <2>2, <3>1, CloseIs
  <2> QED BY <2>1, <2>2
<1>11. SavesUpdates => \A f \in RootFiles : world'.file[f] = world.file[f]
  BY <1>2, <1>3, <1>6, <1>9, <1>10
<1>12. world' \in Worlds BY <1>9, <1>10
<1> QED BY <1>1, <1>11, <1>12, StopKeeps

LEMMA StutterKeeps == ASSUME ServerInv, UNCHANGED serverVars PROVE ServerInv'
<1> USE DEF ServerInv, serverVars
<1>1. topology' = topology /\ world' = world /\ saved' = saved /\ running' = running OBVIOUS
<1>2. running' => InputsRead(world, saved)' /\ RunRead(db)'
  <2>1. PICK w, S : w = world /\ S = saved OBVIOUS
  <2>2. running => InputsRead(w, S) /\ RunRead(w.db) BY <2>1 DEF db
  <2> QED BY <1>1, <2>1, <2>2, ReadKept
<1>3. saved \subseteq saved' BY <1>1
<1>4. ProcessorsRight' BY <1>1, <1>3, ProcessorsKept
<1>5. DevicesRight' BY DevicesKept
<1>6. SavedRight' BY <1>1, SavedKept
<1> QED BY <1>1, <1>2, <1>4, <1>5, <1>6

-----------------------------------------------------------------------------
(* What the invariant says of the clients. *)

LEMMA InvServerTypes == ASSUME ServerInv PROVE ServerTypeOK
<1> USE DEF ServerInv
<1>1. db \in Dbs BY DEF db, Worlds
<1>2. PICK d : d = db OBVIOUS
<1>3. /\ d.list \subseteq Names /\ d.current \in RunIds \cup {NoRun}
      /\ \A n \in Names : d.cont[n].value \in Values \cup {NoValue}
      /\ \A r \in RunIds, n \in Names : d.vers[r][n].root \in Nat
  BY <1>1, <1>2 DEF Dbs, Containers, Versions
<1>4. \A p \in TaskProcessors : proc[p].params \in [Names -> Values \cup {NoValue}]
  BY DEF ProcessorsRight
<1>5. nofDevices \in 0 .. Cardinality(Devices)
  <2>1. IsFiniteSet(Devices) /\ Reported \subseteq Devices BY SetupTypes DEF Reported
  <2>2. /\ IsFiniteSet(Reported) /\ Cardinality(Reported) <= Cardinality(Devices)
    BY <2>1, FS_Subset
  <2>3. Cardinality(Reported) \in Nat /\ Cardinality(Devices) \in Nat
    BY <2>1, <2>2, FS_CardinalityType
  <2>4. nofDevices = Cardinality(Reported) BY DEF DevicesRight
  <2> QED BY <2>2, <2>3, <2>4
<1> QED BY <1>2, <1>3, <1>4, <1>5 DEF ServerTypeOK

LEMMA InvOwn == ASSUME ServerInv PROVE OwnRunParameters
BY SMTT(30) DEF ServerInv, ProcessorsRight, OwnRunParameters, Own

LEMMA InvSaved == ASSUME ServerInv PROVE SavedTrue
<1> SUFFICES ASSUME NEW u \in saved, Readable(Output, u.run, u.name)
             PROVE ValueIn(Output, u.run, u.name) = u.value
  BY DEF SavedTrue
<1>1. PICK v \in Nat : /\ v = file[Output].run[u.run][u.name]
                       /\ v <= Len(file[Output].cycles[u.name])
                       /\ v > 0 => file[Output].cycles[u.name][v] = u.value
  BY DEF ServerInv, SavedRight, SentInFile
<1>2. v > 0 BY <1>1 DEF Readable
<1>3. ValueIn(Output, u.run, u.name) = file[Output].cycles[u.name][v] BY <1>1 DEF ValueIn, KeyAt
<1> QED BY <1>1, <1>2, <1>3

\* Every step of the server and its clients keeps the invariant, where no input is the output.
THEOREM ServerInvariant == ASSUME OutputApart PROVE ServerSpec => []ServerInv
<1>1. ClientsInit => ServerInv BY ServerStarts
<1>2. ServerInv /\ [ServerNext]_serverVars => ServerInv'
  <2> SUFFICES ASSUME ServerInv, [ServerNext]_serverVars PROVE ServerInv' OBVIOUS
  <2>1. ASSUME NEW p \in TaskProcessors, ProcessDataOfRun(p) PROVE ServerInv'
    BY <2>1, ProcessDataKeeps
  <2>2. ASSUME NEW p \in TaskProcessors, ProcessRequest(p) PROVE ServerInv'
    BY <2>2, ProcessRequestKeeps
  <2>3. ASSUME NEW p \in TaskProcessors, RequestFails(p) PROVE ServerInv'
    BY <2>3, RequestFailsKeeps
  <2>4. ASSUME NEW d \in Devices, ReportSimDevice(d) PROVE ServerInv' BY <2>4, ReportKeeps
  <2>5. ASSUME NEW d \in Devices, ProcessUpdate(d) PROVE ServerInv' BY <2>5, ProcessUpdateKeeps
  <2>6. ASSUME NEW d \in Devices, UpdateFails(d) PROVE ServerInv' BY <2>6, UpdateFailsKeeps
  <2>7. CASE StopServer BY <2>7, StopServerKeeps
  <2>8. CASE UNCHANGED serverVars BY <2>8, StutterKeeps
  <2> QED BY <2>1, <2>2, <2>3, <2>4, <2>5, <2>6, <2>7, <2>8 DEF ServerNext
<1> QED BY <1>1, <1>2, PTL DEF ServerSpec

\* Where no input of the server is its output: whatever runs its clients ask for in between,
\* a processor has the parameters of the run of its data, or a container that a device sent
\* to the same server, and the tables of the output name no other value than the one that
\* was sent, also after the server was stopped or a request failed (FairRuntimeDb's
\* initContainers, writeContainers and closeOutput behind ParameterMQServer).
THEOREM ParametersAlwaysRight == ASSUME OutputApart PROVE ServerSpec => []ParametersRight
<1>1. ServerInv => ParametersRight BY InvServerTypes, InvOwn, InvSaved DEF ParametersRight
<1> QED BY <1>1, ServerInvariant, PTL
=============================================================================
