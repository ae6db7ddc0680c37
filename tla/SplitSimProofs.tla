--------------------------- MODULE SplitSimProofs ---------------------------
(***************************************************************************)
(* Theorems about the simulation that is split over processes, for every   *)
(* number of transport devices, events, sizes of events and chunks: the    *)
(* devices agree, the merger never gets a part twice, and every event that *)
(* the generator made is stored exactly once before the generator ends --  *)
(* whole, where the chunks divide it, with every index leading to the      *)
(* right track.                                                            *)
(***************************************************************************)
EXTENDS SplitSim, SequenceLemmas

-----------------------------------------------------------------------------
(* The inductive invariant. *)

\* The generator and how far it is.
GenInv ==
    /\ setup \in Setups
    /\ gen \in [state : {"running", "joining", "done"}, fEventCounter : 0 .. NofEvents + 1,
                fChunkPointer : Nat, prims : EventSizes \cup {0}]
    /\ sizes \in Seq(Nat) /\ Len(sizes) <= NofEvents
    /\ gen.state = "running" => gen.fEventCounter = Len(sizes)
    /\ gen.fChunkPointer # 0 => /\ gen.state = "running" /\ ChunkSize # 0
                                /\ Len(sizes) > 0 /\ gen.prims = sizes[Len(sizes)]

\* Every message the sink stored is acknowledged once.
AckInv ==
    /\ numAcks \in 0 .. NofEvents /\ ack \in Nat
    /\ IsSeq(tree) /\ IsSeq(dataOut) /\ Len(dataOut) <= ChannelSize
    /\ numAcks + ack = Len(tree)
    /\ gen.state = "done" => numAcks = NofEvents

Started == {t \in Transporters : transporter[t].state # "starting"}

DeviceInv ==
    /\ transporter \in [Transporters -> [state : {"starting", "running", "waiting"},
                                         fRunId : Nat, fTransportDeviceId : Nat]]
    /\ server \in [fRunId : Nat, fNofSimDevices : Nat]
    /\ server.fNofSimDevices = Cardinality(Started)
    /\ \A t \in Started : /\ transporter[t].fRunId = server.fRunId
                          /\ transporter[t].fTransportDeviceId < server.fNofSimDevices
    /\ \A t, u \in Started :
          t # u => transporter[t].fTransportDeviceId # transporter[u].fTransportDeviceId

IsChannel(c) == AreChannels(Transporters, ChannelSize, c)

ChannelInv ==
    /\ IsChannel(primaries) /\ IsChannel(data)
    /\ requests \in Seq(Transporters)

\* A chunk is known by its event and where it starts.
Id(header) == <<header.event, header.chunkStart>>

\* The chunks that have been generated, or lie before one that has.
Made == {c \in (1 .. Len(sizes)) \X Nat :
             c[1] = Len(sizes) => gen.fChunkPointer = 0 \/ c[2] < gen.fChunkPointer}

NofChunks == [e \in 1 .. Len(sizes) |-> IF ChunkSize = 0 THEN 1 ELSE sizes[e] \div ChunkSize]

PartHeaders == [event : Nat, run : Nat, nofChunks : Int, chunkStart : Nat]

IsMerger(m) ==
    /\ m \in [fNofPartsPerEventMap : {m.fNofPartsPerEventMap}, fObjectMap : {m.fObjectMap},
              fatal : BOOLEAN]
    /\ IsSeq(m.fObjectMap)
    /\ \A i \in DOMAIN m.fObjectMap :
          m.fObjectMap[i] \in [key : {m.fObjectMap[i].key}, start : {m.fObjectMap[i].start},
                               name : {m.fObjectMap[i].name}, array : {m.fObjectMap[i].array}]
    /\ \A c \in m.fNofPartsPerEventMap : c.n \in Nat
    /\ \A c, d \in m.fNofPartsPerEventMap : c.key = d.key => c = d

\* The chunks the merger has, or had.
Merged == {<<merger.fObjectMap[i].key[1], merger.fObjectMap[i].start>> :
               i \in DOMAIN merger.fObjectMap}

\* What is on its way to the transport devices, and to the merger, has been made.
PartsMade ==
    /\ \A t \in Transporters : \A i \in DOMAIN primaries[t] :
          LET h == primaries[t][i]
          IN  Id(h) \in Made /\ h.nofChunks \in Int /\ h.nofChunks = NofChunks[h.event]
    /\ \A t \in Transporters : \A i \in DOMAIN data[t] :
          LET h == data[t][i].header
          IN  /\ Id(h) \in Made /\ h.nofChunks = NofChunks[h.event]
              /\ h \in PartHeaders
              /\ h.run = server.fRunId /\ server.fNofSimDevices > 0
    /\ IsMerger(merger) /\ ~merger.fatal
    /\ Merged \subseteq Made

\* A chunk is in one place, once.
PartsOnce ==
    /\ \A t, u \in Transporters : \A i \in DOMAIN primaries[t], j \in DOMAIN primaries[u] :
          Id(primaries[t][i]) = Id(primaries[u][j]) => t = u /\ i = j
    /\ \A t, u \in Transporters : \A i \in DOMAIN data[t], j \in DOMAIN data[u] :
          Id(data[t][i].header) = Id(data[u][j].header) => t = u /\ i = j
    /\ \A t, u \in Transporters : \A i \in DOMAIN primaries[t], j \in DOMAIN data[u] :
          Id(primaries[t][i]) # Id(data[u][j].header)
    /\ \A t \in Transporters : \A i \in DOMAIN primaries[t] : Id(primaries[t][i]) \notin Merged
    /\ \A t \in Transporters : \A i \in DOMAIN data[t] : Id(data[t][i].header) \notin Merged

\* The events of which as many parts have come as they have chunks.
Complete ==
    {e \in 1 .. Len(sizes) :
        /\ server.fNofSimDevices > 0
        /\ PartsReceived(merger, <<e, server.fRunId>>) >= NofChunks[e]}

\* Each event is sent on and stored once.
EventsOnce ==
    /\ \A i \in DOMAIN tree : tree[i].header.event \in Complete
    /\ \A i \in DOMAIN dataOut : dataOut[i].header.event \in Complete
    /\ \A i, j \in DOMAIN tree : tree[i].header.event = tree[j].header.event => i = j
    /\ \A i, j \in DOMAIN dataOut : dataOut[i].header.event = dataOut[j].header.event => i = j
    /\ \A i \in DOMAIN tree, j \in DOMAIN dataOut :
          tree[i].header.event # dataOut[j].header.event

SplitInv == GenInv /\ AckInv /\ DeviceInv /\ ChannelInv /\ PartsMade /\ PartsOnce /\ EventsOnce

-----------------------------------------------------------------------------
(* Channels and the merger. *)

LEMMA ConstantsOK ==
    /\ IsFiniteSet(Transporters) /\ NofEvents \in Nat \ {0} /\ ChannelSize \in Nat \ {0}
    /\ EventSizes \subseteq Nat \ {0}
    /\ GenInv => Push \in BOOLEAN /\ ChunkSize \in Nat
  BY SplitAssumption DEF SplitAssumption, GenInv, Push, ChunkSize

\* How often a part was counted.
LEMMA PartsReceivedIs ==
    ASSUME NEW m, IsMerger(m), NEW key
    PROVE /\ PartsReceived(m, key) \in Nat
          /\ \A c \in m.fNofPartsPerEventMap : c.key = key => PartsReceived(m, key) = c.n
          /\ (\A c \in m.fNofPartsPerEventMap : c.key # key) => PartsReceived(m, key) = 0
<1> DEFINE S == m.fNofPartsPerEventMap
           d == CHOOSE c \in S : c.key = key
<1>1. CASE \E c \in S : c.key = key
  <2>1. d \in S /\ d.key = key BY <1>1
  <2>2. PartsReceived(m, key) = d.n BY <1>1 DEF PartsReceived
  <2> QED BY <1>1, <2>1, <2>2 DEF IsMerger
<1>2. CASE ~ \E c \in S : c.key = key
  <2>1. PartsReceived(m, key) = 0 BY <1>2 DEF PartsReceived
  <2> QED BY <1>2, <2>1
<1> QED BY <1>1, <1>2

LEMMA CountPartIs ==
    ASSUME NEW m, IsMerger(m), NEW key
    PROVE LET after == CountPart(m, key)
          IN  /\ IsMerger(after) /\ after.fatal = m.fatal /\ after.fObjectMap = m.fObjectMap
              /\ \A k : PartsReceived(after, k) = IF k = key THEN PartsReceived(m, k) + 1
                                                  ELSE PartsReceived(m, k)
<1> DEFINE after == CountPart(m, key)
           S == m.fNofPartsPerEventMap
           new == [key |-> key, n |-> PartsReceived(m, key) + 1]
           T == {c \in S : c.key # key} \cup {new}
<1>1. after = [m EXCEPT !.fNofPartsPerEventMap = T] BY DEF CountPart
<1>2. /\ m \in [fNofPartsPerEventMap : {S}, fObjectMap : {m.fObjectMap}, fatal : BOOLEAN]
  BY DEF IsMerger
<1>3. /\ after.fNofPartsPerEventMap = T /\ after.fatal = m.fatal /\ after.fObjectMap = m.fObjectMap
      /\ after \in [fNofPartsPerEventMap : {after.fNofPartsPerEventMap},
                    fObjectMap : {after.fObjectMap}, fatal : BOOLEAN]
  <2> HIDE DEF after, T, S
  <2> QED BY <1>1, <1>2
<1>4. PartsReceived(m, key) + 1 \in Nat BY PartsReceivedIs
<1>5. new.key = key /\ new.n = PartsReceived(m, key) + 1 OBVIOUS
<1>6. /\ \A c \in S : c.n \in Nat
      /\ \A c, d \in S : c.key = d.key => c = d
  BY DEF IsMerger
<1> HIDE DEF new
<1>7. /\ \A c \in T : c.n \in Nat
      /\ \A c, d \in T : c.key = d.key => c = d
  BY <1>4, <1>5, <1>6
<1>8. IsMerger(after)
  <2> HIDE DEF after, T, S
  <2>1. /\ IsSeq(m.fObjectMap)
        /\ \A i \in DOMAIN m.fObjectMap :
              m.fObjectMap[i] \in [key : {m.fObjectMap[i].key}, start : {m.fObjectMap[i].start},
                                   name : {m.fObjectMap[i].name}, array : {m.fObjectMap[i].array}]
    BY DEF IsMerger
  <2> QED BY <1>3, <1>7, <2>1 DEF IsMerger
<1>9. ASSUME NEW k
      PROVE PartsReceived(after, k) = IF k = key THEN PartsReceived(m, k) + 1 ELSE PartsReceived(m, k)
  <2>1. /\ \A c \in T : c.key = k => PartsReceived(after, k) = c.n
        /\ (\A c \in T : c.key # k) => PartsReceived(after, k) = 0
    <3> HIDE DEF after, T
    <3> QED BY <1>3, <1>8, PartsReceivedIs
  <2>2. /\ \A c \in S : c.key = k => PartsReceived(m, k) = c.n
        /\ (\A c \in S : c.key # k) => PartsReceived(m, k) = 0
    BY PartsReceivedIs
  <2>3. CASE k = key BY <1>5, <2>1, <2>3
  <2>4. CASE k # key
    <3>1. CASE \E c \in S : c.key = k
      <4>1. PICK c \in S : c.key = k BY <3>1
      <4>2. c \in T BY <2>4, <4>1
      <4> HIDE DEF after, T, S
      <4> QED BY <2>1, <2>2, <2>4, <4>1, <4>2
    <3>2. CASE ~ \E c \in S : c.key = k
      <4>1. \A c \in T : c.key # k BY <1>5, <2>4, <3>2
      <4> HIDE DEF after, T, S
      <4> QED BY <2>1, <2>2, <2>4, <3>2, <4>1
    <3> QED BY <3>1, <3>2
  <2> QED BY <2>3, <2>4
<1> QED BY <1>3, <1>8, <1>9

\* What the merger makes of a part it has not got yet.
LEMMA MergeDataIs ==
    ASSUME NEW m, IsMerger(m), NEW part, ~GotAgain(m, part.header)
    PROVE LET after == MergeData(m, part)
          IN  /\ IsMerger(after) /\ after.fatal = m.fatal
              /\ \A i \in DOMAIN after.fObjectMap :
                    \/ \E j \in DOMAIN m.fObjectMap :
                          /\ after.fObjectMap[i].key = m.fObjectMap[j].key
                          /\ after.fObjectMap[i].start = m.fObjectMap[j].start
                    \/ /\ after.fObjectMap[i].key = Key(part.header)
                       /\ after.fObjectMap[i].start = part.header.chunkStart
              /\ \A k : PartsReceived(after, k) =
                           IF k = Key(part.header) THEN PartsReceived(m, k) + 1
                           ELSE PartsReceived(m, k)
<1> DEFINE key == Key(part.header)
           n == CountPart(m, key)
           after == MergeData(m, part)
           old == n.fObjectMap
<1>1. /\ IsMerger(n) /\ n.fatal = m.fatal /\ n.fObjectMap = m.fObjectMap
      /\ \A k : PartsReceived(n, k) = IF k = key THEN PartsReceived(m, k) + 1 ELSE PartsReceived(m, k)
  BY CountPartIs
<1>2. after = IF IsLastPart(m, part.header) THEN EraseMerged(n, key) ELSE PutInBuffer(n, part)
  BY DEF MergeData
<1> HIDE DEF n, after, key
<1>3. /\ n \in [fNofPartsPerEventMap : {n.fNofPartsPerEventMap}, fObjectMap : {n.fObjectMap},
                fatal : BOOLEAN]
      /\ IsSeq(old)
      /\ \A i \in DOMAIN old : old[i] \in [key : {old[i].key}, start : {old[i].start},
                                           name : {old[i].name}, array : {old[i].array}]
  BY <1>1 DEF IsMerger
<1> HIDE DEF old
\* Only the entries change.
<1>4. ASSUME NEW q, after = [n EXCEPT !.fObjectMap = q], IsSeq(q),
             \A i \in DOMAIN q : /\ q[i] \in [key : {q[i].key}, start : {q[i].start},
                                              name : {q[i].name}, array : {q[i].array}]
                                 /\ \/ \E j \in DOMAIN old : q[i].key = old[j].key /\ q[i].start = old[j].start
                                    \/ q[i].key = key /\ q[i].start = part.header.chunkStart
      PROVE /\ IsMerger(after) /\ after.fatal = m.fatal
            /\ \A i \in DOMAIN after.fObjectMap :
                    \/ \E j \in DOMAIN m.fObjectMap :
                          /\ after.fObjectMap[i].key = m.fObjectMap[j].key
                          /\ after.fObjectMap[i].start = m.fObjectMap[j].start
                    \/ /\ after.fObjectMap[i].key = key
                       /\ after.fObjectMap[i].start = part.header.chunkStart
            /\ \A k : PartsReceived(after, k) =
                         IF k = key THEN PartsReceived(m, k) + 1 ELSE PartsReceived(m, k)
  <2>1. /\ after.fObjectMap = q /\ after.fatal = n.fatal
        /\ after.fNofPartsPerEventMap = n.fNofPartsPerEventMap
        /\ after \in [fNofPartsPerEventMap : {after.fNofPartsPerEventMap},
                      fObjectMap : {after.fObjectMap}, fatal : BOOLEAN]
    BY <1>3, <1>4
  <2>2. IsMerger(after) BY <1>1, <1>4, <2>1 DEF IsMerger
  <2>3. \A k : PartsReceived(after, k) = PartsReceived(n, k) BY <2>1 DEF PartsReceived
  <2>4. old = m.fObjectMap BY <1>1 DEF old
  <2> QED BY <1>1, <1>4, <2>1, <2>2, <2>3, <2>4
<1>5. CASE IsLastPart(m, part.header)
  <2> DEFINE Emptied(i) == IF old[i].key = key THEN [old[i] EXCEPT !.array = << >>] ELSE old[i]
             q == [i \in DOMAIN old |-> Emptied(i)]
  <2>1. after = [n EXCEPT !.fObjectMap = q] BY <1>2, <1>5 DEF EraseMerged, old
  <2>2. Len(old) \in Nat /\ DOMAIN old = 1 .. Len(old) BY <1>3, IsSeqIs
  <2>3. IsSeq(q)
    <3>1. q \in [1 .. Len(old) -> {q[i] : i \in 1 .. Len(old)}] BY <2>2
    <3>2. q \in Seq({q[i] : i \in 1 .. Len(old)})
      <4> HIDE DEF q
      <4> QED BY <2>2, <3>1
    <3> QED BY <3>2 DEF IsSeq
  <2>4. ASSUME NEW i \in DOMAIN q
        PROVE /\ q[i] \in [key : {q[i].key}, start : {q[i].start}, name : {q[i].name}, array : {q[i].array}]
              /\ i \in DOMAIN old /\ q[i].key = old[i].key /\ q[i].start = old[i].start
    <3>1. i \in DOMAIN old /\ q[i] = Emptied(i) OBVIOUS
    <3>2. old[i] \in [key : {old[i].key}, start : {old[i].start}, name : {old[i].name}, array : {old[i].array}]
      BY <1>3, <3>1
    <3> DEFINE o == old[i]
    <3>3. q[i] = o \/ q[i] = [o EXCEPT !.array = << >>] BY <3>1
    <3> HIDE DEF q, o
    <3>4. o \in [key : {o.key}, start : {o.start}, name : {o.name}, array : {o.array}] BY <3>2 DEF o
    <3>5. CASE q[i] = o BY <3>1, <3>4, <3>5 DEF o
    <3>6. CASE q[i] = [o EXCEPT !.array = << >>]
      <4>1. /\ q[i] \in [key : {q[i].key}, start : {q[i].start}, name : {q[i].name}, array : {q[i].array}]
            /\ q[i].key = o.key /\ q[i].start = o.start
        BY <3>4, <3>6
      <4> QED BY <3>1, <4>1 DEF o
    <3> QED BY <3>3, <3>5, <3>6
  <2> HIDE DEF q
  <2> QED BY <1>4, <2>1, <2>3, <2>4 DEF key, after
<1>6. CASE ~IsLastPart(m, part.header)
  <2> DEFINE Entry(branch) == [key |-> key, start |-> part.header.chunkStart,
                               name |-> branch, array |-> part.arrays[branch]]
             two == <<Entry("MCTrack"), Entry("PixelPoint")>>
             q == old \o two
  <2>1. after = [n EXCEPT !.fObjectMap = q] BY <1>2, <1>6 DEF PutInBuffer, old, key
  <2>2. IsSeq(two) /\ Len(two) = 2 /\ DOMAIN two = 1 .. 2
    <3>1. two \in Seq({Entry("MCTrack"), Entry("PixelPoint")}) OBVIOUS
    <3>2. Len(two) = 2 /\ DOMAIN two = 1 .. 2 OBVIOUS
    <3> QED BY <3>1, <3>2 DEF IsSeq
  <2>3. \A i \in 1 .. 2 : /\ two[i].key = key /\ two[i].start = part.header.chunkStart
                          /\ two[i] \in [key : {two[i].key}, start : {two[i].start},
                                         name : {two[i].name}, array : {two[i].array}]
    <3>1. two[1] = Entry("MCTrack") /\ two[2] = Entry("PixelPoint") OBVIOUS
    <3>2. \A b : /\ Entry(b).key = key /\ Entry(b).start = part.header.chunkStart
                 /\ Entry(b) \in [key : {Entry(b).key}, start : {Entry(b).start},
                                  name : {Entry(b).name}, array : {Entry(b).array}]
      OBVIOUS
    <3> HIDE DEF Entry, two
    <3> QED BY <3>1, <3>2
  <2> HIDE DEF two, Entry
  <2>4. /\ IsSeq(q) /\ Len(q) = Len(old) + 2 /\ DOMAIN q = 1 .. Len(old) + 2
        /\ \A i \in DOMAIN old : q[i] = old[i]
        /\ \A i \in 1 .. 2 : q[Len(old) + i] = two[i]
    <3>1. q = old \o two OBVIOUS
    <3>2. IsSeq(old) /\ IsSeq(two) BY <1>3, <2>2
    <3> HIDE DEF q
    <3>3. IsSeq(q) /\ Len(q) = Len(old) + Len(two) /\ DOMAIN q = 1 .. Len(old) + Len(two)
      BY <3>1, <3>2, ConcatIs
    <3>4. \A i \in DOMAIN old : q[i] = old[i] BY <3>1, <3>2, ConcatIs
    <3>5. \A i \in DOMAIN two : q[Len(old) + i] = two[i] BY <3>1, <3>2, ConcatIs
    <3> QED BY <2>2, <3>3, <3>4, <3>5
  <2>5. Len(old) \in Nat /\ DOMAIN old = 1 .. Len(old) BY <1>3, IsSeqIs
  <2> HIDE DEF q
  <2>6. ASSUME NEW i \in DOMAIN q
        PROVE /\ q[i] \in [key : {q[i].key}, start : {q[i].start}, name : {q[i].name}, array : {q[i].array}]
              /\ \/ \E j \in DOMAIN old : q[i].key = old[j].key /\ q[i].start = old[j].start
                 \/ q[i].key = key /\ q[i].start = part.header.chunkStart
    <3>1. CASE i \in DOMAIN old BY <1>3, <2>4, <3>1
    <3>2. CASE i \notin DOMAIN old
      <4>1. i - Len(old) \in 1 .. 2 /\ Len(old) + (i - Len(old)) = i BY <2>4, <2>5, <3>2
      <4>2. q[i] = two[i - Len(old)] BY <2>4, <4>1
      <4> QED BY <2>3, <4>1, <4>2
    <3> QED BY <3>1, <3>2
  <2> QED BY <1>4, <2>1, <2>4, <2>6 DEF key, after
<1> QED BY <1>5, <1>6

-----------------------------------------------------------------------------
(* The initial states, and what the parts of the invariant depend on. *)

LEMMA SplitInit == Init => SplitInv
<1> SUFFICES ASSUME Init PROVE SplitInv OBVIOUS
<1> USE DEF Init
<1>1. IsSeq(<< >>) /\ Len(<< >>) = 0 /\ DOMAIN << >> = {}
  <2>1. DOMAIN << >> = 1 .. 0 BY EmptyIsSeq, IsSeqIs
  <2> QED BY <2>1, EmptyIsSeq
<1>2. GenInv
  <2>1. sizes \in Seq(Nat) /\ Len(sizes) = 0 BY EmptySeq
  <2> QED BY <2>1, ConstantsOK DEF GenInv
<1>3. AckInv BY <1>1, ConstantsOK DEF AckInv
<1>4. Started = {} BY DEF Started
<1>5. DeviceInv BY <1>4, FS_EmptySet DEF DeviceInv
<1>6. ChannelInv
  <2>1. IsChannel(primaries) BY <1>1, ConstantsOK DEF IsChannel, AreChannels
  <2>2. IsChannel(data) BY <1>1, ConstantsOK DEF IsChannel, AreChannels
  <2>3. requests \in Seq(Transporters) BY EmptySeq
  <2> QED BY <2>1, <2>2, <2>3 DEF ChannelInv
<1>7. /\ merger.fObjectMap = << >> /\ merger.fNofPartsPerEventMap = {} /\ merger.fatal = FALSE
      /\ DOMAIN merger.fObjectMap = {}
  BY <1>1 DEF EmptyMerger
<1>8. IsMerger(merger)
  <2>1. merger \in [fNofPartsPerEventMap : {merger.fNofPartsPerEventMap},
                    fObjectMap : {merger.fObjectMap}, fatal : BOOLEAN]
    BY DEF EmptyMerger
  <2> QED BY <1>1, <1>7, <2>1 DEF IsMerger
<1>9. \A t \in Transporters : DOMAIN primaries[t] = {} /\ DOMAIN data[t] = {} BY <1>1
<1>10. PartsMade BY <1>7, <1>8, <1>9 DEF PartsMade, Merged
<1>11. PartsOnce BY <1>9 DEF PartsOnce
<1>12. EventsOnce BY <1>1 DEF EventsOnce
<1> QED BY <1>2, <1>3, <1>5, <1>6, <1>10, <1>11, <1>12 DEF SplitInv

LEMMA GenKept == ASSUME GenInv, UNCHANGED <<setup, gen, sizes>> PROVE GenInv'
  BY DEF GenInv, ChunkSize
LEMMA AckKept == ASSUME AckInv, UNCHANGED <<numAcks, ack, tree, dataOut, gen>> PROVE AckInv'
  BY DEF AckInv
LEMMA DeviceKept == ASSUME DeviceInv, UNCHANGED <<transporter, server>> PROVE DeviceInv'
  BY DEF DeviceInv, Started
LEMMA ChannelKept == ASSUME ChannelInv, UNCHANGED <<primaries, data, requests>> PROVE ChannelInv'
  BY DEF ChannelInv, IsChannel, AreChannels

\* The parts depend on the generator only through where it is.
LEMMA MadeKept ==
    ASSUME UNCHANGED <<setup, sizes>>, gen'.fChunkPointer = gen.fChunkPointer
    PROVE Made' = Made /\ NofChunks' = NofChunks
  BY DEF Made, NofChunks, ChunkSize
LEMMA PartsMadeKept ==
    ASSUME PartsMade, UNCHANGED <<setup, sizes, primaries, data, merger, server>>,
           gen'.fChunkPointer = gen.fChunkPointer
    PROVE PartsMade'
<1>1. Made' = Made /\ NofChunks' = NofChunks BY MadeKept
<1>2. Merged' = Merged BY DEF Merged
<1>3. IsMerger(merger)' BY DEF PartsMade, IsMerger
<1> QED BY <1>1, <1>2, <1>3 DEF PartsMade
LEMMA PartsOnceKept ==
    ASSUME PartsOnce, UNCHANGED <<primaries, data, merger>> PROVE PartsOnce'
  BY DEF PartsOnce, Merged
LEMMA EventsOnceKept ==
    ASSUME EventsOnce, UNCHANGED <<setup, sizes, server, merger, tree, dataOut>> PROVE EventsOnce'
<1>1. NofChunks' = NofChunks BY DEF NofChunks, ChunkSize
<1>2. Complete' = Complete BY <1>1 DEF Complete
<1> QED BY <1>2 DEF EventsOnce

-----------------------------------------------------------------------------
(* The generator. *)

\* The chunk that is sent has not been made before.
LEMMA ChunkMade ==
    ASSUME GenInv, NEW size \in EventSizes, gen.state = "running",
           NEW g, g = NextEvent(gen, size), ~AllGenerated(g),
           setup' = setup, gen' = AdvanceChunk(g),
           sizes' = IF gen.fChunkPointer = 0 THEN Append(sizes, size) ELSE sizes,
           NEW h, h = ChunkHeader(g)
    PROVE /\ GenInv' /\ gen'.state = "running"
          /\ Id(h) \in Made' /\ Id(h) \notin Made
          /\ h.nofChunks \in Int /\ h.nofChunks = NofChunks'[h.event]
          /\ Made \subseteq Made'
          /\ \A e \in 1 .. Len(sizes) : NofChunks'[e] = NofChunks[e] /\ e \in 1 .. Len(sizes')
          /\ sizes' = sizes \/ Len(sizes') = Len(sizes) + 1
<1> DEFINE cs == ChunkSize
           fcp == gen.fChunkPointer
           n == Len(sizes)
<1>1. /\ cs \in Nat /\ fcp \in Nat /\ n \in Nat /\ n <= NofEvents /\ NofEvents \in Nat
      /\ gen.fEventCounter = n /\ size \in Nat /\ sizes \in Seq(Nat)
      /\ gen \in [state : {"running", "joining", "done"}, fEventCounter : 0 .. NofEvents + 1,
                  fChunkPointer : Nat, prims : EventSizes \cup {0}]
  BY ConstantsOK DEF GenInv
<1>2. cs' = cs BY DEF ChunkSize
\* The event in work.
<1>3. /\ g.state = "running" /\ g.fChunkPointer = fcp
      /\ g \in [state : {"running", "joining", "done"}, fEventCounter : 0 .. NofEvents + 1,
                fChunkPointer : Nat, prims : EventSizes \cup {0}]
      /\ g.fEventCounter = Len(sizes') /\ g.prims = sizes'[Len(sizes')]
      /\ sizes' \in Seq(Nat) /\ Len(sizes') > 0 /\ Len(sizes') <= NofEvents
      /\ \A e \in 1 .. n : sizes'[e] = sizes[e] /\ e \in 1 .. Len(sizes')
      /\ fcp = 0 => Len(sizes') = n + 1
      /\ fcp # 0 => Len(sizes') = n /\ sizes' = sizes /\ cs # 0
  <2>1. CASE fcp = 0
    <3>1. g = [gen EXCEPT !.fEventCounter = @ + 1, !.prims = size] BY <2>1 DEF NextEvent
    <3>2. /\ g.state = "running" /\ g.fEventCounter = n + 1 /\ g.fChunkPointer = fcp /\ g.prims = size
          /\ g \in [state : {"running", "joining", "done"}, fEventCounter : 0 .. NofEvents + 1,
                    fChunkPointer : Nat, prims : EventSizes \cup {0}]
      <4>1. g = [state |-> gen.state, fEventCounter |-> gen.fEventCounter + 1,
                 fChunkPointer |-> gen.fChunkPointer, prims |-> size]
        BY <1>1, <3>1
      <4>2. n + 1 \in 0 .. NofEvents + 1 /\ gen.state \in {"running", "joining", "done"} BY <1>1
      <4> HIDE DEF n
      <4> QED BY <1>1, <4>1, <4>2
    <3>3. n + 1 <= NofEvents BY <1>1, <3>2 DEF AllGenerated
    <3>4. sizes' = Append(sizes, size) BY <2>1
    <3>5. /\ sizes' \in Seq(Nat) /\ Len(sizes') = n + 1 /\ sizes'[n + 1] = size
          /\ \A e \in 1 .. n : sizes'[e] = sizes[e]
      BY <1>1, <3>4, AppendProperties
    <3>6. \A e \in 1 .. n : e \in 1 .. n + 1 BY <1>1
    <3> HIDE DEF n
    <3> QED BY <1>1, <2>1, <3>2, <3>3, <3>5, <3>6
  <2>2. CASE fcp # 0
    <3>1. g = gen /\ sizes' = sizes BY <2>2 DEF NextEvent
    <3>2. Len(sizes) > 0 /\ gen.prims = sizes[Len(sizes)] /\ cs # 0 BY <2>2 DEF GenInv
    <3> QED BY <1>1, <2>2, <3>1, <3>2
  <2> QED BY <2>1, <2>2
\* How it goes on.
<1>4. /\ gen' \in [state : {"running", "joining", "done"}, fEventCounter : 0 .. NofEvents + 1,
                   fChunkPointer : Nat, prims : EventSizes \cup {0}]
      /\ gen'.state = "running" /\ gen'.fEventCounter = g.fEventCounter /\ gen'.prims = g.prims
      /\ gen'.fChunkPointer = 0 \/ (gen'.fChunkPointer = fcp + cs /\ cs # 0)
  <2>1. CASE cs = 0 \/ fcp + cs >= g.prims
    <3>1. gen' = [g EXCEPT !.fChunkPointer = 0] BY <1>3, <2>1 DEF AdvanceChunk
    <3> HIDE DEF cs, fcp
    <3> QED BY <1>3, <3>1
  <2>2. CASE ~(cs = 0 \/ fcp + cs >= g.prims)
    <3>1. gen' = [g EXCEPT !.fChunkPointer = fcp + cs] BY <1>3, <2>2 DEF AdvanceChunk
    <3>2. fcp + cs \in Nat BY <1>1
    <3> HIDE DEF cs, fcp
    <3> QED BY <1>3, <2>2, <3>1, <3>2
  <2> QED BY <2>1, <2>2
<1>5. /\ h.event = Len(sizes')
      /\ h.nofChunks = IF cs = 0 THEN 1 ELSE sizes'[Len(sizes')] \div cs
      /\ h.chunkStart = fcp
  <2>1. cs = 0 => fcp = 0 BY DEF GenInv
  <2>2. /\ h.event = g.fEventCounter /\ h.nofChunks = IF cs = 0 THEN 1 ELSE g.prims \div cs
        /\ h.chunkStart = IF cs = 0 THEN 0 ELSE g.fChunkPointer
    BY DEF ChunkHeader
  <2> QED BY <1>3, <2>1, <2>2
<1>6. GenInv' BY <1>1, <1>2, <1>3, <1>4 DEF GenInv
<1>7. h.nofChunks = NofChunks'[h.event]
  <2>1. Len(sizes') \in 1 .. Len(sizes') BY <1>3
  <2> QED BY <1>2, <1>5, <2>1 DEF NofChunks
<1>8. h.nofChunks \in Int
  <2>1. sizes'[Len(sizes')] \in Nat BY <1>3
  <2> HIDE DEF cs
  <2> QED BY <1>1, <1>5, <2>1
<1>9. \A e \in 1 .. n : NofChunks'[e] = NofChunks[e] BY <1>2, <1>3 DEF NofChunks
<1> DEFINE p == gen'.fChunkPointer
           m == Len(sizes')
<1>10. /\ \A e, s : <<e, s>> \in Made <=> e \in 1 .. n /\ s \in Nat /\ (e = n => fcp = 0 \/ s < fcp)
       /\ \A e, s : <<e, s>> \in Made' <=> e \in 1 .. m /\ s \in Nat /\ (e = m => p = 0 \/ s < p)
  BY DEF Made
<1>11. m \in Nat /\ m > 0 /\ p \in Nat /\ (p = 0 \/ (p = fcp + cs /\ cs # 0))
       /\ (fcp = 0 => m = n + 1) /\ (fcp # 0 => m = n /\ cs # 0)
  BY <1>1, <1>3, <1>4
<1>12. sizes' = sizes \/ m = n + 1 BY <1>3
<1>13. \A e \in 1 .. n : e \in 1 .. m BY <1>3
<1>14. Id(h) = <<m, fcp>> BY <1>5 DEF Id
<1>15. \A c \in Made : c = <<c[1], c[2]>> BY DEF Made
<1> HIDE DEF p, m, n, cs, fcp
<1>16. Id(h) \in Made' BY <1>1, <1>10, <1>11, <1>14
<1>17. Id(h) \notin Made BY <1>1, <1>10, <1>11, <1>14
<1>18. ASSUME NEW e, NEW s, <<e, s>> \in Made PROVE <<e, s>> \in Made' BY <1>1, <1>10, <1>11, <1>18
<1>19. Made \subseteq Made'
  <2> SUFFICES ASSUME NEW c \in Made PROVE c \in Made' OBVIOUS
  <2> QED BY <1>15, <1>18
<1> QED BY <1>4, <1>6, <1>7, <1>8, <1>9, <1>12, <1>13, <1>16, <1>17, <1>19 DEF n, m

LEMMA GenerateIs ==
    ASSUME SplitInv, NEW t \in Transporters, GenerateAndSendData(t),
           requests' \in Seq(Transporters)
    PROVE SplitInv'
<1> USE DEF SplitInv
<1>1. PICK size \in EventSizes :
          LET g == NextEvent(gen, size)
          IN  /\ gen.state = "running"
              /\ IF AllGenerated(g)
                 THEN /\ gen' = [g EXCEPT !.state = "joining", !.prims = 0]
                      /\ UNCHANGED <<primaries, sizes>>
                 ELSE /\ Len(primaries[t]) < ChannelSize
                      /\ primaries' = [primaries EXCEPT ![t] = Append(@, ChunkHeader(g))]
                      /\ gen' = AdvanceChunk(g)
                      /\ sizes' = IF gen.fChunkPointer = 0 THEN Append(sizes, size) ELSE sizes
              /\ UNCHANGED <<setup, numAcks, server, transporter, data, merger, dataOut, tree, ack>>
  BY DEF GenerateAndSendData
<1> DEFINE g == NextEvent(gen, size)
<1>2. /\ gen.state = "running"
      /\ UNCHANGED <<setup, numAcks, server, transporter, data, merger, dataOut, tree, ack>>
  BY <1>1
<1>3. DeviceInv' BY <1>2, DeviceKept
\* No event is left.
<1>4. CASE AllGenerated(g)
  <2>1. gen' = [g EXCEPT !.state = "joining", !.prims = 0] /\ UNCHANGED <<primaries, sizes>>
    BY <1>1, <1>4
  <2>2. /\ gen.fEventCounter = Len(sizes) /\ Len(sizes) \in Nat /\ Len(sizes) <= NofEvents
        /\ NofEvents \in Nat
        /\ gen \in [state : {"running", "joining", "done"}, fEventCounter : 0 .. NofEvents + 1,
                    fChunkPointer : Nat, prims : EventSizes \cup {0}]
    BY <1>2, ConstantsOK DEF GenInv
  <2>3. gen.fChunkPointer = 0
    <3> SUFFICES ASSUME gen.fChunkPointer # 0 PROVE FALSE OBVIOUS
    <3>1. g = gen BY DEF NextEvent
    <3> QED BY <1>4, <2>2, <3>1 DEF AllGenerated
  <2>4. g = [gen EXCEPT !.fEventCounter = @ + 1, !.prims = size] BY <2>3 DEF NextEvent
  <2>5. g = [state |-> gen.state, fEventCounter |-> gen.fEventCounter + 1,
             fChunkPointer |-> gen.fChunkPointer, prims |-> size]
    BY <2>2, <2>4
  <2> HIDE DEF g
  <2>6. gen' = [state |-> "joining", fEventCounter |-> gen.fEventCounter + 1,
                fChunkPointer |-> 0, prims |-> 0]
    BY <2>1, <2>3, <2>5
  <2>7. gen.fEventCounter + 1 \in 0 .. NofEvents + 1 BY <2>2
  <2>8. gen' \in [state : {"running", "joining", "done"}, fEventCounter : 0 .. NofEvents + 1,
                  fChunkPointer : Nat, prims : EventSizes \cup {0}]
        /\ gen'.state = "joining" /\ gen'.fChunkPointer = 0
    BY <2>6, <2>7
  <2>9. GenInv' BY <1>2, <2>1, <2>8 DEF GenInv
  <2>10. AckInv' BY <1>2, <2>8 DEF AckInv
  <2>11. ChannelInv' BY <1>2, <2>1 DEF ChannelInv, IsChannel, AreChannels
  <2>12. PartsMade' BY <1>2, <2>1, <2>3, <2>8, PartsMadeKept
  <2>13. PartsOnce' BY <1>2, <2>1, PartsOnceKept
  <2>14. EventsOnce' BY <1>2, <2>1, EventsOnceKept
  <2> QED BY <1>3, <2>9, <2>10, <2>11, <2>12, <2>13, <2>14
\* A chunk is sent.
<1>5. CASE ~AllGenerated(g)
  <2>0. PICK h : h = ChunkHeader(g) OBVIOUS
  <2> DEFINE n == Len(primaries[t]) + 1
  <2>1. /\ Len(primaries[t]) < ChannelSize
        /\ primaries' = [primaries EXCEPT ![t] = Append(@, h)]
        /\ gen' = AdvanceChunk(g)
        /\ sizes' = IF gen.fChunkPointer = 0 THEN Append(sizes, size) ELSE sizes
    BY <1>1, <1>5, <2>0
  <2>2. /\ GenInv' /\ gen'.state = "running"
        /\ Id(h) \in Made' /\ Id(h) \notin Made
        /\ h.nofChunks \in Int /\ h.nofChunks = NofChunks'[h.event]
        /\ Made \subseteq Made'
        /\ \A e \in 1 .. Len(sizes) : NofChunks'[e] = NofChunks[e] /\ e \in 1 .. Len(sizes')
    <3>1. g = NextEvent(gen, size) OBVIOUS
    <3> HIDE DEF g
    <3> QED BY <1>2, <1>5, <2>0, <2>1, <3>1, ChunkMade
  <2> HIDE DEF g
  <2>3. /\ IsChannel(primaries') /\ n \notin DOMAIN primaries[t]
        /\ \A u \in Transporters : \A i \in DOMAIN primaries'[u] :
                \/ i \in DOMAIN primaries[u] /\ primaries'[u][i] = primaries[u][i]
                \/ u = t /\ i = n /\ primaries'[u][i] = h
    <3>1. IsChannel(primaries) /\ Len(primaries[t]) < ChannelSize BY <2>1 DEF ChannelInv
    <3>2. Changed(Transporters, primaries', primaries, t, Append(primaries[t], h))
      BY <2>1, <3>1 DEF Changed, IsChannel, AreChannels
    <3>5. IsChannel(primaries') BY <3>1, <3>2, ChannelPut, ConstantsOK DEF IsChannel
    <3>3. n \notin DOMAIN primaries[t] BY <3>1, <3>2, ChannelPut, ConstantsOK DEF IsChannel
    <3>4. \A u \in Transporters : \A i \in DOMAIN primaries'[u] :
                \/ i \in DOMAIN primaries[u] /\ primaries'[u][i] = primaries[u][i]
                \/ u = t /\ i = n /\ primaries'[u][i] = h
      <4>1. WithMessage(Transporters, primaries', primaries, t, h) BY <3>1, <3>2, ChannelPut, ConstantsOK DEF IsChannel
      <4> QED BY <4>1 DEF WithMessage
    <3> QED BY <3>3, <3>4, <3>5
  <2>4. ChannelInv' BY <1>2, <2>3 DEF ChannelInv, IsChannel, AreChannels
  <2>5. AckInv' BY <1>2, <2>2 DEF AckInv
  <2>6. \A k : Id(k) \in Made => k.event \in 1 .. Len(sizes) /\ Id(k) \in Made'
    BY <2>2 DEF Made, Id
  <2>7. PartsMade'
    <3>1. ASSUME NEW u \in Transporters, NEW i \in DOMAIN primaries'[u]
          PROVE LET k == primaries'[u][i]
                IN  Id(k) \in Made' /\ k.nofChunks \in Int /\ k.nofChunks = NofChunks'[k.event]
      <4>1. CASE i \in DOMAIN primaries[u] /\ primaries'[u][i] = primaries[u][i]
        BY <2>2, <2>6, <4>1 DEF PartsMade
      <4>2. CASE u = t /\ i = n /\ primaries'[u][i] = h BY <2>2, <4>2
      <4> QED BY <2>3, <4>1, <4>2
    <3>2. \A u \in Transporters : \A i \in DOMAIN data[u] :
              LET k == data[u][i].header
              IN  /\ Id(k) \in Made' /\ k.nofChunks = NofChunks'[k.event]
                  /\ k \in PartHeaders
                  /\ k.run = server.fRunId /\ server.fNofSimDevices > 0
      BY <2>2, <2>6 DEF PartsMade
    <3>3. Merged' \subseteq Made' BY <1>2, <2>2 DEF PartsMade, Merged
    <3>4. IsMerger(merger)' /\ ~merger'.fatal BY <1>2 DEF PartsMade, IsMerger
    <3> QED BY <1>2, <3>1, <3>2, <3>3, <3>4 DEF PartsMade
  <2>8. PartsOnce'
    \* The new chunk is in no other place.
    <3>1. /\ \A u \in Transporters : \A i \in DOMAIN primaries[u] : Id(primaries[u][i]) # Id(h)
          /\ \A u \in Transporters : \A i \in DOMAIN data[u] : Id(h) # Id(data[u][i].header)
          /\ Id(h) \notin Merged
      BY <2>2 DEF PartsMade
    <3>2. Merged' = Merged BY <1>2 DEF Merged
    <3>3. ASSUME NEW u \in Transporters, NEW w \in Transporters,
                 NEW i \in DOMAIN primaries'[u], NEW j \in DOMAIN primaries'[w],
                 Id(primaries'[u][i]) = Id(primaries'[w][j])
          PROVE u = w /\ i = j
      <4>1. \/ i \in DOMAIN primaries[u] /\ primaries'[u][i] = primaries[u][i]
            \/ u = t /\ i = n /\ primaries'[u][i] = h
        BY <2>3
      <4>2. \/ j \in DOMAIN primaries[w] /\ primaries'[w][j] = primaries[w][j]
            \/ w = t /\ j = n /\ primaries'[w][j] = h
        BY <2>3
      <4> QED BY <3>1, <3>3, <4>1, <4>2 DEF PartsOnce
    <3>4. ASSUME NEW u \in Transporters, NEW i \in DOMAIN primaries'[u]
          PROVE /\ \A w \in Transporters : \A j \in DOMAIN data[w] :
                      Id(primaries'[u][i]) # Id(data[w][j].header)
                /\ Id(primaries'[u][i]) \notin Merged
      BY <2>3, <3>1, <3>4 DEF PartsOnce
    <3> QED BY <1>2, <3>2, <3>3, <3>4 DEF PartsOnce
  <2>9. EventsOnce'
    <3>1. Complete \subseteq Complete' BY <1>2, <2>2 DEF Complete
    <3> QED BY <1>2, <3>1 DEF EventsOnce
  <2> QED BY <1>3, <2>2, <2>4, <2>5, <2>7, <2>8, <2>9
<1> QED BY <1>4, <1>5

-----------------------------------------------------------------------------
(* The devices. *)

LEMMA InitializeRunIs ==
    ASSUME SplitInv, NEW t \in Transporters, InitializeRun(t)
    PROVE SplitInv'
<1> USE DEF SplitInv
<1> DEFINE n == server.fNofSimDevices
<1>1. /\ transporter[t].state = "starting" /\ server' = ReportSimDevice(server)
      /\ transporter' = [transporter EXCEPT ![t] =
                           [state |-> "running", fRunId |-> server'.fRunId, fTransportDeviceId |-> n]]
      /\ UNCHANGED <<setup, gen, numAcks, primaries, requests, data, merger,
                     dataOut, tree, ack, sizes>>
  BY DEF InitializeRun
<1>2. server \in [fRunId : Nat, fNofSimDevices : Nat] /\ n \in Nat BY DEF DeviceInv
<1>3. /\ server' \in [fRunId : Nat, fNofSimDevices : Nat] /\ server'.fNofSimDevices = n + 1
      /\ n > 0 => server'.fRunId = server.fRunId
  BY <1>1, <1>2 DEF ReportSimDevice
<1>4. DeviceInv'
  <2>1. transporter \in [Transporters -> [state : {"starting", "running", "waiting"},
                                          fRunId : Nat, fTransportDeviceId : Nat]]
    BY DEF DeviceInv
  <2>2. /\ transporter' \in [Transporters -> [state : {"starting", "running", "waiting"},
                                              fRunId : Nat, fTransportDeviceId : Nat]]
        /\ \A u \in Transporters : u # t => transporter'[u] = transporter[u]
        /\ transporter'[t].state = "running" /\ transporter'[t].fRunId = server'.fRunId
        /\ transporter'[t].fTransportDeviceId = n
    <3> HIDE DEF n
    <3> QED BY <1>1, <1>2, <1>3, <2>1
  <2>3. Started' = Started \cup {t} /\ t \notin Started BY <1>1, <2>2 DEF Started
  <2>4. Cardinality(Started') = n + 1
    <3>1. IsFiniteSet(Started) BY ConstantsOK, FS_Subset DEF Started
    <3> QED BY <2>3, <3>1, FS_AddElement DEF DeviceInv
  <2>5. \A u \in Started : /\ transporter[u].fTransportDeviceId < n
                           /\ transporter[u].fTransportDeviceId \in Nat
                           /\ transporter[u].fRunId = server.fRunId
                           /\ u \in Transporters
    BY <2>1 DEF DeviceInv, Started
  <2>6. Started # {} => n > 0 BY <1>2, <2>5
  <2>7. \A u \in Started' : (u \in Started /\ u # t) \/ u = t BY <2>3
  <2> HIDE DEF n
  <2>8. ASSUME NEW u \in Started'
        PROVE /\ transporter'[u].fRunId = server'.fRunId
              /\ transporter'[u].fTransportDeviceId < n + 1
    BY <1>2, <1>3, <2>2, <2>5, <2>6, <2>7
  <2>9. ASSUME NEW u \in Started', NEW w \in Started', u # w
        PROVE transporter'[u].fTransportDeviceId # transporter'[w].fTransportDeviceId
    <3>1. \A a, b \in Started : a # b => transporter[a].fTransportDeviceId # transporter[b].fTransportDeviceId
      BY DEF DeviceInv
    <3> QED BY <1>2, <2>2, <2>5, <2>7, <2>9, <3>1
  <2> QED BY <1>3, <2>2, <2>4, <2>8, <2>9 DEF DeviceInv
<1>5. GenInv' /\ AckInv' /\ ChannelInv' /\ PartsOnce'
  BY <1>1, GenKept, AckKept, ChannelKept, PartsOnceKept
<1>6. Made' = Made /\ NofChunks' = NofChunks /\ Merged' = Merged BY <1>1, MadeKept DEF Merged
<1>7. n > 0 => server'.fRunId = server.fRunId /\ server'.fNofSimDevices > 0 BY <1>2, <1>3
<1> HIDE DEF n
<1>8. PartsMade'
  <2>1. IsMerger(merger)' /\ ~merger'.fatal BY <1>1 DEF PartsMade, IsMerger
  <2> QED BY <1>1, <1>6, <1>7, <2>1 DEF PartsMade, n
<1>9. EventsOnce'
  <2>1. Complete \subseteq Complete' BY <1>1, <1>6, <1>7 DEF Complete, n
  <2> QED BY <1>1, <2>1 DEF EventsOnce
<1> QED BY <1>4, <1>5, <1>8, <1>9

LEMMA ListenForAcksIs == ASSUME SplitInv, ListenForAcks PROVE SplitInv'
<1> USE DEF SplitInv
<1>1. /\ numAcks < NofEvents /\ ack > 0 /\ ack' = ack - 1 /\ numAcks' = numAcks + 1
      /\ UNCHANGED <<setup, gen, server, transporter, primaries, requests, data, merger,
                     dataOut, tree, sizes>>
  BY DEF ListenForAcks, Listening
<1>2. numAcks \in 0 .. NofEvents /\ ack \in Nat /\ numAcks + ack = Len(tree) /\ NofEvents \in Nat
  BY ConstantsOK DEF AckInv
<1>3. /\ numAcks' \in 0 .. NofEvents /\ ack' \in Nat /\ numAcks' + ack' = Len(tree)
      /\ numAcks # NofEvents
  BY <1>1, <1>2
<1>4. AckInv' BY <1>1, <1>3 DEF AckInv
<1>5. GenInv' /\ DeviceInv' /\ ChannelInv' BY <1>1, GenKept, DeviceKept, ChannelKept
<1>6. PartsMade' BY <1>1, PartsMadeKept
<1>7. PartsOnce' /\ EventsOnce' BY <1>1, PartsOnceKept, EventsOnceKept
<1> QED BY <1>4, <1>5, <1>6, <1>7

LEMMA PostRunIs == ASSUME SplitInv, PostRun PROVE SplitInv'
<1> USE DEF SplitInv
<1>1. /\ gen.state = "joining" /\ ~(numAcks < NofEvents) /\ gen' = [gen EXCEPT !.state = "done"]
      /\ UNCHANGED <<setup, numAcks, server, transporter, primaries, requests, data, merger,
                     dataOut, tree, ack, sizes>>
  BY DEF PostRun, Listening
<1>2. gen \in [state : {"running", "joining", "done"}, fEventCounter : 0 .. NofEvents + 1,
               fChunkPointer : Nat, prims : EventSizes \cup {0}]
  BY DEF GenInv
<1>3. /\ gen' \in [state : {"running", "joining", "done"}, fEventCounter : 0 .. NofEvents + 1,
                   fChunkPointer : Nat, prims : EventSizes \cup {0}]
      /\ gen'.state = "done" /\ gen'.fChunkPointer = gen.fChunkPointer
  BY <1>1, <1>2
<1>4. gen.fChunkPointer = 0 BY <1>1 DEF GenInv
<1>5. GenInv' BY <1>1, <1>3, <1>4 DEF GenInv
<1>6. numAcks = NofEvents BY <1>1, ConstantsOK DEF AckInv
<1>7. AckInv' BY <1>1, <1>6 DEF AckInv
<1>8. DeviceInv' /\ ChannelInv' BY <1>1, DeviceKept, ChannelKept
<1>9. PartsMade' BY <1>1, <1>3, PartsMadeKept
<1>10. PartsOnce' /\ EventsOnce' BY <1>1, PartsOnceKept, EventsOnceKept
<1> QED BY <1>5, <1>7, <1>8, <1>9, <1>10

\* A device that has started goes on to wait for data, or to work on it.
LEMMA DeviceGoesOn ==
    ASSUME DeviceInv, NEW t \in Transporters, transporter[t].state # "starting",
           NEW s \in {"running", "waiting"},
           transporter' = [transporter EXCEPT ![t].state = s], server' = server
    PROVE DeviceInv'
<1>1. transporter \in [Transporters -> [state : {"starting", "running", "waiting"},
                                        fRunId : Nat, fTransportDeviceId : Nat]]
  BY DEF DeviceInv
<1>2. transporter' \in [Transporters -> [state : {"starting", "running", "waiting"},
                                         fRunId : Nat, fTransportDeviceId : Nat]]
  BY <1>1
<1>3. \A u \in Transporters :
          /\ transporter'[u].fRunId = transporter[u].fRunId
          /\ transporter'[u].fTransportDeviceId = transporter[u].fTransportDeviceId
          /\ transporter'[u].state = "starting" <=> transporter[u].state = "starting"
  BY <1>1
<1>4. Started' = Started BY <1>3 DEF Started
<1>5. \A u \in Started : u \in Transporters BY DEF Started
<1> QED BY <1>2, <1>3, <1>4, <1>5 DEF DeviceInv

LEMMA RequestDataIs == ASSUME SplitInv, NEW t \in Transporters, RequestData(t) PROVE SplitInv'
<1> USE DEF SplitInv
<1>1. /\ transporter[t].state = "running" /\ requests' = Append(requests, t)
      /\ transporter' = [transporter EXCEPT ![t].state = "waiting"]
      /\ UNCHANGED <<setup, gen, numAcks, server, primaries, data, merger, dataOut, tree, ack, sizes>>
  BY DEF RequestData
<1>2. DeviceInv' BY <1>1, DeviceGoesOn
<1>3. requests' \in Seq(Transporters)
  <2>1. requests \in Seq(Transporters) BY DEF ChannelInv
  <2> QED BY <1>1, <2>1, AppendProperties
<1>4. ChannelInv' BY <1>1, <1>3 DEF ChannelInv, IsChannel, AreChannels
<1>5. GenInv' /\ AckInv' BY <1>1, GenKept, AckKept
<1>6. PartsMade' BY <1>1, PartsMadeKept
<1>7. PartsOnce' /\ EventsOnce' BY <1>1, PartsOnceKept, EventsOnceKept
<1> QED BY <1>2, <1>4, <1>5, <1>6, <1>7

LEMMA TransportDataIs == ASSUME SplitInv, NEW t \in Transporters, TransportData(t) PROVE SplitInv'
<1> USE DEF SplitInv
<1>1. PICK h : h = Head(primaries[t]) OBVIOUS
<1>2. PICK d : d = [event |-> h.event, run |-> transporter[t].fRunId,
                    nofChunks |-> h.nofChunks, chunkStart |-> h.chunkStart]
  OBVIOUS
<1>3. PICK part : part = [header |-> d, arrays |-> ProcessRun(SetParticleArray(h))] OBVIOUS
<1> DEFINE n == Len(data[t]) + 1
<1>4. /\ transporter[t].state \in {"running", "waiting"}
      /\ primaries[t] # << >> /\ Len(data[t]) < ChannelSize
      /\ data' = [data EXCEPT ![t] = Append(@, part)]
      /\ primaries' = [primaries EXCEPT ![t] = Tail(@)]
      /\ transporter' = [transporter EXCEPT ![t].state = "running"]
      /\ UNCHANGED <<setup, gen, numAcks, server, requests, merger, dataOut, tree, ack, sizes>>
  BY <1>1, <1>2, <1>3 DEF TransportData
<1>5. DeviceInv' BY <1>4, DeviceGoesOn
\* The chunk is taken from one channel and put into another.
<1>6. IsChannel(primaries) /\ IsChannel(data) BY DEF ChannelInv
<1>7. Changed(Transporters, primaries', primaries, t, Tail(primaries[t])) BY <1>4, <1>6 DEF Changed, IsChannel, AreChannels
<1>8. IsChannel(primaries') /\ 1 \in DOMAIN primaries[t] /\ h = primaries[t][1]
  <2>1. IsChannel(primaries') BY <1>4, <1>6, <1>7, ChannelTake, ConstantsOK DEF IsChannel
  <2>2. 1 \in DOMAIN primaries[t] BY <1>4, <1>6, <1>7, ChannelTake, ConstantsOK DEF IsChannel
  <2>3. Head(primaries[t]) = primaries[t][1]
    BY <1>4, <1>6, <1>7, ChannelTake, ConstantsOK DEF IsChannel
  <2> QED BY <1>1, <2>1, <2>2, <2>3
<1>9. WithoutFirst(Transporters, primaries', primaries, t) BY <1>4, <1>6, <1>7, ChannelTake, ConstantsOK DEF IsChannel
<1>10. Changed(Transporters, data', data, t, Append(data[t], part)) BY <1>4, <1>6 DEF Changed, IsChannel, AreChannels
<1>11. IsChannel(data')
  <2>1. Len(data[t]) < ChannelSize BY <1>4
  <2> QED BY <1>6, <1>10, <2>1, ChannelPut, ConstantsOK DEF IsChannel
<1>12. WithMessage(Transporters, data', data, t, part) BY <1>4, <1>6, <1>10, ChannelPut, ConstantsOK DEF IsChannel
<1>13. Len(data[t]) + 1 \notin DOMAIN data[t] BY <1>4, <1>6, <1>10, ChannelPut, ConstantsOK DEF IsChannel
<1>14. ChannelInv' BY <1>4, <1>8, <1>11 DEF ChannelInv, IsChannel, AreChannels
<1>15. GenInv' /\ AckInv' BY <1>4, GenKept, AckKept
\* What it becomes.
<1>16. Id(h) \in Made /\ h.nofChunks \in Int /\ h.nofChunks = NofChunks[h.event]
  BY <1>8 DEF PartsMade
<1>17. h.event \in Nat /\ h.chunkStart \in Nat
  <2>1. Len(sizes) \in Nat BY DEF GenInv
  <2> QED BY <1>16, <2>1 DEF Id, Made
<1>18. transporter[t].fRunId \in Nat /\ transporter[t].fRunId = server.fRunId /\ server.fNofSimDevices > 0
  <2>1. /\ transporter[t] \in [state : {"starting", "running", "waiting"},
                               fRunId : Nat, fTransportDeviceId : Nat]
        /\ server.fNofSimDevices \in Nat
    BY DEF DeviceInv
  <2>2. t \in Started BY <1>4 DEF Started
  <2>3. transporter[t].fRunId = server.fRunId
        /\ transporter[t].fTransportDeviceId < server.fNofSimDevices
    BY <2>2 DEF DeviceInv
  <2> QED BY <2>1, <2>3
<1>19. /\ part.header = d /\ Id(d) = Id(h) /\ d.nofChunks = h.nofChunks /\ d.event = h.event
       /\ d \in PartHeaders /\ d.run = server.fRunId
  BY <1>2, <1>3, <1>16, <1>17, <1>18 DEF Id, PartHeaders
<1>20. Made' = Made /\ NofChunks' = NofChunks BY <1>4, MadeKept
<1>21. Merged' = Merged BY <1>4 DEF Merged
<1>22. ASSUME NEW u \in Transporters, NEW i \in DOMAIN primaries'[u]
       PROVE \E k \in DOMAIN primaries[u] :
                /\ primaries'[u][i] = primaries[u][k] /\ ~(u = t /\ k = 1)
                /\ i \in Int /\ k = IF u = t THEN i + 1 ELSE i
  BY <1>9 DEF WithoutFirst
<1>23. ASSUME NEW u \in Transporters, NEW i \in DOMAIN data'[u]
       PROVE \/ i \in DOMAIN data[u] /\ data'[u][i] = data[u][i]
             \/ u = t /\ i = n /\ data'[u][i] = part
  BY <1>12 DEF WithMessage
<1>24. n \notin DOMAIN data[t] BY <1>13
<1> HIDE DEF n
<1>25. PartsMade'
  <2>1. ASSUME NEW u \in Transporters, NEW i \in DOMAIN primaries'[u]
        PROVE LET k == primaries'[u][i]
              IN  Id(k) \in Made /\ k.nofChunks \in Int /\ k.nofChunks = NofChunks[k.event]
    BY <1>22 DEF PartsMade
  <2>2. ASSUME NEW u \in Transporters, NEW i \in DOMAIN data'[u]
        PROVE LET k == data'[u][i].header
              IN  /\ Id(k) \in Made /\ k.nofChunks = NofChunks[k.event]
                  /\ k \in PartHeaders
                  /\ k.run = server.fRunId /\ server.fNofSimDevices > 0
    <3>1. CASE i \in DOMAIN data[u] /\ data'[u][i] = data[u][i] BY <3>1 DEF PartsMade
    <3>2. CASE u = t /\ i = n /\ data'[u][i] = part BY <1>16, <1>18, <1>19, <3>2
    <3> QED BY <1>23, <3>1, <3>2
  <2>3. IsMerger(merger)' /\ ~merger'.fatal BY <1>4 DEF PartsMade, IsMerger
  <2>4. Merged' \subseteq Made' BY <1>20, <1>21 DEF PartsMade
  <2> QED BY <1>4, <1>20, <2>1, <2>2, <2>3, <2>4 DEF PartsMade
<1>26. PartsOnce'
  <2>1. ASSUME NEW u \in Transporters, NEW w \in Transporters,
               NEW i \in DOMAIN primaries'[u], NEW j \in DOMAIN primaries'[w],
               Id(primaries'[u][i]) = Id(primaries'[w][j])
        PROVE u = w /\ i = j
    <3>1. PICK k \in DOMAIN primaries[u] : /\ primaries'[u][i] = primaries[u][k]
                                           /\ i \in Int /\ k = IF u = t THEN i + 1 ELSE i
      BY <1>22
    <3>2. PICK l \in DOMAIN primaries[w] : /\ primaries'[w][j] = primaries[w][l]
                                           /\ j \in Int /\ l = IF w = t THEN j + 1 ELSE j
      BY <1>22
    <3>3. u = w /\ k = l BY <2>1, <3>1, <3>2 DEF PartsOnce
    <3> QED BY <3>1, <3>2, <3>3
  <2>2. ASSUME NEW u \in Transporters, NEW i \in DOMAIN primaries'[u]
        PROVE /\ Id(primaries'[u][i]) # Id(h) /\ Id(primaries'[u][i]) \notin Merged
              /\ \A w \in Transporters : \A j \in DOMAIN data[w] :
                    Id(primaries'[u][i]) # Id(data[w][j].header)
    <3>1. PICK k \in DOMAIN primaries[u] : primaries'[u][i] = primaries[u][k] /\ ~(u = t /\ k = 1)
      BY <1>22
    <3> QED BY <1>8, <3>1 DEF PartsOnce
  <2>3. /\ \A u \in Transporters : \A j \in DOMAIN data[u] : Id(h) # Id(data[u][j].header)
        /\ Id(h) \notin Merged
    BY <1>8 DEF PartsOnce
  <2>4. ASSUME NEW u \in Transporters, NEW w \in Transporters,
               NEW i \in DOMAIN data'[u], NEW j \in DOMAIN data'[w],
               Id(data'[u][i].header) = Id(data'[w][j].header)
        PROVE u = w /\ i = j
    <3>1. \/ i \in DOMAIN data[u] /\ data'[u][i] = data[u][i]
          \/ u = t /\ i = n /\ data'[u][i] = part
      BY <1>23
    <3>2. \/ j \in DOMAIN data[w] /\ data'[w][j] = data[w][j]
          \/ w = t /\ j = n /\ data'[w][j] = part
      BY <1>23
    <3> QED BY <1>19, <2>3, <2>4, <3>1, <3>2 DEF PartsOnce
  <2>5. ASSUME NEW u \in Transporters, NEW i \in DOMAIN primaries'[u],
               NEW w \in Transporters, NEW j \in DOMAIN data'[w]
        PROVE Id(primaries'[u][i]) # Id(data'[w][j].header)
    BY <1>19, <1>23, <2>2
  <2>6. ASSUME NEW u \in Transporters, NEW i \in DOMAIN data'[u]
        PROVE Id(data'[u][i].header) \notin Merged
    BY <1>19, <1>23, <2>3 DEF PartsOnce
  <2> QED BY <1>21, <2>1, <2>2, <2>4, <2>5, <2>6 DEF PartsOnce
<1>27. EventsOnce' BY <1>4, EventsOnceKept
<1> QED BY <1>5, <1>14, <1>15, <1>25, <1>26, <1>27

-----------------------------------------------------------------------------
(* The merger and the file sink. *)

\* An event is complete when its last part is merged, and not before.
LEMMA CompletedByLastPart ==
    ASSUME IsMerger(merger), UNCHANGED <<setup, sizes, server>>, server.fNofSimDevices > 0,
           NEW h, h.event \in 1 .. Len(sizes), h.run = server.fRunId,
           h.nofChunks = NofChunks[h.event], h.nofChunks \in Int,
           \A k : PartsReceived(merger', k) = IF k = Key(h) THEN PartsReceived(merger, k) + 1
                                              ELSE PartsReceived(merger, k)
    PROVE /\ Complete \subseteq Complete'
          /\ IsLastPart(merger, h) => h.event \notin Complete /\ h.event \in Complete'
<1>1. NofChunks' = NofChunks BY DEF NofChunks, ChunkSize
<1>2. Key(h) = <<h.event, server.fRunId>> BY DEF Key
<1>3. \A k : PartsReceived(merger, k) \in Nat BY PartsReceivedIs
<1>4. server' = server /\ sizes' = sizes OBVIOUS
<1> DEFINE Got(e) == PartsReceived(merger, <<e, server.fRunId>>)
           GotNow(e) == PartsReceived(merger', <<e, server.fRunId>>)
<1>5. \A e : e \in Complete <=> e \in 1 .. Len(sizes) /\ Got(e) >= NofChunks[e]
  BY DEF Complete
<1>6. \A e : e \in Complete' <=> e \in 1 .. Len(sizes) /\ GotNow(e) >= NofChunks[e]
  BY <1>1, <1>4 DEF Complete
<1>7. \A e : <<e, server.fRunId>> = <<h.event, server.fRunId>> <=> e = h.event OBVIOUS
<1>8. \A e : GotNow(e) = IF e = h.event THEN Got(e) + 1 ELSE Got(e) BY <1>2, <1>7
<1>9. \A e : Got(e) \in Nat BY <1>3
<1>10. IsLastPart(merger, h) => Got(h.event) + 1 = NofChunks[h.event] BY <1>2 DEF IsLastPart
<1>11. \A e \in 1 .. Len(sizes) : NofChunks[e] \in Int \/ NofChunks[e] = NofChunks[e] OBVIOUS
<1> HIDE DEF Got, GotNow
<1>12. ASSUME NEW e \in Complete PROVE e \in Complete'
  <2>1. CASE e = h.event
    <3>1. Got(e) >= NofChunks[e] /\ Got(e) \in Nat /\ NofChunks[e] \in Int BY <1>5, <1>9, <1>12, <2>1
    <3>2. GotNow(e) >= NofChunks[e] BY <1>8, <2>1, <3>1
    <3> QED BY <1>5, <1>6, <1>12, <3>2
  <2>2. CASE e # h.event BY <1>5, <1>6, <1>8, <1>12, <2>2
  <2> QED BY <2>1, <2>2
<1>13. ASSUME IsLastPart(merger, h) PROVE h.event \notin Complete /\ h.event \in Complete'
  <2>1. Got(h.event) + 1 = NofChunks[h.event] /\ Got(h.event) \in Nat BY <1>9, <1>10, <1>13
  <2>2. ~(Got(h.event) >= NofChunks[h.event]) BY <2>1
  <2>3. GotNow(h.event) >= NofChunks[h.event] BY <1>8, <2>1
  <2> QED BY <1>5, <1>6, <2>2, <2>3
<1> QED BY <1>12, <1>13

\* The part the merger takes.
LEMMA PartTaken ==
    ASSUME SplitInv, NEW t \in Transporters, Merge(t),
           NEW part, part = Head(data[t]), NEW h, h = part.header
    PROVE /\ 1 \in DOMAIN data[t] /\ part = data[t][1]
          /\ IsChannel(data') /\ WithoutFirst(Transporters, data', data, t)
          /\ Id(h) \in Made /\ Id(h) \notin Merged
          /\ h \in PartHeaders /\ h.event \in 1 .. Len(sizes) /\ h.nofChunks = NofChunks[h.event]
          /\ h.run = server.fRunId /\ server.fNofSimDevices > 0
          /\ Key(h) = <<h.event, server.fRunId>>
          /\ IsMerger(merger) /\ IsMerger(merger') /\ ~GotAgain(merger, h)
          /\ merger'.fatal = merger.fatal
          /\ \A k : PartsReceived(merger', k) = IF k = Key(h) THEN PartsReceived(merger, k) + 1
                                                ELSE PartsReceived(merger, k)
<1> USE DEF SplitInv
<1>1. data[t] # << >> /\ merger' = MergeData(merger, part) /\ data' = [data EXCEPT ![t] = Tail(@)]
  BY DEF Merge
<1>2. IsChannel(data) BY DEF ChannelInv
<1>3. Changed(Transporters, data', data, t, Tail(data[t])) BY <1>1, <1>2 DEF Changed, IsChannel, AreChannels
<1>4. 1 \in DOMAIN data[t] /\ part = data[t][1]
  <2>1. 1 \in DOMAIN data[t] BY <1>1, <1>2, <1>3, ChannelTake, ConstantsOK DEF IsChannel
  <2>2. Head(data[t]) = data[t][1] BY <1>1, <1>2, <1>3, ChannelTake, ConstantsOK DEF IsChannel
  <2> QED BY <2>1, <2>2
<1>5. IsChannel(data') /\ WithoutFirst(Transporters, data', data, t)
  BY <1>1, <1>2, <1>3, ChannelTake, ConstantsOK DEF IsChannel
<1>6. /\ Id(h) \in Made /\ h.nofChunks = NofChunks[h.event] /\ h \in PartHeaders
      /\ h.run = server.fRunId /\ server.fNofSimDevices > 0
  BY <1>4 DEF PartsMade
<1>7. Id(h) \notin Merged BY <1>4 DEF PartsOnce
<1>8. h.event \in 1 .. Len(sizes) BY <1>6 DEF Id, Made
<1>9. IsMerger(merger) BY DEF PartsMade
<1>10. ~GotAgain(merger, h) BY <1>7 DEF GotAgain, Key, Id, Merged
<1>11. IsMerger(merger') /\ merger'.fatal = merger.fatal BY <1>1, <1>9, <1>10, MergeDataIs
<1>12. \A k : PartsReceived(merger', k) = IF k = Key(h) THEN PartsReceived(merger, k) + 1
                                          ELSE PartsReceived(merger, k)
  BY <1>1, <1>9, <1>10, MergeDataIs
<1>13. Key(h) = <<h.event, server.fRunId>> BY <1>6 DEF Key
<1> QED BY <1>4, <1>5, <1>6, <1>7, <1>8, <1>9, <1>10, <1>11, <1>12, <1>13

LEMMA MergeIs == ASSUME SplitInv, NEW t \in Transporters, Merge(t) PROVE SplitInv'
<1> USE DEF SplitInv
<1>1. PICK part : part = Head(data[t]) OBVIOUS
<1>2. PICK h : h = part.header OBVIOUS
<1>3. /\ ~merger.fatal /\ data[t] # << >>
      /\ MergedEvents(merger, part) # << >> => Len(dataOut) < ChannelSize
      /\ merger' = MergeData(merger, part)
      /\ dataOut' = dataOut \o MergedEvents(merger, part)
      /\ data' = [data EXCEPT ![t] = Tail(@)]
      /\ UNCHANGED <<setup, gen, numAcks, server, transporter, primaries, requests, tree, ack, sizes>>
  BY <1>1 DEF Merge
<1>4. IsChannel(data') /\ 1 \in DOMAIN data[t] /\ part = data[t][1] BY <1>1, <1>2, PartTaken
<1>5. WithoutFirst(Transporters, data', data, t) BY <1>1, <1>2, PartTaken
<1>6. ASSUME NEW u \in Transporters, NEW i \in DOMAIN data'[u]
      PROVE \E k \in DOMAIN data[u] :
               /\ data'[u][i] = data[u][k] /\ ~(u = t /\ k = 1)
               /\ i \in Int /\ k = IF u = t THEN i + 1 ELSE i
  BY <1>5 DEF WithoutFirst
<1>7. ChannelInv' BY <1>3, <1>4 DEF ChannelInv, IsChannel, AreChannels
<1>8. GenInv' /\ DeviceInv' BY <1>3, GenKept, DeviceKept
\* The part and the merger.
<1>9. /\ Id(h) \in Made /\ h.nofChunks = NofChunks[h.event] /\ h \in PartHeaders
       /\ h.run = server.fRunId /\ server.fNofSimDevices > 0
  BY <1>1, <1>2, PartTaken
<1>10. Id(h) \notin Merged /\ h.event \in 1 .. Len(sizes) BY <1>1, <1>2, PartTaken
<1>11. IsMerger(merger) BY DEF PartsMade
<1>12. ~GotAgain(merger, h) BY <1>1, <1>2, PartTaken
<1>13. IsMerger(merger') /\ merger'.fatal = merger.fatal BY <1>1, <1>2, PartTaken
<1>14. \A i \in DOMAIN merger'.fObjectMap :
          \/ \E j \in DOMAIN merger.fObjectMap :
                /\ merger'.fObjectMap[i].key = merger.fObjectMap[j].key
                /\ merger'.fObjectMap[i].start = merger.fObjectMap[j].start
          \/ /\ merger'.fObjectMap[i].key = Key(h)
             /\ merger'.fObjectMap[i].start = h.chunkStart
  BY <1>2, <1>3, <1>11, <1>12, MergeDataIs
<1>15. \A k : PartsReceived(merger', k) = IF k = Key(h) THEN PartsReceived(merger, k) + 1
                                          ELSE PartsReceived(merger, k)
  BY <1>1, <1>2, PartTaken
<1>16. Merged' \subseteq Merged \cup {Id(h)} BY <1>14 DEF Merged, Id, Key
<1>17. Made' = Made /\ NofChunks' = NofChunks BY <1>3, MadeKept
<1>18. PartsMade'
  <2>1. ASSUME NEW u \in Transporters, NEW i \in DOMAIN data'[u]
        PROVE LET k == data'[u][i].header
              IN  /\ Id(k) \in Made /\ k.nofChunks = NofChunks[k.event]
                  /\ k \in PartHeaders
                  /\ k.run = server.fRunId /\ server.fNofSimDevices > 0
    BY <1>6 DEF PartsMade
  <2>2. Merged' \subseteq Made' BY <1>9, <1>16, <1>17 DEF PartsMade
  <2>3. ~merger'.fatal BY <1>3, <1>13
  <2>4. IsMerger(merger)' BY <1>13 DEF IsMerger
  <2> QED BY <1>3, <1>17, <2>1, <2>2, <2>3, <2>4 DEF PartsMade
<1>19. PartsOnce'
  <2>1. ASSUME NEW u \in Transporters, NEW w \in Transporters,
               NEW i \in DOMAIN data'[u], NEW j \in DOMAIN data'[w],
               Id(data'[u][i].header) = Id(data'[w][j].header)
        PROVE u = w /\ i = j
    <3>1. PICK k \in DOMAIN data[u] : /\ data'[u][i] = data[u][k]
                                      /\ i \in Int /\ k = IF u = t THEN i + 1 ELSE i
      BY <1>6
    <3>2. PICK l \in DOMAIN data[w] : /\ data'[w][j] = data[w][l]
                                      /\ j \in Int /\ l = IF w = t THEN j + 1 ELSE j
      BY <1>6
    <3>3. u = w /\ k = l BY <2>1, <3>1, <3>2 DEF PartsOnce
    <3> QED BY <3>1, <3>2, <3>3
  <2>2. ASSUME NEW u \in Transporters, NEW i \in DOMAIN primaries[u]
        PROVE /\ Id(primaries[u][i]) # Id(h)
              /\ \A w \in Transporters : \A j \in DOMAIN data'[w] :
                    Id(primaries[u][i]) # Id(data'[w][j].header)
              /\ Id(primaries[u][i]) \notin Merged'
    <3>1. Id(primaries[u][i]) # Id(h) /\ Id(primaries[u][i]) \notin Merged
      BY <1>2, <1>4 DEF PartsOnce
    <3>2. \A w \in Transporters : \A j \in DOMAIN data'[w] :
             Id(primaries[u][i]) # Id(data'[w][j].header)
      BY <1>6 DEF PartsOnce
    <3> QED BY <1>16, <3>1, <3>2
  <2>3. ASSUME NEW u \in Transporters, NEW i \in DOMAIN data'[u]
        PROVE Id(data'[u][i].header) \notin Merged'
    <3>1. PICK k \in DOMAIN data[u] : data'[u][i] = data[u][k] /\ ~(u = t /\ k = 1) BY <1>6
    <3>2. Id(data[u][k].header) # Id(h) /\ Id(data[u][k].header) \notin Merged
      BY <1>2, <1>4, <3>1 DEF PartsOnce
    <3> QED BY <1>16, <3>1, <3>2
  <2>4. \A u, w \in Transporters : \A i \in DOMAIN primaries[u], j \in DOMAIN primaries[w] :
           Id(primaries[u][i]) = Id(primaries[w][j]) => u = w /\ i = j
    BY DEF PartsOnce
  <2> QED BY <1>3, <2>1, <2>2, <2>3, <2>4 DEF PartsOnce
\* What is sent on.
<1>20. h.nofChunks \in Int BY <1>9 DEF PartHeaders
<1>21. /\ Complete \subseteq Complete'
       /\ IsLastPart(merger, h) => h.event \notin Complete /\ h.event \in Complete'
  BY <1>3, <1>9, <1>10, <1>11, <1>15, <1>20, CompletedByLastPart
<1>22. AckInv' /\ EventsOnce'
  <2>1. CASE IsLastPart(merger, h)
    <3>1. PICK e : /\ MergedEvents(merger, part) = <<e>>
                   /\ e.header = [h EXCEPT !.nofChunks = 1, !.chunkStart = 0]
      BY <1>2, <1>12, <2>1 DEF MergedEvents
    <3>2. e.header.event = h.event BY <1>9, <3>1 DEF PartHeaders
    <3>3. MergedEvents(merger, part) # << >> BY <3>1
    <3>4. dataOut' = dataOut \o <<e>> /\ Len(dataOut) < ChannelSize BY <1>3, <3>1, <3>3
    <3>5. IsSeq(dataOut) /\ DOMAIN dataOut = 1 .. Len(dataOut) /\ Len(dataOut) \in Nat
      BY IsSeqIs DEF AckInv
    <3>6. IsSeq(<<e>>) /\ Len(<<e>>) = 1 /\ DOMAIN <<e>> = 1 .. 1 /\ <<e>>[1] = e
      <4>1. <<e>> \in Seq({e}) OBVIOUS
      <4>2. IsSeq(<<e>>) BY <4>1, Zenon DEF IsSeq
      <4>3. Len(<<e>>) = 1 /\ DOMAIN <<e>> = 1 .. 1 /\ <<e>>[1] = e OBVIOUS
      <4> QED BY <4>2, <4>3
    <3>7. IsSeq(dataOut') BY <3>4, <3>5, <3>6, ConcatIs
    <3>8. Len(dataOut') = Len(dataOut) + Len(<<e>>) /\ DOMAIN dataOut' = 1 .. Len(dataOut) + Len(<<e>>)
      BY <3>4, <3>5, <3>6, ConcatIs
    <3>9. \A i \in DOMAIN dataOut : dataOut'[i] = dataOut[i] BY <3>4, <3>5, <3>6, ConcatIs
    <3>10. \A i \in DOMAIN <<e>> : dataOut'[Len(dataOut) + i] = <<e>>[i]
      BY <3>4, <3>5, <3>6, ConcatIs
    <3>11. dataOut'[Len(dataOut) + 1] = e BY <3>6, <3>10
    <3>12. Len(dataOut') <= ChannelSize BY <3>4, <3>5, <3>6, <3>8, ConstantsOK
    <3>13. AckInv' BY <1>3, <3>7, <3>12 DEF AckInv
    <3>14. ASSUME NEW i \in DOMAIN dataOut'
           PROVE \/ i \in DOMAIN dataOut /\ dataOut'[i] = dataOut[i]
                 \/ i = Len(dataOut) + 1 /\ dataOut'[i] = e
      <4>1. i \in 1 .. Len(dataOut) + 1 BY <3>6, <3>8
      <4>2. CASE i = Len(dataOut) + 1 BY <3>11, <4>2
      <4>3. CASE i # Len(dataOut) + 1
        <5>1. i \in DOMAIN dataOut BY <3>5, <4>1, <4>3
        <5> QED BY <3>9, <5>1
      <4> QED BY <4>2, <4>3
    <3>15. \A i \in DOMAIN tree : tree[i].header.event # h.event /\ tree[i].header.event \in Complete'
      BY <1>21, <2>1 DEF EventsOnce
    <3>16. \A i \in DOMAIN dataOut : /\ dataOut[i].header.event # h.event
                                     /\ dataOut[i].header.event \in Complete'
      BY <1>21, <2>1 DEF EventsOnce
    <3>17. \A i \in DOMAIN dataOut' : dataOut'[i].header.event \in Complete'
      BY <1>21, <2>1, <3>2, <3>14, <3>16
    <3>18. \A i, j \in DOMAIN tree : tree[i].header.event = tree[j].header.event => i = j
      BY DEF EventsOnce
    <3>19. ASSUME NEW i \in DOMAIN dataOut', NEW j \in DOMAIN dataOut',
                  dataOut'[i].header.event = dataOut'[j].header.event
           PROVE i = j
      <4>1. \A a, b \in DOMAIN dataOut : dataOut[a].header.event = dataOut[b].header.event => a = b
        BY DEF EventsOnce
      <4>2. \/ i \in DOMAIN dataOut /\ dataOut'[i] = dataOut[i]
            \/ i = Len(dataOut) + 1 /\ dataOut'[i] = e
        BY <3>14
      <4>3. \/ j \in DOMAIN dataOut /\ dataOut'[j] = dataOut[j]
            \/ j = Len(dataOut) + 1 /\ dataOut'[j] = e
        BY <3>14
      <4> QED BY <3>2, <3>16, <3>19, <4>1, <4>2, <4>3
    <3>20. ASSUME NEW i \in DOMAIN tree, NEW j \in DOMAIN dataOut'
           PROVE tree[i].header.event # dataOut'[j].header.event
      BY <3>2, <3>14, <3>15 DEF EventsOnce
    <3> QED BY <1>3, <3>13, <3>15, <3>17, <3>18, <3>19, <3>20 DEF EventsOnce
  <2>2. CASE ~IsLastPart(merger, h)
    <3>1. MergedEvents(merger, part) = << >> BY <1>2, <2>2 DEF MergedEvents
    <3>2. dataOut' = dataOut
      <4>1. PICK S : dataOut \in Seq(S) BY DEF AckInv, IsSeq
      <4> QED BY <1>3, <3>1, <4>1, ConcatProperties, EmptySeq
    <3>3. AckInv' BY <1>3, <3>2, AckKept
    <3> QED BY <1>3, <1>21, <3>2, <3>3 DEF EventsOnce
  <2> QED BY <2>1, <2>2
<1> QED BY <1>7, <1>8, <1>18, <1>19, <1>22

LEMMA StoreDataIs == ASSUME SplitInv, StoreData PROVE SplitInv'
<1> USE DEF SplitInv
<1>1. PICK e : e = Head(dataOut) OBVIOUS
<1>2. /\ dataOut # << >> /\ tree' = Append(tree, e) /\ dataOut' = Tail(dataOut) /\ ack' = ack + 1
      /\ UNCHANGED <<setup, gen, numAcks, server, transporter, primaries, requests, data,
                     merger, sizes>>
  BY <1>1 DEF StoreData
<1>3. GenInv' /\ DeviceInv' /\ ChannelInv' BY <1>2, GenKept, DeviceKept, ChannelKept
<1>4. PartsMade' /\ PartsOnce' BY <1>2, PartsMadeKept, PartsOnceKept
<1>5. /\ IsSeq(tree) /\ IsSeq(dataOut) /\ Len(dataOut) \in Nat /\ Len(tree) \in Nat
      /\ DOMAIN tree = 1 .. Len(tree) /\ DOMAIN dataOut = 1 .. Len(dataOut)
  BY IsSeqIs DEF AckInv
<1>6. /\ e = dataOut[1] /\ 1 \in DOMAIN dataOut
      /\ IsSeq(dataOut') /\ Len(dataOut') = Len(dataOut) - 1
      /\ DOMAIN dataOut' = 1 .. Len(dataOut) - 1
      /\ \A i \in DOMAIN dataOut' : /\ i + 1 \in DOMAIN dataOut /\ i + 1 # 1
                                    /\ dataOut'[i] = dataOut[i + 1]
  BY <1>1, <1>2, <1>5, TailIs
<1>7. /\ IsSeq(tree') /\ Len(tree') = Len(tree) + 1 /\ DOMAIN tree' = 1 .. Len(tree) + 1
      /\ \A i \in DOMAIN tree : tree'[i] = tree[i]
      /\ tree'[Len(tree) + 1] = e
  BY <1>2, <1>5, AppendIs
<1>8. AckInv'
  <2>1. /\ numAcks \in 0 .. NofEvents /\ ack \in Nat /\ numAcks + ack = Len(tree)
        /\ Len(dataOut) <= ChannelSize /\ (gen.state = "done" => numAcks = NofEvents)
        /\ NofEvents \in Nat /\ ChannelSize \in Nat
    BY ConstantsOK DEF AckInv
  <2>2. ack + 1 \in Nat /\ numAcks + (ack + 1) = Len(tree) + 1 BY <2>1
  <2>3. Len(dataOut') <= ChannelSize BY <1>5, <1>6, <2>1
  <2> QED BY <1>2, <1>6, <1>7, <2>1, <2>2, <2>3 DEF AckInv
<1>9. EventsOnce'
  <2>1. Complete' = Complete
    <3>1. NofChunks' = NofChunks BY <1>2 DEF NofChunks, ChunkSize
    <3> QED BY <1>2, <3>1 DEF Complete
  <2>2. ASSUME NEW i \in DOMAIN tree'
        PROVE \/ i \in DOMAIN tree /\ tree'[i] = tree[i]
              \/ i = Len(tree) + 1 /\ tree'[i] = e
    <3>1. CASE i = Len(tree) + 1 BY <1>7, <3>1
    <3>2. CASE i # Len(tree) + 1
      <4>1. i \in DOMAIN tree BY <1>5, <1>7, <3>2
      <4> QED BY <1>7, <4>1
    <3> QED BY <3>1, <3>2
  <2>3. ASSUME NEW j \in DOMAIN dataOut'
        PROVE /\ dataOut'[j].header.event \in Complete
              /\ dataOut'[j].header.event # e.header.event
              /\ \A i \in DOMAIN tree : tree[i].header.event # dataOut'[j].header.event
    BY <1>6 DEF EventsOnce
  <2>4. /\ e.header.event \in Complete
        /\ \A i \in DOMAIN tree : tree[i].header.event # e.header.event
    BY <1>6 DEF EventsOnce
  <2>5. ASSUME NEW i \in DOMAIN tree'
        PROVE /\ tree'[i].header.event \in Complete
              /\ \A j \in DOMAIN dataOut' : tree'[i].header.event # dataOut'[j].header.event
    BY <2>2, <2>3, <2>4 DEF EventsOnce
  <2>6. ASSUME NEW i \in DOMAIN tree', NEW j \in DOMAIN tree',
               tree'[i].header.event = tree'[j].header.event
        PROVE i = j
    <3>1. \A a, b \in DOMAIN tree : tree[a].header.event = tree[b].header.event => a = b
      BY DEF EventsOnce
    <3> QED BY <2>2, <2>4, <2>6, <3>1
  <2>7. ASSUME NEW i \in DOMAIN dataOut', NEW j \in DOMAIN dataOut',
               dataOut'[i].header.event = dataOut'[j].header.event
        PROVE i = j
    <3>1. i \in Int /\ j \in Int BY <1>5, <1>6
    <3>2. i + 1 = j + 1 BY <1>6, <2>7 DEF EventsOnce
    <3> QED BY <3>1, <3>2
  <2> QED BY <2>1, <2>3, <2>5, <2>6, <2>7 DEF EventsOnce
<1> QED BY <1>3, <1>4, <1>8, <1>9

-----------------------------------------------------------------------------
(* The invariant. *)

LEMMA SplitStep == SplitInv /\ [Next]_vars => SplitInv'
<1> SUFFICES ASSUME SplitInv, [Next]_vars PROVE SplitInv' OBVIOUS
<1>1. ASSUME ConditionalRun PROVE SplitInv'
  <2>1. PICK t \in Transporters : GenerateAndSendData(t) BY <1>1 DEF ConditionalRun
  <2>2. requests' \in Seq(Transporters) BY <1>1 DEF ConditionalRun, SplitInv, ChannelInv
  <2> QED BY <2>1, <2>2, GenerateIs
<1>2. ASSUME Reply PROVE SplitInv'
  <2>1. requests \in Seq(Transporters) /\ requests # << >> /\ requests' = Tail(requests)
    BY <1>2 DEF Reply, SplitInv, ChannelInv
  <2>2. Head(requests) \in Transporters /\ requests' \in Seq(Transporters)
    BY <2>1, HeadTailProperties
  <2> QED BY <1>2, <2>2, GenerateIs DEF Reply
<1>3. CASE ListenForAcks BY <1>3, ListenForAcksIs
<1>4. CASE PostRun BY <1>4, PostRunIs
<1>5. ASSUME NEW t \in Transporters,
             InitializeRun(t) \/ RequestData(t) \/ TransportData(t) \/ Merge(t)
      PROVE SplitInv'
  BY <1>5, InitializeRunIs, RequestDataIs, TransportDataIs, MergeIs
<1>6. CASE StoreData BY <1>6, StoreDataIs
<1>7. CASE UNCHANGED vars
  <2> USE DEF SplitInv
  <2>1. UNCHANGED <<setup, gen, numAcks, server, transporter, primaries, requests, data, merger,
                    dataOut, tree, ack, sizes>>
    BY <1>7 DEF vars
  <2>2. GenInv' /\ AckInv' BY <2>1, GenKept, AckKept
  <2>3. DeviceInv' /\ ChannelInv' BY <2>1, DeviceKept, ChannelKept
  <2>4. PartsMade' /\ PartsOnce' BY <2>1, PartsMadeKept, PartsOnceKept
  <2>5. EventsOnce' BY <2>1, EventsOnceKept
  <2> QED BY <2>2, <2>3, <2>4, <2>5
<1> QED BY <1>1, <1>2, <1>3, <1>4, <1>5, <1>6, <1>7 DEF Next

\* The generator, the devices, the channels, the merger and the sink always fit
\* together: every chunk is in one place once, and every event goes on once.
THEOREM SplitInvariant == Spec => []SplitInv
<1>1. Init => SplitInv BY SplitInit
<1>2. SplitInv /\ [Next]_vars => SplitInv' BY SplitStep
<1> QED BY <1>1, <1>2, PTL DEF Spec

\* All devices that have started simulate for the same run, each under a number of
\* its own, and the merger never gets a part of an event it already has.
THEOREM DevicesAlwaysAgree == Spec => []DevicesAgree
<1>1. SplitInv => DevicesAgree
  <2> SUFFICES ASSUME SplitInv PROVE DevicesAgree OBVIOUS
  <2> USE DEF SplitInv
  <2>1. Started \subseteq Transporters BY DEF Started
  <2>2. Cardinality(Started) <= Cardinality(Transporters) /\ Cardinality(Transporters) \in Nat
    BY <2>1, ConstantsOK, FS_Subset, FS_CardinalityType
  <2>3. server.fRunId \in Nat /\ server.fNofSimDevices \in 0 .. Cardinality(Transporters)
    <3>1. server.fNofSimDevices \in Nat /\ server.fRunId \in Nat
          /\ server.fNofSimDevices = Cardinality(Started)
      BY DEF DeviceInv
    <3> QED BY <2>2, <3>1
  <2>4. \A t \in Transporters :
           /\ transporter[t].state \in {"starting", "running", "waiting"}
           /\ Len(primaries[t]) <= ChannelSize /\ Len(data[t]) <= ChannelSize
    BY DEF DeviceInv, ChannelInv, IsChannel, AreChannels
  <2>5. ToSet(requests) \subseteq Transporters
    <3>1. requests \in Seq(Transporters) BY DEF ChannelInv
    <3> QED BY <3>1 DEF ToSet
  <2>6. TypeOK BY <2>3, <2>4, <2>5 DEF TypeOK, GenInv, AckInv
  <2>7. OneRun BY DEF OneRun, DeviceInv, Started
  <2>8. NoPartTwice BY DEF NoPartTwice, PartsMade
  <2> QED BY <2>6, <2>7, <2>8 DEF DevicesAgree
<1> QED BY <1>1, SplitInvariant, PTL

-----------------------------------------------------------------------------
(* The promise, as far as it is about which events are stored. *)

StoredEvents == [i \in DOMAIN tree |-> tree[i].header.event]

Numbered == INSTANCE EventStore WITH
                generated <- Len(sizes), stored <- StoredEvents, over <- gen.state = "done"

\* The end: as many acknowledgements as events, one for each of the events stored.
LEMMA AllStored == ASSUME SplitInv, numAcks = NofEvents PROVE Len(tree) = NofEvents
<1> USE DEF SplitInv
<1>1. /\ Len(tree) \in Nat /\ DOMAIN tree = 1 .. Len(tree) BY IsSeqIs DEF AckInv
<1>2. Len(sizes) \in Nat /\ Len(sizes) <= NofEvents /\ NofEvents \in Nat BY ConstantsOK DEF GenInv
<1>3. \A i \in 1 .. Len(tree) : StoredEvents[i] \in 1 .. NofEvents
  <2>1. \A e \in Complete : e \in 1 .. NofEvents BY <1>2 DEF Complete
  <2>2. \A i \in DOMAIN tree : tree[i].header.event \in Complete BY DEF EventsOnce
  <2> QED BY <1>1, <2>1, <2>2 DEF StoredEvents
<1>4. \A i, j \in 1 .. Len(tree) : StoredEvents[i] = StoredEvents[j] => i = j
  BY <1>1 DEF EventsOnce, StoredEvents
<1>5. Len(tree) <= NofEvents BY <1>1, <1>2, <1>3, <1>4, Pigeonhole
<1>6. NofEvents <= Len(tree)
  <2>1. ack \in Nat /\ NofEvents + ack = Len(tree) BY DEF AckInv
  <2> QED BY <1>2, <2>1
<1>7. Len(tree) \in Nat /\ NofEvents \in Nat BY <1>1, <1>2
<1> QED BY <1>5, <1>6, <1>7

LEMMA StoredEventsLen == ASSUME AckInv PROVE StoredEvents \in Seq({tree[i].header.event : i \in DOMAIN tree})
                                             /\ Len(StoredEvents) = Len(tree)
<1>1. Len(tree) \in Nat /\ DOMAIN tree = 1 .. Len(tree) BY IsSeqIs DEF AckInv
<1>2. StoredEvents \in [1 .. Len(tree) -> {tree[i].header.event : i \in DOMAIN tree}]
  BY <1>1 DEF StoredEvents
<1>3. StoredEvents \in Seq({tree[i].header.event : i \in DOMAIN tree}) BY <1>1, <1>2
<1>4. DOMAIN StoredEvents = 1 .. Len(tree) BY <1>2
<1>5. DOMAIN StoredEvents = 1 .. Len(StoredEvents) /\ Len(StoredEvents) \in Nat BY <1>3
<1> QED BY <1>1, <1>3, <1>4, <1>5

LEMMA NumberedInit == Init => Numbered!Init
<1> SUFFICES ASSUME Init PROVE Numbered!Init OBVIOUS
<1>1. SplitInv /\ tree = << >> /\ sizes = << >> /\ gen.state = "running" BY SplitInit DEF Init
<1>2. Len(StoredEvents) = Len(tree) /\ StoredEvents \in Seq({tree[i].header.event : i \in DOMAIN tree})
  BY <1>1, StoredEventsLen DEF SplitInv
<1>3. Len(tree) = 0 /\ Len(sizes) = 0 BY <1>1, EmptyIsSeq
<1>4. StoredEvents = << >> BY <1>2, <1>3, EmptySeq
<1> QED BY <1>1, <1>3, <1>4 DEF Numbered!Init

\* What the steps do, as EventStore sees it.
LEMMA GenerateNumbered ==
    ASSUME SplitInv, SplitInv', NEW t \in Transporters, GenerateAndSendData(t)
    PROVE [Numbered!Next]_(Numbered!vars)
<1> USE DEF SplitInv
<1>1. PICK size \in EventSizes :
          LET g == NextEvent(gen, size)
          IN  /\ gen.state = "running"
              /\ IF AllGenerated(g)
                 THEN /\ gen' = [g EXCEPT !.state = "joining", !.prims = 0]
                      /\ UNCHANGED <<primaries, sizes>>
                 ELSE /\ Len(primaries[t]) < ChannelSize
                      /\ primaries' = [primaries EXCEPT ![t] = Append(@, ChunkHeader(g))]
                      /\ gen' = AdvanceChunk(g)
                      /\ sizes' = IF gen.fChunkPointer = 0 THEN Append(sizes, size) ELSE sizes
              /\ UNCHANGED <<setup, numAcks, server, transporter, data, merger, dataOut, tree, ack>>
  BY DEF GenerateAndSendData
<1>2. PICK g : g = NextEvent(gen, size) OBVIOUS
<1>3. StoredEvents' = StoredEvents BY <1>1 DEF StoredEvents
<1>4. gen \in [state : {"running", "joining", "done"}, fEventCounter : 0 .. NofEvents + 1,
               fChunkPointer : Nat, prims : EventSizes \cup {0}]
  BY DEF GenInv
<1>5. CASE AllGenerated(g)
  <2>1. gen' = [g EXCEPT !.state = "joining", !.prims = 0] /\ sizes' = sizes
    BY <1>1, <1>2, <1>5
  <2>2. g \in [state : {"running", "joining", "done"}, fEventCounter : {g.fEventCounter},
               fChunkPointer : Nat, prims : {g.prims}]
    BY <1>2, <1>4 DEF NextEvent
  <2>3. gen'.state = "joining" BY <2>1, <2>2
  <2>4. gen.state = "running" BY <1>1
  <2> QED BY <1>3, <2>1, <2>3, <2>4 DEF Numbered!vars
<1>6. CASE ~AllGenerated(g)
  <2>0. PICK h : h = ChunkHeader(g) OBVIOUS
  <2>1. /\ gen.state = "running" /\ setup' = setup /\ gen' = AdvanceChunk(g)
        /\ sizes' = IF gen.fChunkPointer = 0 THEN Append(sizes, size) ELSE sizes
    BY <1>1, <1>2, <1>6
  <2>2. gen'.state = "running" BY <1>2, <1>6, <2>0, <2>1, ChunkMade
  <2>3. sizes' = sizes \/ Len(sizes') = Len(sizes) + 1 BY <1>2, <1>6, <2>0, <2>1, ChunkMade
  <2>4. CASE sizes' = sizes BY <1>3, <2>1, <2>2, <2>4 DEF Numbered!vars
  <2>5. CASE Len(sizes') = Len(sizes) + 1
    <3>1. Len(sizes) \in Nat /\ Len(sizes') <= NofEvents /\ NofEvents \in Nat
      BY ConstantsOK DEF GenInv
    <3>2. Len(sizes) < NofEvents BY <2>5, <3>1
    <3> QED BY <1>3, <2>1, <2>2, <2>5, <3>2 DEF Numbered!Next, Numbered!Generate
  <2> QED BY <2>3, <2>4, <2>5
<1> QED BY <1>5, <1>6

LEMMA StoreNumbered ==
    ASSUME SplitInv, SplitInv', StoreData
    PROVE Numbered!Next
<1> USE DEF SplitInv
<1>1. PICK e : e = Head(dataOut) OBVIOUS
<1>2. dataOut # << >> /\ tree' = Append(tree, e) /\ UNCHANGED <<gen, sizes>> BY <1>1 DEF StoreData
<1>3. e = dataOut[1] /\ 1 \in DOMAIN dataOut BY <1>1, <1>2, TailIs DEF AckInv
<1>4. PICK event : event = e.header.event OBVIOUS
<1>5. /\ IsSeq(tree) /\ Len(tree) \in Nat /\ DOMAIN tree = 1 .. Len(tree) BY IsSeqIs DEF AckInv
<1>6. /\ DOMAIN tree' = 1 .. Len(tree) + 1
      /\ \A i \in DOMAIN tree : tree'[i] = tree[i]
      /\ tree'[Len(tree) + 1] = e
  BY <1>2, <1>5, AppendIs
<1>7. event \in 1 .. Len(sizes) /\ \A i \in DOMAIN tree : tree[i].header.event # event
  BY <1>3, <1>4 DEF EventsOnce, Complete
<1>8. event \in 1 .. NofEvents
  <2>1. Len(sizes) \in Nat /\ Len(sizes) <= NofEvents /\ NofEvents \in Nat BY ConstantsOK DEF GenInv
  <2> QED BY <1>7, <2>1
<1>9. IsSeq(StoredEvents) /\ Len(StoredEvents) = Len(tree)
  BY StoredEventsLen DEF IsSeq
<1>10. event \notin ToSet(StoredEvents) BY <1>7 DEF ToSet, StoredEvents
<1>11. StoredEvents' = Append(StoredEvents, event)
  <2>1. PICK a : a = Append(StoredEvents, event) OBVIOUS
  <2>2. /\ IsSeq(a) /\ DOMAIN a = 1 .. Len(tree) + 1
        /\ \A i \in DOMAIN StoredEvents : a[i] = StoredEvents[i]
        /\ a[Len(tree) + 1] = event
    BY <1>9, <2>1, AppendIs
  <2>3. \A i \in 1 .. Len(tree) + 1 : StoredEvents'[i] = a[i]
    <3> TAKE i \in 1 .. Len(tree) + 1
    <3>1. StoredEvents'[i] = tree'[i].header.event BY <1>6 DEF StoredEvents
    <3>2. CASE i = Len(tree) + 1 BY <1>4, <1>6, <2>2, <3>1, <3>2
    <3>3. CASE i # Len(tree) + 1
      <4>1. i \in DOMAIN tree BY <1>5, <3>3
      <4>2. i \in DOMAIN StoredEvents /\ StoredEvents[i] = tree[i].header.event
        BY <4>1 DEF StoredEvents
      <4> QED BY <1>6, <2>2, <3>1, <4>1, <4>2
    <3> QED BY <3>2, <3>3
  <2>4. StoredEvents' = [i \in 1 .. Len(tree) + 1 |-> StoredEvents'[i]] BY <1>6 DEF StoredEvents
  <2>5. a = [i \in 1 .. Len(tree) + 1 |-> a[i]]
    <3>1. PICK S : a \in Seq(S) BY <2>2 DEF IsSeq
    <3>2. a \in [DOMAIN a -> S] BY <3>1
    <3> QED BY <2>2, <3>2
  <2> QED BY <2>1, <2>3, <2>4, <2>5
<1>12. event \in 1 .. Len(sizes) \ Numbered!ToSet(StoredEvents)
  BY <1>7, <1>10 DEF ToSet, Numbered!ToSet
<1>13. Len(sizes)' = Len(sizes) /\ (gen.state = "done")' = (gen.state = "done") BY <1>2
<1>14. Numbered!Store(event) BY <1>11, <1>12, <1>13 DEF Numbered!Store
<1> QED BY <1>8, <1>14 DEF Numbered!Next

LEMMA NumberedStep ==
    ASSUME SplitInv, SplitInv', [Next]_vars
    PROVE [Numbered!Next]_(Numbered!vars)
<1>1. ASSUME UNCHANGED <<tree, sizes, gen>> PROVE [Numbered!Next]_(Numbered!vars)
  <2>1. StoredEvents' = StoredEvents BY <1>1 DEF StoredEvents
  <2> QED BY <1>1, <2>1 DEF Numbered!vars
<1>2. CASE ConditionalRun BY <1>2, GenerateNumbered DEF ConditionalRun
<1>3. CASE Reply
  <2>1. requests \in Seq(Transporters) /\ requests # << >> BY <1>3 DEF Reply, SplitInv, ChannelInv
  <2>2. Head(requests) \in Transporters BY <2>1, HeadTailProperties
  <2> QED BY <1>3, <2>2, GenerateNumbered DEF Reply
<1>4. CASE ListenForAcks BY <1>1, <1>4 DEF ListenForAcks
<1>5. CASE PostRun
  <2>1. /\ gen.state = "joining" /\ ~(numAcks < NofEvents) /\ gen' = [gen EXCEPT !.state = "done"]
        /\ UNCHANGED <<tree, sizes>>
    BY <1>5 DEF PostRun, Listening
  <2>2. gen'.state = "done"
    <3>1. gen \in [state : {"running", "joining", "done"}, fEventCounter : 0 .. NofEvents + 1,
                   fChunkPointer : Nat, prims : EventSizes \cup {0}]
      BY DEF SplitInv, GenInv
    <3> QED BY <2>1, <3>1
  <2>3. numAcks = NofEvents BY <2>1, ConstantsOK DEF SplitInv, AckInv
  <2>4. Len(StoredEvents) = NofEvents BY <2>3, AllStored, StoredEventsLen DEF SplitInv
  <2>5. StoredEvents' = StoredEvents BY <2>1 DEF StoredEvents
  <2> QED BY <2>1, <2>2, <2>4, <2>5 DEF Numbered!Next, Numbered!End
<1>6. ASSUME NEW t \in Transporters,
             InitializeRun(t) \/ RequestData(t) \/ TransportData(t) \/ Merge(t)
      PROVE [Numbered!Next]_(Numbered!vars)
  BY <1>1, <1>6 DEF InitializeRun, RequestData, TransportData, Merge
<1>7. CASE StoreData BY <1>7, StoreNumbered
<1>8. CASE UNCHANGED vars BY <1>1, <1>8 DEF vars
<1> QED BY <1>2, <1>3, <1>4, <1>5, <1>6, <1>7, <1>8 DEF Next

\* The generator numbers the events one after the other, the sink stores each of them
\* at most once and none that was not generated, and the generator leaves PostRun
\* only when every one is stored: the safety part of EventStore, for the numbers.
THEOREM StoresEveryEventOnce == Spec => Numbered!Init /\ [][Numbered!Next]_(Numbered!vars)
<1>1. Init => Numbered!Init BY NumberedInit
<1>2. SplitInv /\ SplitInv' /\ [Next]_vars => [Numbered!Next]_(Numbered!vars) BY NumberedStep
<1> QED BY <1>1, <1>2, SplitInvariant, PTL DEF Spec

-----------------------------------------------------------------------------
(* The numbers of a set in ascending order. *)

Ascends(s, n) == \A i, j \in 1 .. n : i < j => s[i] < s[j]
AscentOf(s, n, S) == s \in [1 .. n -> S] /\ Ascends(s, n) /\ \A x \in S : \E i \in 1 .. n : s[i] = x

LEMMA AscendingIs ==
    ASSUME NEW S \in SUBSET Nat, IsFiniteSet(S), NEW n, n = Cardinality(S)
    PROVE n \in Nat /\ AscentOf(Ascending(S), n, S)
<1> DEFINE id == [x \in S |-> x]
           Right(s) == \A i, j \in DOMAIN s : i < j => s[i] < s[j]
<1>1. id \in [S -> Nat] /\ \A x, y \in S : id[x] = id[y] => x = y OBVIOUS
<1>2. n \in Nat BY FS_CardinalityType
<1>3. ASSUME NEW s \in [1 .. n -> S], Right(s) PROVE InOrderOf(s, S, id, id)
  <2>1. ASSUME NEW i \in 1 .. n, NEW j \in 1 .. n, i < j PROVE Before(id, id, s[i], s[j])
    <3>1. PICK x \in S, y \in S : x = s[i] /\ y = s[j] BY <1>3
    <3>2. x < y BY <1>3, <2>1, <3>1
    <3>3. id[x] = x /\ id[y] = y OBVIOUS
    <3> HIDE DEF id
    <3> QED BY <3>1, <3>2, <3>3 DEF Before
  <2> HIDE DEF id
  <2> QED BY <1>3, <2>1 DEF InOrderOf
<1>4. \E s \in [1 .. n -> S] : Right(s)
  <2>1. PICK s : InOrderOf(s, S, id, id)
    <3> HIDE DEF id
    <3> QED BY <1>1, OrderExists
  <2>2. s \in [1 .. n -> S] /\ \A i, j \in 1 .. n : i < j => Before(id, id, s[i], s[j])
    <3> HIDE DEF id
    <3> QED BY <2>1 DEF InOrderOf
  <2>3. ASSUME NEW i \in 1 .. n, NEW j \in 1 .. n, i < j PROVE s[i] < s[j]
    <3>1. PICK x \in S, y \in S : x = s[i] /\ y = s[j] BY <2>2
    <3>2. id[x] = x /\ id[y] = y OBVIOUS
    <3>3. Before(id, id, x, y)
      <4> HIDE DEF id
      <4> QED BY <2>2, <2>3, <3>1
    <3>4. x < y \/ (x = y /\ x < y)
      <4> HIDE DEF id
      <4> QED BY <3>2, <3>3 DEF Before
    <3> QED BY <3>1, <3>4
  <2>4. Right(s) BY <2>2, <2>3
  <2> QED BY <2>2, <2>4
<1>5. PICK s : s = Ascending(S) OBVIOUS
<1>6. s \in [1 .. n -> S] /\ Right(s)
  <2>1. s = CHOOSE r \in [1 .. n -> S] : Right(r) BY <1>5 DEF Ascending
  <2> HIDE DEF Right
  <2> QED BY <1>4, <2>1
<1>7. Lists(s, S)
  <2>1. InOrderOf(s, S, id, id) BY <1>3, <1>6
  <2> HIDE DEF id
  <2> QED BY <1>1, <2>1, OrderLists
<1>8. Ascends(s, n) BY <1>6 DEF Ascends
<1>9. \A x \in S : \E i \in 1 .. n : s[i] = x BY <1>6, <1>7 DEF Lists
<1> QED BY <1>2, <1>5, <1>6, <1>8, <1>9 DEF AscentOf

\* There is one such sequence only.
LEMMA OneAscent ==
    ASSUME NEW S \in SUBSET Nat, NEW n \in Nat,
           NEW s, AscentOf(s, n, S), NEW t, AscentOf(t, n, S)
    PROVE \A k \in 1 .. n : s[k] = t[k]
<1>0. /\ s \in [1 .. n -> S] /\ Ascends(s, n) /\ \A x \in S : \E i \in 1 .. n : s[i] = x
      /\ t \in [1 .. n -> S] /\ Ascends(t, n) /\ \A x \in S : \E i \in 1 .. n : t[i] = x
  BY DEF AscentOf
<1> DEFINE Differ == {k \in 1 .. n : s[k] # t[k]}
<1> SUFFICES ASSUME Differ # {} PROVE FALSE OBVIOUS
<1>1. PICK k \in Differ : \A l \in Differ : k <= l
  <2>1. Differ \in SUBSET Nat OBVIOUS
  <2> HIDE DEF Differ
  <2> QED BY <2>1, LeastNat
<1>2. \A l \in 1 .. n : l < k => s[l] = t[l] BY <1>1
<1>3. k \in 1 .. n /\ s[k] # t[k] BY <1>1
<1>4. s[k] \in Nat /\ t[k] \in Nat BY <1>0, <1>3
<1>5. ASSUME s[k] < t[k] PROVE FALSE
  <2>1. PICK j \in 1 .. n : t[j] = s[k] BY <1>0, <1>3
  <2>2. CASE j < k
    <3>1. s[j] < s[k] /\ s[j] = t[j] BY <1>0, <1>2, <1>3, <2>2 DEF Ascends
    <3> QED BY <1>4, <2>1, <3>1
  <2>3. CASE j = k BY <1>3, <2>1, <2>3
  <2>4. CASE k < j
    <3>1. t[k] < t[j] BY <1>0, <1>3, <2>4 DEF Ascends
    <3> QED BY <1>4, <1>5, <2>1, <3>1
  <2> QED BY <1>3, <2>2, <2>3, <2>4
<1>6. ASSUME t[k] < s[k] PROVE FALSE
  <2>1. PICK j \in 1 .. n : s[j] = t[k] BY <1>0, <1>3
  <2>2. CASE j < k
    <3>1. t[j] < t[k] /\ s[j] = t[j] BY <1>0, <1>2, <1>3, <2>2 DEF Ascends
    <3> QED BY <1>4, <2>1, <3>1
  <2>3. CASE j = k BY <1>3, <2>1, <2>3
  <2>4. CASE k < j
    <3>1. s[k] < s[j] BY <1>0, <1>3, <2>4 DEF Ascends
    <3> QED BY <1>4, <1>6, <2>1, <3>1
  <2> QED BY <1>3, <2>2, <2>3, <2>4
<1> QED BY <1>3, <1>4, <1>5, <1>6

\* Of a set and of the numbers one higher.
Shifted(S) == {x + 1 : x \in S}

LEMMA AscendingShift ==
    ASSUME NEW S \in SUBSET Nat, IsFiniteSet(S), NEW T, T = Shifted(S),
           NEW n, n = Cardinality(S)
    PROVE /\ T \in SUBSET Nat /\ IsFiniteSet(T) /\ Cardinality(T) = n
          /\ \A k \in 1 .. n : Ascending(T)[k] = Ascending(S)[k] + 1
<1>1. PICK s : s = Ascending(S) OBVIOUS
<1>2. PICK t : t = Ascending(T) OBVIOUS
<1>3. /\ n \in Nat /\ s \in [1 .. n -> S] /\ Ascends(s, n)
      /\ \A x \in S : \E i \in 1 .. n : s[i] = x
  BY <1>1, AscendingIs DEF AscentOf
<1>4. T \in SUBSET Nat /\ (\A x \in S : x + 1 \in T) /\ \A y \in T : \E x \in S : y = x + 1
  BY DEF Shifted
<1>5. PICK f : f = [x \in S |-> x + 1] OBVIOUS
<1>6. IsFiniteSet(T) /\ Cardinality(T) = n
  <2>1. f \in [S -> T] /\ (\A x \in S : f[x] = x + 1) BY <1>4, <1>5
  <2>2. \A x, y \in S : f[x] = f[y] => x = y BY <2>1
  <2>3. \A y \in T : \E x \in S : f[x] = y BY <1>4, <2>1
  <2>4. f \in Surjection(S, T) BY <2>1, <2>3 DEF Surjection
  <2>5. f \in Injection(S, T) BY <2>1, <2>2 DEF Injection, IsInjective
  <2> QED BY <2>4, <2>5, FS_Surjection
<1>7. AscentOf(t, n, T) BY <1>2, <1>4, <1>6, AscendingIs
<1>8. PICK u : u = [k \in 1 .. n |-> s[k] + 1] OBVIOUS
<1>9. u \in [1 .. n -> T] /\ \A k \in 1 .. n : u[k] = s[k] + 1 BY <1>3, <1>4, <1>8
<1>10. Ascends(u, n)
  <2> SUFFICES ASSUME NEW i \in 1 .. n, NEW j \in 1 .. n, i < j PROVE u[i] < u[j] BY DEF Ascends
  <2>1. s[i] < s[j] /\ s[i] \in Nat /\ s[j] \in Nat BY <1>3 DEF Ascends
  <2> QED BY <1>9, <2>1
<1>11. \A x \in T : \E i \in 1 .. n : u[i] = x
  <2> SUFFICES ASSUME NEW x \in S PROVE \E i \in 1 .. n : u[i] = x + 1 BY <1>4
  <2>1. PICK i \in 1 .. n : s[i] = x BY <1>3
  <2> QED BY <1>9, <2>1
<1>12. AscentOf(u, n, T) BY <1>9, <1>10, <1>11 DEF AscentOf
<1>13. \A k \in 1 .. n : t[k] = u[k] BY <1>3, <1>4, <1>7, <1>12, OneAscent
<1> QED BY <1>1, <1>2, <1>4, <1>6, <1>9, <1>13

-----------------------------------------------------------------------------
(* The arrays of a part. *)

Track == [prim : Nat, gen : {0, 1}, track : Int]

\* The array has a track, or point, of this generation of the primary p.
Left(array, p, gener) == \E k \in DOMAIN array : array[k].prim = p /\ array[k].gen = gener

\* The array holds what these primaries left, each track or point of them once.
Carries(array, P) ==
    /\ IsSeq(array)
    /\ \A k \in DOMAIN array : /\ array[k] \in Track /\ array[k].prim \in P
                               /\ array[k].gen = 1 => array[k].prim \in Secondaries
    /\ \A p \in P : Left(array, p, 0) /\ (p \in Secondaries => Left(array, p, 1))
    /\ \A j, k \in DOMAIN array :
          array[j].prim = array[k].prim /\ array[j].gen = array[k].gen => j = k

\* The index i leads to the track of this generation of the primary p.
LeadsTo(tracks, i, p, gener) ==
    i + 1 \in DOMAIN tracks /\ tracks[i + 1].prim = p /\ tracks[i + 1].gen = gener

TracksRight(tracks) ==
    \A k \in DOMAIN tracks : IF tracks[k].gen = 0 THEN tracks[k].track = -1
                             ELSE LeadsTo(tracks, tracks[k].track, tracks[k].prim, 0)

PointsRight(tracks, points) ==
    \A k \in DOMAIN points : LeadsTo(tracks, points[k].track, points[k].prim, points[k].gen)

PartRight(tracks, points, P) ==
    Carries(tracks, P) /\ Carries(points, P) /\ TracksRight(tracks) /\ PointsRight(tracks, points)

\* That is what the properties ask for.
LEMMA HoldsIs ==
    ASSUME NEW arrays, NEW P, PartRight(arrays["MCTrack"], arrays["PixelPoint"], P)
    PROVE Holds(arrays, P, Secondaries) /\ IndicesRight(arrays)
<1> DEFINE of(p) == {<<p, 0>>} \cup (IF p \in Secondaries THEN {<<p, 1>>} ELSE {})
<1>1. ASSUME NEW array, Carries(array, P)
      PROVE /\ {<<array[k].prim, array[k].gen>> : k \in DOMAIN array} = UNION {of(p) : p \in P}
            /\ \A j, k \in DOMAIN array :
                   array[j].prim = array[k].prim /\ array[j].gen = array[k].gen => j = k
  <2>1. ASSUME NEW k \in DOMAIN array
        PROVE <<array[k].prim, array[k].gen>> \in UNION {of(p) : p \in P}
    <3>1. array[k] \in Track /\ array[k].prim \in P /\ (array[k].gen = 1 => array[k].prim \in Secondaries)
      BY <1>1 DEF Carries
    <3>2. array[k].gen \in {0, 1} BY <3>1 DEF Track
    <3>3. <<array[k].prim, array[k].gen>> \in of(array[k].prim) BY <3>1, <3>2
    <3> HIDE DEF of
    <3> QED BY <3>1, <3>3
  <2>2. ASSUME NEW p \in P, NEW x \in of(p)
        PROVE \E k \in DOMAIN array : x = <<array[k].prim, array[k].gen>>
    <3>1. x = <<p, 0>> \/ (p \in Secondaries /\ x = <<p, 1>>) OBVIOUS
    <3>2. CASE x = <<p, 0>>
      <4>1. PICK k \in DOMAIN array : array[k].prim = p /\ array[k].gen = 0
        BY <1>1 DEF Carries, Left
      <4> QED BY <3>2, <4>1
    <3>3. CASE p \in Secondaries /\ x = <<p, 1>>
      <4>1. PICK k \in DOMAIN array : array[k].prim = p /\ array[k].gen = 1
        BY <1>1, <3>3 DEF Carries, Left
      <4> QED BY <3>3, <4>1
    <3> QED BY <3>1, <3>2, <3>3
  <2>3. \A j, k \in DOMAIN array :
           array[j].prim = array[k].prim /\ array[j].gen = array[k].gen => j = k
    BY <1>1 DEF Carries
  <2> HIDE DEF of
  <2> QED BY <2>1, <2>2, <2>3
<1>2. \A branch \in Branches : Carries(arrays[branch], P) BY DEF PartRight, Branches
<1>3. Holds(arrays, P, Secondaries) BY <1>1, <1>2 DEF Holds
<1>4. IndicesRight(arrays)
  BY DEF PartRight, TracksRight, PointsRight, LeadsTo, IndicesRight
<1> QED BY <1>3, <1>4

\* Renumbering changes the indices only.
LEMMA RenumberIs ==
    ASSUME NEW branch, NEW array, IsSeq(array), \A k \in DOMAIN array : array[k] \in Track,
           NEW shift \in Nat, NEW r, r = Renumber(branch, array, shift)
    PROVE /\ IsSeq(r) /\ Len(r) = Len(array) /\ DOMAIN r = DOMAIN array
          /\ \A k \in DOMAIN array :
                /\ r[k] \in Track /\ r[k].prim = array[k].prim /\ r[k].gen = array[k].gen
                /\ r[k].track = IF branch = "MCTrack" /\ array[k].track < 0 THEN array[k].track
                                ELSE array[k].track + shift
<1>1. Len(array) \in Nat /\ DOMAIN array = 1 .. Len(array) BY IsSeqIs
<1>2. ASSUME NEW k \in DOMAIN array
      PROVE /\ r[k] \in Track /\ r[k].prim = array[k].prim /\ r[k].gen = array[k].gen
            /\ r[k].track = IF branch = "MCTrack" /\ array[k].track < 0 THEN array[k].track
                            ELSE array[k].track + shift
  <2>1. PICK x : x = array[k] OBVIOUS
  <2>2. x \in Track BY <2>1
  <2>3. r[k] = [x EXCEPT !.track = IF branch = "MCTrack" /\ @ < 0 THEN @ ELSE @ + shift]
    BY <2>1 DEF Renumber
  <2> QED BY <2>1, <2>2, <2>3 DEF Track
<1>3. DOMAIN r = DOMAIN array /\ r = [k \in DOMAIN array |-> r[k]] BY DEF Renumber
<1>4. r \in [1 .. Len(array) -> Track] BY <1>1, <1>2, <1>3
<1>5. r \in Seq(Track) /\ Len(r) = Len(array) BY <1>1, <1>4
<1>6. IsSeq(r) BY <1>5 DEF IsSeq
<1> QED BY <1>2, <1>3, <1>5, <1>6

\* One array after the other, about other primaries.
LEMMA CarriesBoth ==
    ASSUME NEW s, NEW P, Carries(s, P), NEW t, NEW Q, Carries(t, Q), P \cap Q = {},
           NEW c, c = s \o t
    PROVE Carries(c, P \cup Q)
<1>1. PICK m : m = Len(s) OBVIOUS
<1>2. PICK n : n = Len(t) OBVIOUS
<1>3. m \in Nat /\ n \in Nat /\ DOMAIN s = 1 .. m /\ DOMAIN t = 1 .. n
  BY <1>1, <1>2, IsSeqIs DEF Carries
<1>4. /\ IsSeq(c) /\ DOMAIN c = 1 .. m + n
      /\ (\A i \in 1 .. m : c[i] = s[i]) /\ \A i \in 1 .. n : c[m + i] = t[i]
  <2>1. IsSeq(s) /\ IsSeq(t) BY DEF Carries
  <2>2. IsSeq(c) BY <2>1, ConcatIs
  <2>3. DOMAIN c = 1 .. Len(s) + Len(t) BY <2>1, ConcatIs
  <2>4. \A i \in DOMAIN s : c[i] = s[i] BY <2>1, ConcatIs
  <2>5. \A i \in DOMAIN t : c[Len(s) + i] = t[i] BY <2>1, ConcatIs
  <2> QED BY <1>1, <1>2, <1>3, <2>2, <2>3, <2>4, <2>5
<1>5. ASSUME NEW i \in 1 .. m + n
      PROVE \/ i \in 1 .. m /\ c[i] = s[i]
            \/ i - m \in 1 .. n /\ c[i] = t[i - m] /\ i = m + (i - m)
  <2>1. CASE i <= m
    <3>1. i \in 1 .. m BY <1>3, <2>1
    <3> QED BY <1>4, <3>1
  <2>2. CASE ~(i <= m)
    <3>1. i - m \in 1 .. n /\ m + (i - m) = i BY <1>3, <2>2
    <3> QED BY <1>4, <3>1
  <2> QED BY <2>1, <2>2
<1>6. /\ \A k \in 1 .. m : /\ s[k] \in Track /\ s[k].prim \in P
                           /\ s[k].gen = 1 => s[k].prim \in Secondaries
      /\ \A j, k \in 1 .. m : s[j].prim = s[k].prim /\ s[j].gen = s[k].gen => j = k
  BY <1>3 DEF Carries
<1>7. /\ \A k \in 1 .. n : /\ t[k] \in Track /\ t[k].prim \in Q
                           /\ t[k].gen = 1 => t[k].prim \in Secondaries
      /\ \A j, k \in 1 .. n : t[j].prim = t[k].prim /\ t[j].gen = t[k].gen => j = k
  BY <1>3 DEF Carries
<1>8. ASSUME NEW k \in 1 .. m + n
      PROVE /\ c[k] \in Track /\ c[k].prim \in P \cup Q
            /\ c[k].gen = 1 => c[k].prim \in Secondaries
            /\ c[k].prim \in P => k \in 1 .. m /\ c[k] = s[k]
            /\ c[k].prim \in Q => k - m \in 1 .. n /\ c[k] = t[k - m] /\ k = m + (k - m)
  <2>1. CASE k \in 1 .. m /\ c[k] = s[k] BY <1>6, <2>1
  <2>2. CASE k - m \in 1 .. n /\ c[k] = t[k - m] /\ k = m + (k - m) BY <1>7, <2>2
  <2> QED BY <1>5, <2>1, <2>2
<1>9. ASSUME NEW p \in P \cup Q
      PROVE Left(c, p, 0) /\ (p \in Secondaries => Left(c, p, 1))
  <2>1. ASSUME NEW gener, Left(s, p, gener) PROVE Left(c, p, gener)
    <3>1. PICK k \in 1 .. m : s[k].prim = p /\ s[k].gen = gener BY <1>3, <2>1 DEF Left
    <3>2. k \in 1 .. m + n /\ c[k] = s[k] BY <1>3, <1>4
    <3> QED BY <1>4, <3>1, <3>2 DEF Left
  <2>2. ASSUME NEW gener, Left(t, p, gener) PROVE Left(c, p, gener)
    <3>1. PICK k \in 1 .. n : t[k].prim = p /\ t[k].gen = gener BY <1>3, <2>2 DEF Left
    <3>2. m + k \in 1 .. m + n /\ c[m + k] = t[k] BY <1>3, <1>4
    <3> QED BY <1>4, <3>1, <3>2 DEF Left
  <2>3. CASE p \in P BY <2>1, <2>3 DEF Carries
  <2>4. CASE p \in Q BY <2>2, <2>4 DEF Carries
  <2> QED BY <2>3, <2>4
<1>10. ASSUME NEW j \in 1 .. m + n, NEW k \in 1 .. m + n,
              c[j].prim = c[k].prim, c[j].gen = c[k].gen
       PROVE j = k
  <2>1. CASE c[j].prim \in P
    <3>1. j \in 1 .. m /\ c[j] = s[j] /\ k \in 1 .. m /\ c[k] = s[k] BY <1>8, <1>10, <2>1
    <3> QED BY <1>6, <1>10, <3>1
  <2>2. CASE c[j].prim \in Q
    <3>1. /\ j - m \in 1 .. n /\ c[j] = t[j - m] /\ j = m + (j - m)
          /\ k - m \in 1 .. n /\ c[k] = t[k - m] /\ k = m + (k - m)
      BY <1>8, <1>10, <2>2
    <3>2. j - m = k - m BY <1>7, <1>10, <3>1
    <3> QED BY <1>3, <3>1, <3>2
  <2> QED BY <1>8, <2>1, <2>2
<1>11. IsSeq(c) BY <1>4
<1>12. \A k \in DOMAIN c : /\ c[k] \in Track /\ c[k].prim \in P \cup Q
                           /\ c[k].gen = 1 => c[k].prim \in Secondaries
  BY <1>4, <1>8
<1>13. \A p \in P \cup Q : Left(c, p, 0) /\ (p \in Secondaries => Left(c, p, 1)) BY <1>9
<1>14. \A j, k \in DOMAIN c : c[j].prim = c[k].prim /\ c[j].gen = c[k].gen => j = k BY <1>4, <1>10
<1> QED BY <1>11, <1>12, <1>13, <1>14, Zenon DEF Carries

\* Renumbered, the array holds what it held.
LEMMA CarriesRenumbered ==
    ASSUME NEW branch, NEW array, NEW P, Carries(array, P), NEW shift \in Nat,
           NEW r, r = Renumber(branch, array, shift)
    PROVE Carries(r, P)
<1>1. IsSeq(array) /\ \A k \in DOMAIN array : array[k] \in Track BY DEF Carries
<1>2. IsSeq(r) /\ DOMAIN r = DOMAIN array BY <1>1, RenumberIs
<1>3. \A k \in DOMAIN array : /\ r[k] \in Track /\ r[k].prim = array[k].prim
                              /\ r[k].gen = array[k].gen
  BY <1>1, RenumberIs
<1>4. ASSUME NEW p, NEW gener, Left(array, p, gener) PROVE Left(r, p, gener)
  BY <1>2, <1>3, <1>4 DEF Left
<1> QED BY <1>2, <1>3, <1>4 DEF Carries

\* Another part is absorbed.
LEMMA AbsorbRight ==
    ASSUME NEW arrays, NEW P, PartRight(arrays.MCTrack, arrays.PixelPoint, P),
           NEW tracks, NEW points, NEW Q, PartRight(tracks, points, Q), P \cap Q = {},
           NEW both, both = Absorb(arrays, tracks, points)
    PROVE PartRight(both.MCTrack, both.PixelPoint, P \cup Q)
<1>1. PICK s : s = arrays.MCTrack OBVIOUS
<1>2. PICK u : u = arrays.PixelPoint OBVIOUS
<1>3. PICK m : m = Len(s) OBVIOUS
<1>4. PICK t : t = Renumber("MCTrack", tracks, m) OBVIOUS
<1>5. PICK v : v = Renumber("PixelPoint", points, m) OBVIOUS
<1>6. PICK c : c = s \o t OBVIOUS
<1>7. PICK d : d = u \o v OBVIOUS
<1>8. both.MCTrack = c /\ both.PixelPoint = d
  BY <1>1, <1>2, <1>3, <1>4, <1>5, <1>6, <1>7 DEF Absorb
<1>9. Carries(s, P) /\ Carries(u, P) /\ TracksRight(s) /\ PointsRight(s, u)
  BY <1>1, <1>2 DEF PartRight
<1>10. Carries(tracks, Q) /\ Carries(points, Q) /\ TracksRight(tracks) /\ PointsRight(tracks, points)
  BY DEF PartRight
<1>11. /\ IsSeq(s) /\ m \in Nat /\ DOMAIN s = 1 .. m /\ IsSeq(u)
       /\ Len(u) \in Nat /\ DOMAIN u = 1 .. Len(u)
       /\ IsSeq(tracks) /\ IsSeq(points)
       /\ Len(tracks) \in Nat /\ DOMAIN tracks = 1 .. Len(tracks)
       /\ Len(points) \in Nat /\ DOMAIN points = 1 .. Len(points)
  BY <1>3, <1>9, <1>10, IsSeqIs DEF Carries
<1>12. Carries(t, Q) /\ Carries(v, Q) BY <1>4, <1>5, <1>10, <1>11, CarriesRenumbered
<1>13. Carries(c, P \cup Q) BY <1>6, <1>9, <1>12, CarriesBoth
<1>14. Carries(d, P \cup Q) BY <1>7, <1>9, <1>12, CarriesBoth
\* The elements.
<1>15. /\ IsSeq(t) /\ Len(t) = Len(tracks) /\ DOMAIN t = DOMAIN tracks
       /\ \A k \in DOMAIN tracks :
             /\ t[k].prim = tracks[k].prim /\ t[k].gen = tracks[k].gen
             /\ t[k].track = IF tracks[k].track < 0 THEN tracks[k].track ELSE tracks[k].track + m
  <2>1. \A k \in DOMAIN tracks : tracks[k] \in Track BY <1>10 DEF Carries
  <2>2. \A k \in DOMAIN tracks :
           /\ t[k].prim = tracks[k].prim /\ t[k].gen = tracks[k].gen
           /\ t[k].track = IF "MCTrack" = "MCTrack" /\ tracks[k].track < 0 THEN tracks[k].track
                           ELSE tracks[k].track + m
    BY <1>4, <1>11, <2>1, RenumberIs
  <2>3. IsSeq(t) BY <1>4, <1>11, <2>1, RenumberIs
  <2>4. Len(t) = Len(tracks) BY <1>4, <1>11, <2>1, RenumberIs
  <2>5. DOMAIN t = DOMAIN tracks BY <1>4, <1>11, <2>1, RenumberIs
  <2> QED BY <2>2, <2>3, <2>4, <2>5
<1>16. /\ IsSeq(v) /\ Len(v) = Len(points) /\ DOMAIN v = DOMAIN points
       /\ \A k \in DOMAIN points :
             /\ v[k].prim = points[k].prim /\ v[k].gen = points[k].gen
             /\ v[k].track = points[k].track + m
  <2>1. \A k \in DOMAIN points : points[k] \in Track BY <1>10 DEF Carries
  <2>2. \A k \in DOMAIN points :
           /\ v[k].prim = points[k].prim /\ v[k].gen = points[k].gen
           /\ v[k].track = IF "PixelPoint" = "MCTrack" /\ points[k].track < 0 THEN points[k].track
                           ELSE points[k].track + m
    BY <1>5, <1>11, <2>1, RenumberIs
  <2>3. IsSeq(v) BY <1>5, <1>11, <2>1, RenumberIs
  <2>4. Len(v) = Len(points) BY <1>5, <1>11, <2>1, RenumberIs
  <2>5. DOMAIN v = DOMAIN points BY <1>5, <1>11, <2>1, RenumberIs
  <2> QED BY <2>2, <2>3, <2>4, <2>5
<1>17. /\ DOMAIN c = 1 .. m + Len(tracks)
       /\ (\A i \in 1 .. m : c[i] = s[i]) /\ \A i \in DOMAIN tracks : c[m + i] = t[i]
  <2>1. DOMAIN c = 1 .. Len(s) + Len(t) BY <1>6, <1>11, <1>15, ConcatIs
  <2>2. \A i \in DOMAIN s : c[i] = s[i] BY <1>6, <1>11, <1>15, ConcatIs
  <2>3. \A i \in DOMAIN t : c[Len(s) + i] = t[i] BY <1>6, <1>11, <1>15, ConcatIs
  <2> QED BY <1>3, <1>11, <1>15, <2>1, <2>2, <2>3
<1>18. /\ DOMAIN d = 1 .. Len(u) + Len(points)
       /\ (\A i \in DOMAIN u : d[i] = u[i]) /\ \A i \in DOMAIN points : d[Len(u) + i] = v[i]
  <2>1. DOMAIN d = 1 .. Len(u) + Len(v) BY <1>7, <1>11, <1>16, ConcatIs
  <2>2. \A i \in DOMAIN u : d[i] = u[i] BY <1>7, <1>11, <1>16, ConcatIs
  <2>3. \A i \in DOMAIN v : d[Len(u) + i] = v[i] BY <1>7, <1>11, <1>16, ConcatIs
  <2> QED BY <1>16, <2>1, <2>2, <2>3
\* Where they lead to.
<1>19. ASSUME NEW i, NEW p, NEW gener, LeadsTo(s, i, p, gener) PROVE LeadsTo(c, i, p, gener)
  <2>1. i + 1 \in 1 .. m BY <1>11, <1>19 DEF LeadsTo
  <2>2. i + 1 \in DOMAIN c BY <1>11, <1>17, <2>1
  <2>3. c[i + 1] = s[i + 1] BY <1>17, <2>1
  <2> QED BY <1>19, <2>2, <2>3 DEF LeadsTo
<1>20. ASSUME NEW i \in Int, NEW p, NEW gener, LeadsTo(tracks, i, p, gener)
       PROVE i >= 0 /\ LeadsTo(c, i + m, p, gener)
  <2>1. i + 1 \in DOMAIN tracks /\ tracks[i + 1].prim = p /\ tracks[i + 1].gen = gener
    BY <1>20 DEF LeadsTo
  <2>2. i + 1 \in 1 .. Len(tracks) BY <1>11, <2>1
  <2>3. (i + m) + 1 = m + (i + 1) /\ m + (i + 1) \in 1 .. m + Len(tracks) /\ i >= 0
    BY <1>11, <2>2
  <2>4. c[m + (i + 1)] = t[i + 1] BY <1>17, <2>1
  <2>5. t[i + 1].prim = p /\ t[i + 1].gen = gener BY <1>15, <2>1
  <2>6. (i + m) + 1 \in DOMAIN c BY <1>17, <2>3
  <2>7. c[(i + m) + 1] = t[i + 1] BY <2>3, <2>4
  <2> QED BY <2>3, <2>5, <2>6, <2>7 DEF LeadsTo
<1>21. TracksRight(c)
  <2> SUFFICES ASSUME NEW k \in 1 .. m + Len(tracks)
               PROVE IF c[k].gen = 0 THEN c[k].track = -1
                     ELSE LeadsTo(c, c[k].track, c[k].prim, 0)
    BY <1>17 DEF TracksRight
  <2>1. CASE k \in 1 .. m
    <3>1. c[k] = s[k] /\ k \in DOMAIN s BY <1>11, <1>17, <2>1
    <3> QED BY <1>9, <1>19, <3>1 DEF TracksRight
  <2>2. CASE k \notin 1 .. m
    <3>1. PICK j \in DOMAIN tracks : k = m + j
      <4>1. k - m \in 1 .. Len(tracks) /\ k = m + (k - m) BY <1>11, <2>2
      <4> QED BY <1>11, <4>1
    <3>2. c[k] = t[j] BY <1>17, <3>1
    <3>3. tracks[j] \in Track BY <1>10 DEF Carries
    <3>4. tracks[j].track \in Int BY <3>3 DEF Track
    <3>5. IF tracks[j].gen = 0 THEN tracks[j].track = -1
          ELSE LeadsTo(tracks, tracks[j].track, tracks[j].prim, 0)
      BY <1>10 DEF TracksRight
    <3>6. /\ t[j].prim = tracks[j].prim /\ t[j].gen = tracks[j].gen
          /\ t[j].track = IF tracks[j].track < 0 THEN tracks[j].track ELSE tracks[j].track + m
      BY <1>15
    <3>7. CASE tracks[j].gen = 0 BY <3>2, <3>5, <3>6, <3>7
    <3>8. CASE tracks[j].gen # 0
      <4>1. LeadsTo(tracks, tracks[j].track, tracks[j].prim, 0) BY <3>5, <3>8
      <4>2. tracks[j].track >= 0 /\ LeadsTo(c, tracks[j].track + m, tracks[j].prim, 0)
        BY <1>20, <3>4, <4>1
      <4>3. t[j].track = tracks[j].track + m BY <3>4, <3>6, <4>2
      <4> QED BY <3>2, <3>6, <3>8, <4>2, <4>3
    <3> QED BY <3>7, <3>8
  <2> QED BY <2>1, <2>2
<1>22. PointsRight(c, d)
  <2> SUFFICES ASSUME NEW k \in 1 .. Len(u) + Len(points)
               PROVE LeadsTo(c, d[k].track, d[k].prim, d[k].gen)
    BY <1>18 DEF PointsRight
  <2>1. CASE k \in DOMAIN u
    <3>1. d[k] = u[k] BY <1>18, <2>1
    <3> QED BY <1>9, <1>19, <2>1, <3>1 DEF PointsRight
  <2>2. CASE k \notin DOMAIN u
    <3>1. PICK j \in DOMAIN points : k = Len(u) + j
      <4>1. k - Len(u) \in 1 .. Len(points) /\ k = Len(u) + (k - Len(u)) BY <1>11, <2>2
      <4> QED BY <1>11, <4>1
    <3>2. d[k] = v[j] BY <1>18, <3>1
    <3>3. points[j] \in Track BY <1>10 DEF Carries
    <3>4. points[j].track \in Int BY <3>3 DEF Track
    <3>5. LeadsTo(tracks, points[j].track, points[j].prim, points[j].gen)
      BY <1>10 DEF PointsRight
    <3>6. LeadsTo(c, points[j].track + m, points[j].prim, points[j].gen) BY <1>20, <3>4, <3>5
    <3> QED BY <1>16, <3>2, <3>6
  <2> QED BY <2>1, <2>2
<1> QED BY <1>8, <1>13, <1>14, <1>21, <1>22 DEF PartRight

\* What a transport device makes of a chunk.
LEMMA ProcessRunRight ==
    ASSUME NEW start \in Nat, NEW n \in Nat,
           NEW particles, particles = [k \in 1 .. n |-> start + k - 1],
           NEW arrays, arrays = ProcessRun(particles)
    PROVE PartRight(arrays.MCTrack, arrays.PixelPoint, start .. start + n - 1)
<1> DEFINE P == start .. start + n - 1
           M == {k \in 1 .. n : particles[k] \in Secondaries}
<1>1. DOMAIN particles = 1 .. n /\ \A k \in 1 .. n : particles[k] = start + k - 1 OBVIOUS
<1>2. PICK mothers : mothers = Ascending(M) OBVIOUS
<1>3. PICK m : m = Cardinality(M) OBVIOUS
<1>4. M \in SUBSET Nat /\ IsFiniteSet(M)
  <2>1. IsFiniteSet(1 .. n)
    <3>1. 1 \in Int /\ n \in Int OBVIOUS
    <3> QED BY <3>1, FS_Interval
  <2> QED BY <2>1, FS_Subset
<1>5. /\ m \in Nat /\ mothers \in [1 .. m -> M]
      /\ (\A i, j \in 1 .. m : i < j => mothers[i] < mothers[j])
      /\ \A x \in M : \E i \in 1 .. m : mothers[i] = x
  <2> HIDE DEF M
  <2>1. m \in Nat /\ AscentOf(mothers, m, M) BY <1>2, <1>3, <1>4, AscendingIs
  <2> QED BY <2>1 DEF AscentOf, Ascends
<1>6. PICK first : first = [k \in 1 .. n |-> [prim |-> particles[k], gen |-> 0, track |-> -1]]
  OBVIOUS
<1>7. PICK second : second = [k \in 1 .. m |-> [prim |-> particles[mothers[k]], gen |-> 1,
                                                track |-> mothers[k] - 1]]
  OBVIOUS
<1>8. PICK tracks : tracks = first \o second OBVIOUS
<1>9. PICK points : points = [k \in DOMAIN tracks |-> [tracks[k] EXCEPT !.track = k - 1]] OBVIOUS
<1>10. arrays.MCTrack = tracks /\ arrays.PixelPoint = points
  <2>1. DOMAIN mothers = 1 .. m BY <1>5
  <2> QED BY <1>1, <1>2, <1>6, <1>7, <1>8, <1>9, <2>1 DEF ProcessRun
<1>11. \A k \in 1 .. m : mothers[k] \in 1 .. n /\ particles[mothers[k]] \in Secondaries BY <1>5
<1>12. /\ IsSeq(first) /\ Len(first) = n /\ DOMAIN first = 1 .. n
       /\ \A k \in 1 .. n : first[k] = [prim |-> start + k - 1, gen |-> 0, track |-> -1]
  <2>1. \A k \in 1 .. n : first[k] = [prim |-> start + k - 1, gen |-> 0, track |-> -1]
    BY <1>1, <1>6
  <2>2. first \in [1 .. n -> {first[k] : k \in 1 .. n}] BY <1>6
  <2>3. PICK S : first \in Seq(S) /\ Len(first) = n
    <3>1. PICK S : S = {first[k] : k \in 1 .. n} OBVIOUS
    <3>2. first \in [1 .. n -> S] BY <2>2, <3>1
    <3>3. first \in Seq(S) /\ Len(first) = n BY <1>5, <3>2
    <3> QED BY <3>3
  <2>4. IsSeq(first) BY <2>3, Zenon DEF IsSeq
  <2> QED BY <1>6, <2>1, <2>3, <2>4
<1>13. /\ IsSeq(second) /\ Len(second) = m /\ DOMAIN second = 1 .. m
       /\ \A k \in 1 .. m : second[k] = [prim |-> start + mothers[k] - 1, gen |-> 1,
                                         track |-> mothers[k] - 1]
  <2>1. \A k \in 1 .. m : second[k] = [prim |-> start + mothers[k] - 1, gen |-> 1,
                                       track |-> mothers[k] - 1]
    BY <1>1, <1>7, <1>11
  <2>2. second \in [1 .. m -> {second[k] : k \in 1 .. m}] BY <1>7
  <2>3. PICK S : second \in Seq(S) /\ Len(second) = m
    <3>1. PICK S : S = {second[k] : k \in 1 .. m} OBVIOUS
    <3>2. second \in [1 .. m -> S] BY <2>2, <3>1
    <3>3. second \in Seq(S) /\ Len(second) = m BY <1>5, <3>2
    <3> QED BY <3>3
  <2>4. IsSeq(second) BY <2>3, Zenon DEF IsSeq
  <2> QED BY <1>7, <2>1, <2>3, <2>4
<1>14. IsSeq(tracks) /\ DOMAIN tracks = 1 .. n + m
  <2>1. IsSeq(tracks) BY <1>8, <1>12, <1>13, ConcatIs
  <2>2. DOMAIN tracks = 1 .. Len(first) + Len(second) BY <1>8, <1>12, <1>13, ConcatIs
  <2> QED BY <1>12, <1>13, <2>1, <2>2
<1>15. \A k \in 1 .. n : tracks[k] = [prim |-> start + k - 1, gen |-> 0, track |-> -1]
  <2>1. \A i \in DOMAIN first : tracks[i] = first[i] BY <1>8, <1>12, <1>13, ConcatIs
  <2> QED BY <1>12, <2>1
<1>15a. \A k \in 1 .. n : tracks[k].prim = start + k - 1 /\ tracks[k].gen = 0 /\ tracks[k].track = -1
  <2> TAKE k \in 1 .. n
  <2>1. PICK p : p = start + k - 1 OBVIOUS
  <2>2. tracks[k] = [prim |-> p, gen |-> 0, track |-> -1] BY <1>15, <2>1
  <2> QED BY <2>1, <2>2
<1>16. \A k \in 1 .. m : tracks[n + k] = [prim |-> start + mothers[k] - 1, gen |-> 1,
                                          track |-> mothers[k] - 1]
  <2>1. \A i \in DOMAIN second : tracks[Len(first) + i] = second[i] BY <1>8, <1>12, <1>13, ConcatIs
  <2> QED BY <1>12, <1>13, <2>1
<1>16a. \A k \in 1 .. m : /\ tracks[n + k].prim = start + mothers[k] - 1 /\ tracks[n + k].gen = 1
                          /\ tracks[n + k].track = mothers[k] - 1
  <2> TAKE k \in 1 .. m
  <2>1. PICK p : p = start + mothers[k] - 1 OBVIOUS
  <2>2. PICK q : q = mothers[k] - 1 OBVIOUS
  <2>3. tracks[n + k] = [prim |-> p, gen |-> 1, track |-> q] BY <1>16, <2>1, <2>2
  <2> QED BY <2>1, <2>2, <2>3
<1> HIDE DEF M
\* A track is a primary, or the secondary of one.
<1>17. ASSUME NEW k \in 1 .. n + m
       PROVE \/ /\ k \in 1 .. n /\ tracks[k].prim = start + k - 1 /\ tracks[k].gen = 0
                /\ tracks[k].track = -1
             \/ \E j \in 1 .. m : /\ k = n + j /\ tracks[k].prim = start + mothers[j] - 1
                                  /\ tracks[k].gen = 1 /\ tracks[k].track = mothers[j] - 1
  <2>1. CASE k <= n
    <3>1. k \in 1 .. n BY <1>5, <2>1
    <3> QED BY <1>15a, <3>1
  <2>2. CASE ~(k <= n)
    <3>1. k - n \in 1 .. m /\ k = n + (k - n) BY <1>5, <2>2
    <3>2. PICK j \in 1 .. m : k = n + j BY <3>1
    <3> QED BY <1>16a, <3>2
  <2> QED BY <2>1, <2>2
<1>18. ASSUME NEW k \in 1 .. n + m
       PROVE /\ tracks[k] \in Track /\ tracks[k].prim \in P
             /\ tracks[k].gen = 1 => tracks[k].prim \in Secondaries
  <2>1. CASE k <= n
    <3>1. k \in 1 .. n BY <1>5, <2>1
    <3>2. tracks[k] = [prim |-> start + k - 1, gen |-> 0, track |-> -1] BY <1>15, <3>1
    <3>3. start + k - 1 \in P /\ start + k - 1 \in Nat BY <3>1
    <3> HIDE DEF P
    <3> QED BY <3>2, <3>3 DEF Track
  <2>2. CASE ~(k <= n)
    <3>1. k - n \in 1 .. m /\ k = n + (k - n) BY <1>5, <2>2
    <3>2. PICK j \in 1 .. m : k = n + j BY <3>1
    <3>3. PICK x \in 1 .. n : x = mothers[j] /\ particles[x] \in Secondaries BY <1>11
    <3>4. tracks[k] = [prim |-> start + x - 1, gen |-> 1, track |-> x - 1] BY <1>16, <3>2, <3>3
    <3>5. start + x - 1 \in P /\ start + x - 1 \in Nat /\ x - 1 \in Int OBVIOUS
    <3>6. start + x - 1 \in Secondaries BY <1>1, <3>3
    <3> HIDE DEF P
    <3> QED BY <3>4, <3>5, <3>6 DEF Track
  <2> QED BY <2>1, <2>2
<1>19. ASSUME NEW p \in P PROVE Left(tracks, p, 0) /\ (p \in Secondaries => Left(tracks, p, 1))
  <2>1. PICK k \in 1 .. n : p = start + k - 1
    <3>1. p - start + 1 \in 1 .. n /\ p = start + (p - start + 1) - 1 OBVIOUS
    <3> QED BY <3>1
  <2>2. Left(tracks, p, 0)
    <3>1. k \in DOMAIN tracks BY <1>5, <1>14
    <3>2. tracks[k].prim = p /\ tracks[k].gen = 0 BY <1>15a, <2>1
    <3> QED BY <3>1, <3>2 DEF Left
  <2>3. ASSUME p \in Secondaries PROVE Left(tracks, p, 1)
    <3>1. k \in M BY <1>1, <2>1, <2>3 DEF M
    <3>2. PICK j \in 1 .. m : mothers[j] = k BY <1>5, <3>1
    <3>3. n + j \in DOMAIN tracks BY <1>5, <1>14
    <3>4. tracks[n + j].prim = p /\ tracks[n + j].gen = 1 BY <1>16a, <2>1, <3>2
    <3> QED BY <3>3, <3>4 DEF Left
  <2> QED BY <2>2, <2>3
<1>20. ASSUME NEW i \in 1 .. n + m, NEW k \in 1 .. n + m,
              tracks[i].prim = tracks[k].prim, tracks[i].gen = tracks[k].gen
       PROVE i = k
  <2>1. CASE tracks[i].gen = 0
    <3>1. i \in 1 .. n /\ tracks[i].prim = start + i - 1 BY <1>17, <2>1
    <3>2. tracks[k].gen = 0 BY <1>20, <2>1
    <3>3. k \in 1 .. n /\ tracks[k].prim = start + k - 1 BY <1>17, <3>2
    <3>4. start + i - 1 = start + k - 1 BY <1>20, <3>1, <3>3
    <3> QED BY <3>1, <3>3, <3>4
  <2>2. CASE tracks[i].gen = 1
    <3>1. PICK a \in 1 .. m : i = n + a /\ tracks[i].prim = start + mothers[a] - 1
      BY <1>17, <2>2
    <3>2. tracks[k].gen = 1 BY <1>20, <2>2
    <3>3. PICK b \in 1 .. m : k = n + b /\ tracks[k].prim = start + mothers[b] - 1
      BY <1>17, <3>2
    <3>4. mothers[a] \in Nat /\ mothers[b] \in Nat BY <1>11
    <3>5. start + mothers[a] - 1 = start + mothers[b] - 1 BY <1>20, <3>1, <3>3
    <3>6. mothers[a] = mothers[b] BY <3>4, <3>5
    <3>7. ~(a < b) /\ ~(b < a) BY <1>5, <3>4, <3>6
    <3>8. a = b BY <3>7
    <3> QED BY <3>1, <3>3, <3>8
  <2>3. tracks[i].gen \in {0, 1} BY <1>17
  <2> QED BY <2>1, <2>2, <2>3
<1> HIDE DEF P
<1>21. Carries(tracks, P)
  <2>1. \A k \in DOMAIN tracks : /\ tracks[k] \in Track /\ tracks[k].prim \in P
                                 /\ tracks[k].gen = 1 => tracks[k].prim \in Secondaries
    BY <1>14, <1>18
  <2>2. \A p \in P : Left(tracks, p, 0) /\ (p \in Secondaries => Left(tracks, p, 1)) BY <1>19
  <2>3. \A j, k \in DOMAIN tracks :
           tracks[j].prim = tracks[k].prim /\ tracks[j].gen = tracks[k].gen => j = k
    BY <1>14, <1>20
  <2> QED BY <1>14, <2>1, <2>2, <2>3, Zenon DEF Carries
<1>22. TracksRight(tracks)
  <2> SUFFICES ASSUME NEW k \in 1 .. n + m
               PROVE IF tracks[k].gen = 0 THEN tracks[k].track = -1
                     ELSE LeadsTo(tracks, tracks[k].track, tracks[k].prim, 0)
    BY <1>14 DEF TracksRight
  <2>1. CASE tracks[k].gen = 0 BY <1>17, <2>1
  <2>2. CASE tracks[k].gen # 0
    <3>1. PICK j \in 1 .. m : /\ tracks[k].prim = start + mothers[j] - 1
                              /\ tracks[k].track = mothers[j] - 1
      BY <1>17, <2>2
    <3>2. PICK x \in 1 .. n : x = mothers[j] BY <1>11
    <3>3. (x - 1) + 1 = x /\ x \in DOMAIN tracks BY <1>5, <1>14
    <3>4. tracks[x].prim = start + x - 1 /\ tracks[x].gen = 0 BY <1>15a
    <3>5. LeadsTo(tracks, x - 1, start + x - 1, 0) BY <3>3, <3>4 DEF LeadsTo
    <3> QED BY <2>2, <3>1, <3>2, <3>5
  <2> QED BY <2>1, <2>2
\* The points go with the tracks.
<1>23. \A k \in 1 .. n + m : /\ points[k] \in Track /\ points[k].prim = tracks[k].prim
                             /\ points[k].gen = tracks[k].gen /\ points[k].track = k - 1
  <2> TAKE k \in 1 .. n + m
  <2>1. PICK x : x = tracks[k] OBVIOUS
  <2>2. points[k] = [x EXCEPT !.track = k - 1] /\ x \in Track BY <1>9, <1>14, <1>18, <2>1
  <2>3. k - 1 \in Int BY <1>5
  <2> QED BY <2>1, <2>2, <2>3 DEF Track
<1>24. IsSeq(points) /\ DOMAIN points = 1 .. n + m
  <2>1. n + m \in Nat BY <1>5
  <2>2. points \in [1 .. n + m -> Track] BY <1>9, <1>14, <1>23
  <2>3. points \in Seq(Track) BY <2>1, <2>2
  <2> QED BY <2>2, <2>3 DEF IsSeq
<1>25. Carries(points, P)
  <2>1. \A k \in DOMAIN points : /\ points[k] \in Track /\ points[k].prim \in P
                                 /\ points[k].gen = 1 => points[k].prim \in Secondaries
    BY <1>18, <1>23, <1>24
  <2>2. ASSUME NEW p, NEW gener, Left(tracks, p, gener) PROVE Left(points, p, gener)
    BY <1>14, <1>23, <1>24, <2>2 DEF Left
  <2>3. \A p \in P : Left(points, p, 0) /\ (p \in Secondaries => Left(points, p, 1))
    BY <1>19, <2>2
  <2>4. \A j, k \in DOMAIN points :
           points[j].prim = points[k].prim /\ points[j].gen = points[k].gen => j = k
    BY <1>20, <1>23, <1>24
  <2> QED BY <1>24, <2>1, <2>3, <2>4, Zenon DEF Carries
<1>26. PointsRight(tracks, points)
  <2> SUFFICES ASSUME NEW k \in 1 .. n + m
               PROVE LeadsTo(tracks, points[k].track, points[k].prim, points[k].gen)
    BY <1>24 DEF PointsRight
  <2>1. (k - 1) + 1 = k /\ k \in DOMAIN tracks BY <1>5, <1>14
  <2>2. LeadsTo(tracks, k - 1, tracks[k].prim, tracks[k].gen) BY <2>1 DEF LeadsTo
  <2> QED BY <1>23, <2>2
<1> QED BY <1>10, <1>21, <1>22, <1>25, <1>26 DEF PartRight, P

\* What the first n buffered arrays together with the part's own are about.
Together(Q, n) == {p \in Nat : \E i \in 0 .. n : p \in Q[i]}

\* The parts are right each for itself, and about different primaries.
LEMMA CombineRight ==
    ASSUME NEW m, NEW part, NEW n \in Nat,
           NEW tracks, tracks = BufferedArrays(m, Key(part.header), "MCTrack"), n = Len(tracks),
           NEW points, points = BufferedArrays(m, Key(part.header), "PixelPoint"),
           NEW Q, \A i \in 0 .. n : Q[i] \in SUBSET Nat,
           \A i, j \in 0 .. n : i # j => Q[i] \cap Q[j] = {},
           PartRight(part.arrays.MCTrack, part.arrays.PixelPoint, Q[0]),
           \A k \in 1 .. n : PartRight(tracks[k], points[k], Q[k]),
           NEW whole, whole = Combine(m, part)
    PROVE PartRight(whole.MCTrack, whole.PixelPoint, Together(Q, n))
<1> DEFINE Step(g, k) == IF k = 0 THEN part.arrays ELSE Absorb(g[k - 1], tracks[k], points[k])
           Unfolds(g, top) == g = [k \in 0 .. top |-> Step(g, k)]
           Exist == {i \in 0 .. n : \E g : Unfolds(g, i)}
<1>1. 0 \in Exist
  <2> DEFINE g == [i \in 0 .. 0 |-> part.arrays]
  <2>1. \A k \in 0 .. 0 : Step(g, k) = part.arrays OBVIOUS
  <2> HIDE DEF Step
  <2>2. Unfolds(g, 0) BY <2>1
  <2> HIDE DEF Unfolds
  <2> QED BY <2>2
<1>2. ASSUME NEW i \in 0 .. n - 1, i \in Exist PROVE i + 1 \in Exist
  <2>1. PICK g : Unfolds(g, i) BY <1>2
  <2>2. PICK y : y = Absorb(g[i], tracks[i + 1], points[i + 1]) OBVIOUS
  <2> DEFINE h == [k \in 0 .. i + 1 |-> IF k = i + 1 THEN y ELSE g[k]]
  <2>3. \A k \in 0 .. i : h[k] = g[k] OBVIOUS
  <2>4. h[i + 1] = y OBVIOUS
  <2>5. h = [k \in 0 .. i + 1 |-> h[k]] OBVIOUS
  <2> HIDE DEF h
  <2>6. ASSUME NEW k \in 0 .. i + 1 PROVE h[k] = Step(h, k)
    <3>1. CASE k = i + 1
      <4>1. k # 0 /\ k - 1 = i /\ i \in 0 .. i BY <3>1
      <4> QED BY <2>2, <2>3, <2>4, <3>1, <4>1
    <3>2. CASE k # i + 1
      <4>1. k \in 0 .. i /\ (k # 0 => k - 1 \in 0 .. i) BY <3>2
      <4>2. g[k] = Step(g, k)
        <5> HIDE DEF Step
        <5> QED BY <2>1, <4>1
      <4> QED BY <2>3, <4>1, <4>2
    <3> QED BY <3>1, <3>2
  <2> HIDE DEF Step
  <2>7. Unfolds(h, i + 1) BY <2>5, <2>6
  <2>8. i + 1 \in 0 .. n OBVIOUS
  <2> HIDE DEF Unfolds
  <2> QED BY <2>7, <2>8
<1>3. n \in Exist
  <2>1. 0 \in Int /\ 0 \in Nat /\ n \in Int /\ n \in 0 .. n OBVIOUS
  <2>2. PICK T : T = Exist OBVIOUS
  <2> HIDE DEF Exist
  <2>3. 0 .. n \subseteq T BY <1>1, <1>2, <2>1, <2>2, InductionUpTo
  <2> QED BY <2>1, <2>2, <2>3
<1>4. whole = (CHOOSE g : Unfolds(g, n))[n] BY DEF Combine
<1>5. PICK g : Unfolds(g, n) /\ whole = g[n]
  <2>1. \E g : Unfolds(g, n)
    <3> HIDE DEF Unfolds
    <3> QED BY <1>3
  <2> HIDE DEF Unfolds
  <2> QED BY <1>4, <2>1
<1>6. \A k \in 0 .. n : g[k] = Step(g, k)
  <2> HIDE DEF Step
  <2> QED BY <1>5
<1> DEFINE Good == {k \in 0 .. n : PartRight(g[k].MCTrack, g[k].PixelPoint, Together(Q, k))}
<1>7. 0 \in Good
  <2>1. 0 \in 0 .. n OBVIOUS
  <2>2. g[0] = part.arrays BY <1>6, <2>1
  <2>3. Together(Q, 0) = Q[0] BY <2>1 DEF Together
  <2> QED BY <2>1, <2>2, <2>3
<1>8. ASSUME NEW k \in 0 .. n - 1, k \in Good PROVE k + 1 \in Good
  <2>1. k + 1 \in 0 .. n /\ k + 1 # 0 /\ (k + 1) - 1 = k /\ k + 1 \in 1 .. n OBVIOUS
  <2>2. g[k + 1] = Absorb(g[k], tracks[k + 1], points[k + 1])
    <3>1. g[k + 1] = Step(g, k + 1)
      <4> HIDE DEF Step
      <4> QED BY <1>6, <2>1
    <3> QED BY <2>1, <3>1
  <2>3. PartRight(g[k].MCTrack, g[k].PixelPoint, Together(Q, k)) BY <1>8
  <2>4. PartRight(tracks[k + 1], points[k + 1], Q[k + 1]) BY <2>1
  <2>5. Together(Q, k) \cap Q[k + 1] = {}
    <3>1. \A i \in 0 .. k : i \in 0 .. n /\ i # k + 1 OBVIOUS
    <3> QED BY <2>1, <3>1 DEF Together
  <2>6. Together(Q, k + 1) = Together(Q, k) \cup Q[k + 1]
    <3>1. \A i \in 0 .. k + 1 : i \in 0 .. k \/ i = k + 1 OBVIOUS
    <3>2. \A i \in 0 .. k : i \in 0 .. k + 1 OBVIOUS
    <3>3. k + 1 \in 0 .. k + 1 OBVIOUS
    <3> QED BY <2>1, <3>1, <3>2, <3>3 DEF Together
  <2>7. PICK a : a = g[k] OBVIOUS
  <2>8. PICK P : P = Together(Q, k) OBVIOUS
  <2>9. PICK both : both = g[k + 1] OBVIOUS
  <2>10. PartRight(both.MCTrack, both.PixelPoint, P \cup Q[k + 1])
    BY <2>2, <2>3, <2>4, <2>5, <2>7, <2>8, <2>9, AbsorbRight
  <2> QED BY <2>1, <2>6, <2>8, <2>9, <2>10
<1>9. n \in Good
  <2>1. 0 \in Int /\ 0 \in Nat /\ n \in Int /\ n \in 0 .. n OBVIOUS
  <2>2. PICK T : T = Good OBVIOUS
  <2> HIDE DEF Good
  <2>3. 0 .. n \subseteq T BY <1>7, <1>8, <2>1, <2>2, InductionUpTo
  <2> QED BY <2>1, <2>2, <2>3
<1> QED BY <1>5, <1>9

-----------------------------------------------------------------------------
(* The chunks of an event. *)

\* Where the chunks of an event of this size start, which primaries each has, and
\* where the generator says that it ends.
Starts(cs, size) == IF cs = 0 THEN {0} ELSE {s \in 0 .. size - 1 : s % cs = 0}
ChunkAt(cs, size, s) == IF cs = 0 THEN 0 .. size - 1 ELSE s .. s + cs - 1
EndAt(cs, size, s) == IF cs = 0 THEN size ELSE s + cs

\* The chunks from these starts stay in the event, have no primary in common, and
\* leave none out.
Fit(cs, size, S) ==
    S \in SUBSET Nat /\ \A s \in S : ChunkAt(cs, size, s) \subseteq 0 .. size - 1 /\ s + cs <= size
Apart(cs, size, S) ==
    \A s, t \in S : s # t => ChunkAt(cs, size, s) \cap ChunkAt(cs, size, t) = {}
Cover(cs, size, S) == \A p \in 0 .. size - 1 : \E s \in S : p \in ChunkAt(cs, size, s)

\* The chunks divide the event: they are about different primaries, none is left
\* over, and there are as many of them as the header says.
LEMMA ChunksAre ==
    ASSUME NEW cs \in Nat, NEW size \in Nat \ {0}, cs # 0 => size % cs = 0,
           NEW S, S = Starts(cs, size)
    PROVE /\ Fit(cs, size, S) /\ Apart(cs, size, S) /\ Cover(cs, size, S)
          /\ IsFiniteSet(S) /\ Cardinality(S) = IF cs = 0 THEN 1 ELSE size \div cs
<1>1. CASE cs = 0
  <2>1. S = {0} BY <1>1 DEF Starts
  <2>2. \A s : ChunkAt(cs, size, s) = 0 .. size - 1 BY <1>1 DEF ChunkAt
  <2>3. IsFiniteSet({0}) /\ Cardinality({0}) = 1 BY FS_Singleton
  <2>4. Fit(cs, size, S)
    <3>1. S \in SUBSET Nat /\ \A s \in S : s + cs <= size BY <1>1, <2>1
    <3> QED BY <2>2, <3>1 DEF Fit
  <2>5. Apart(cs, size, S) BY <2>1 DEF Apart
  <2>6. Cover(cs, size, S) BY <2>1, <2>2 DEF Cover
  <2> QED BY <1>1, <2>1, <2>3, <2>4, <2>5, <2>6
<1>2. CASE cs # 0
  <2>1. /\ \A s : s \in S <=> s \in 0 .. size - 1 /\ s % cs = 0
        /\ \A s : ChunkAt(cs, size, s) = s .. s + cs - 1
    BY <1>2 DEF Starts, ChunkAt
  <2>2. PICK q \in Nat : q = size \div cs /\ size = cs * q
    <3>1. size % cs = 0 BY <1>2
    <3>2. size \div cs \in Nat /\ size = cs * (size \div cs) + (size % cs) BY <1>2, DivMod
    <3>3. PICK k \in Nat : k = size \div cs BY <3>2
    <3>4. cs * k \in Nat /\ size = cs * k + 0 BY <3>1, <3>2, <3>3
    <3>5. size = cs * k BY <3>4
    <3> QED BY <3>3, <3>5
  \* A start is a multiple of the chunk size.
  <2>3. ASSUME NEW s \in S
        PROVE \E k \in 0 .. q - 1 : s = cs * k /\ s \in Nat /\ s + cs <= size
    <3>1. s \in 0 .. size - 1 /\ s % cs = 0 BY <2>1
    <3>2. s \div cs \in Nat /\ s = cs * (s \div cs) + (s % cs)
      <4>1. s \in Nat /\ cs \in Nat \ {0} BY <1>2, <3>1
      <4> QED BY <4>1, DivMod
    <3>3. PICK k \in Nat : k = s \div cs BY <3>2
    <3>4. cs * k \in Nat /\ s = cs * k + 0 BY <3>1, <3>2, <3>3
    <3>5. s = cs * k BY <3>4
    <3>6. k < q
      <4> SUFFICES ASSUME ~(k < q) PROVE FALSE OBVIOUS
      <4>1. q = k \/ q < k OBVIOUS
      <4>2. q < k => cs * q + cs <= cs * k BY <1>2, MulMono
      <4>3. cs * q \in Nat /\ cs * q = size /\ cs * k = s BY <2>2, <3>4, <3>5
      <4>4. q = k => size = s BY <4>3
      <4> QED BY <1>2, <3>1, <4>1, <4>2, <4>3, <4>4
    <3>7. cs * k + cs <= cs * q BY <1>2, <3>6, MulMono
    <3>8. k \in 0 .. q - 1 BY <3>6
    <3> QED BY <2>2, <3>1, <3>5, <3>7, <3>8
  <2>4. ASSUME NEW k \in 0 .. q - 1 PROVE cs * k \in S /\ cs * k \in Nat
    <3>1. cs * k + cs <= cs * q BY <1>2, MulMono
    <3>2. cs * k \in Nat BY <1>2
    <3>3. cs * k \in 0 .. size - 1 BY <1>2, <2>2, <3>1, <3>2
    <3>4. (cs * k) % cs = cs * k - cs * k
      <4>1. PICK a \in Nat : a = cs * k BY <3>2
      <4>2. cs * k <= a /\ a < cs * k + cs /\ k \in Int BY <1>2, <4>1
      <4>3. a % cs = a - cs * k BY <1>2, <4>2, ModUnique
      <4> QED BY <4>1, <4>3
    <3>5. (cs * k) % cs = 0 BY <3>2, <3>4
    <3> QED BY <2>1, <3>2, <3>3, <3>5
  <2>5. S \in SUBSET Nat /\ \A s \in S : ChunkAt(cs, size, s) \subseteq 0 .. size - 1 /\ s + cs <= size
    <3>1. ASSUME NEW s \in S
          PROVE s \in Nat /\ ChunkAt(cs, size, s) \subseteq 0 .. size - 1 /\ s + cs <= size
      <4>1. s \in Nat /\ s + cs <= size BY <2>3
      <4>2. \A p \in s .. s + cs - 1 : p \in 0 .. size - 1 BY <4>1
      <4> QED BY <2>1, <4>1, <4>2
    <3> QED BY <3>1
  <2>6. ASSUME NEW s \in S, NEW t \in S, s # t
        PROVE ChunkAt(cs, size, s) \cap ChunkAt(cs, size, t) = {}
    <3>1. ASSUME NEW a \in S, NEW b \in S, a < b PROVE a + cs <= b
      <4>1. PICK k \in 0 .. q - 1 : a = cs * k /\ a \in Nat BY <2>3
      <4>2. PICK l \in 0 .. q - 1 : b = cs * l /\ b \in Nat BY <2>3
      <4>3. k < l
        <5> SUFFICES ASSUME ~(k < l) PROVE FALSE OBVIOUS
        <5>1. l = k \/ l < k OBVIOUS
        <5>2. l < k => cs * l + cs <= cs * k BY <1>2, MulMono
        <5> QED BY <1>2, <3>1, <4>1, <4>2, <5>1, <5>2
      <4>4. cs * k + cs <= cs * l BY <1>2, <4>3, MulMono
      <4> QED BY <4>1, <4>2, <4>4
    <3>2. s \in Nat /\ t \in Nat BY <2>5
    <3>3. s + cs <= t \/ t + cs <= s BY <2>6, <3>1, <3>2
    <3>4. \A p : ~(p \in s .. s + cs - 1 /\ p \in t .. t + cs - 1) BY <3>2, <3>3
    <3> QED BY <2>1, <3>4
  <2>7. ASSUME NEW p \in 0 .. size - 1 PROVE \E s \in S : p \in ChunkAt(cs, size, s)
    <3>1. /\ p \div cs \in Nat /\ p % cs \in 0 .. cs - 1
          /\ p = cs * (p \div cs) + (p % cs)
      <4>1. p \in Nat /\ cs \in Nat \ {0} BY <1>2
      <4> QED BY <4>1, DivMod
    <3>2. PICK k \in Nat : k = p \div cs BY <3>1
    <3>3. PICK r \in 0 .. cs - 1 : r = p % cs BY <3>1
    <3>4. p = cs * k + r /\ cs * k \in Nat BY <3>1, <3>2, <3>3
    <3>5. k < q
      <4> SUFFICES ASSUME ~(k < q) PROVE FALSE OBVIOUS
      <4>1. q = k \/ q < k OBVIOUS
      <4>2. q < k => cs * q + cs <= cs * k BY <1>2, MulMono
      <4>3. cs * q = size /\ (q = k => cs * k = size) BY <2>2
      <4> QED BY <1>2, <3>4, <4>1, <4>2, <4>3
    <3>6. cs * k \in S BY <2>4, <3>5
    <3>7. p \in cs * k .. cs * k + cs - 1 BY <3>4
    <3> QED BY <2>1, <3>6, <3>7
  <2>8. IsFiniteSet(S) /\ Cardinality(S) = q
    <3>1. PICK f : f = [i \in 1 .. q |-> cs * (i - 1)] OBVIOUS
    <3>2. \A i \in 1 .. q : f[i] = cs * (i - 1) /\ i - 1 \in 0 .. q - 1 BY <3>1
    <3>3. f \in [1 .. q -> S]
      <4>1. \A i \in 1 .. q : f[i] \in S BY <2>4, <3>2
      <4> QED BY <3>1, <4>1
    <3>4. ASSUME NEW i \in 1 .. q, NEW j \in 1 .. q, f[i] = f[j] PROVE i = j
      <4>1. ASSUME NEW k \in 0 .. q - 1, NEW l \in 0 .. q - 1, k < l PROVE cs * k # cs * l
        <5>1. cs * k + cs <= cs * l /\ cs * k \in Nat /\ cs * l \in Nat BY <1>2, <4>1, MulMono
        <5> QED BY <1>2, <5>1
      <4>2. cs * (i - 1) = cs * (j - 1) BY <3>2, <3>4
      <4>3. i - 1 \in 0 .. q - 1 /\ j - 1 \in 0 .. q - 1 OBVIOUS
      <4>4. ~(i - 1 < j - 1) /\ ~(j - 1 < i - 1) BY <4>1, <4>2, <4>3
      <4> QED BY <4>4
    <3>5. ASSUME NEW s \in S PROVE \E i \in 1 .. q : f[i] = s
      <4>1. PICK k \in 0 .. q - 1 : s = cs * k BY <2>3
      <4>2. k + 1 \in 1 .. q /\ (k + 1) - 1 = k OBVIOUS
      <4>3. f[k + 1] = cs * k BY <3>2, <4>2
      <4> QED BY <4>1, <4>2, <4>3
    <3>6. f \in Surjection(1 .. q, S) BY <3>3, <3>5 DEF Surjection
    <3>7. f \in Injection(1 .. q, S) BY <3>3, <3>4 DEF Injection, IsInjective
    <3>8. IsFiniteSet(1 .. q) /\ Cardinality(1 .. q) = q
      <4>1. 1 \in Int /\ q \in Int OBVIOUS
      <4>2. IsFiniteSet(1 .. q) /\ Cardinality(1 .. q) = IF 1 > q THEN 0 ELSE q - 1 + 1
        BY <4>1, FS_Interval
      <4> QED BY <4>2
    <3> QED BY <3>6, <3>7, <3>8, FS_Surjection
  <2>9. Fit(cs, size, S) BY <2>5 DEF Fit
  <2>10. Apart(cs, size, S) BY <2>6 DEF Apart
  <2>11. Cover(cs, size, S) BY <2>7 DEF Cover
  <2> QED BY <1>2, <2>2, <2>8, <2>9, <2>10, <2>11
<1> QED BY <1>1, <1>2

-----------------------------------------------------------------------------
(* What is sent is right: the further invariant. *)

\* The chunks divide every event: the header counts whole chunks only.
ChunksDivide == \A s \in Setups, n \in EventSizes : s.chunkSize # 0 => n % s.chunkSize = 0

\* The generator has come to the start of a chunk.
PlaceInv ==
    /\ \A e \in 1 .. Len(sizes) : sizes[e] \in EventSizes
    /\ gen.fChunkPointer # 0 => gen.fChunkPointer \in Starts(ChunkSize, sizes[Len(sizes)])

\* A header of a chunk says where the chunk starts and ends.
HeaderRight(cs, size, h) == h.chunkStart \in Starts(cs, size) /\ h.nPrim = EndAt(cs, size, h.chunkStart)

HeadersRight ==
    \A t \in Transporters : \A i \in DOMAIN primaries[t] :
        HeaderRight(ChunkSize, sizes[primaries[t][i].event], primaries[t][i])

\* The arrays are about these primaries.
IsPart(arrays, P) == PartRight(arrays.MCTrack, arrays.PixelPoint, P)

\* A part is about the primaries of its chunk.
SentRight(cs, size, part) ==
    /\ part.header.chunkStart \in Starts(cs, size)
    /\ IsPart(part.arrays, ChunkAt(cs, size, part.header.chunkStart))

DataRight ==
    \A t \in Transporters : \A i \in DOMAIN data[t] :
        SentRight(ChunkSize, sizes[data[t][i].header.event], data[t][i])

\* The points of a part follow its tracks in the map, and each part is there once.
PairsRight(m) ==
    /\ \A i \in DOMAIN m.fObjectMap :
          \/ /\ m.fObjectMap[i].name = "MCTrack" /\ i + 1 \in DOMAIN m.fObjectMap
             /\ m.fObjectMap[i + 1].name = "PixelPoint"
             /\ m.fObjectMap[i + 1].key = m.fObjectMap[i].key
          \/ /\ m.fObjectMap[i].name = "PixelPoint" /\ i - 1 \in DOMAIN m.fObjectMap
             /\ m.fObjectMap[i - 1].name = "MCTrack"
             /\ m.fObjectMap[i - 1].key = m.fObjectMap[i].key
    /\ \A i, j \in DOMAIN m.fObjectMap :
          /\ m.fObjectMap[i].name = "MCTrack" /\ m.fObjectMap[j].name = "MCTrack"
          /\ m.fObjectMap[i].key = m.fObjectMap[j].key
          /\ m.fObjectMap[i].start = m.fObjectMap[j].start
          => i = j

\* Where the tracks of the parts of an event are.
EntriesAt(m, key) == {i \in DOMAIN m.fObjectMap : /\ m.fObjectMap[i].key = key
                                                  /\ m.fObjectMap[i].name = "MCTrack"}

\* What is in the map is a part of an event; those of a complete event are empty.
EntryRight(cs, size, complete, tracks, points) ==
    /\ tracks.start \in Starts(cs, size)
    /\ ~complete => PartRight(tracks.array, points.array, ChunkAt(cs, size, tracks.start))

MapRight ==
    /\ PairsRight(merger)
    /\ \A i \in DOMAIN merger.fObjectMap :
          merger.fObjectMap[i].name = "MCTrack" =>
              \E e \in 1 .. Len(sizes) :
                  /\ server.fNofSimDevices > 0
                  /\ merger.fObjectMap[i].key = <<e, server.fRunId>>
                  /\ EntryRight(ChunkSize, sizes[e], e \in Complete, merger.fObjectMap[i],
                                merger.fObjectMap[i + 1])

\* As many parts were counted as there are in the map, until the event is complete.
Counted ==
    /\ server.fNofSimDevices = 0 =>
          /\ DOMAIN merger.fObjectMap = {}
          /\ \A key : PartsReceived(merger, key) = 0
    /\ \A e \in Nat \ Complete :
          PartsReceived(merger, <<e, server.fRunId>>)
              = Cardinality(EntriesAt(merger, <<e, server.fRunId>>))

\* What was sent on is a whole event.
SinkRight ==
    /\ \A i \in DOMAIN dataOut : IsPart(dataOut[i].arrays, 0 .. sizes[dataOut[i].header.event] - 1)
    /\ \A i \in DOMAIN tree : IsPart(tree[i].arrays, 0 .. sizes[tree[i].header.event] - 1)

WholeInv == PlaceInv /\ HeadersRight /\ DataRight /\ MapRight /\ Counted /\ SinkRight

-----------------------------------------------------------------------------
(* What a step makes of the map. *)

\* The entries of another event stay; those of this one lose their arrays.
ErasedAt(new, old, key) ==
    /\ DOMAIN new = DOMAIN old
    /\ \A i \in DOMAIN old : /\ new[i].key = old[i].key /\ new[i].start = old[i].start
                             /\ new[i].name = old[i].name
                             /\ old[i].key # key => new[i] = old[i]

LEMMA ErasedIs ==
    ASSUME NEW m, IsMerger(m), NEW part, ~GotAgain(m, part.header), IsLastPart(m, part.header),
           NEW after, after = MergeData(m, part)
    PROVE ErasedAt(after.fObjectMap, m.fObjectMap, Key(part.header))
<1>1. PICK key : key = Key(part.header) OBVIOUS
<1>2. PICK n : n = CountPart(m, key) OBVIOUS
<1>3. IsMerger(n) /\ n.fObjectMap = m.fObjectMap BY <1>2, CountPartIs
<1>4. PICK old : old = m.fObjectMap OBVIOUS
<1> DEFINE Emptied(i) == IF old[i].key = key THEN [old[i] EXCEPT !.array = << >>] ELSE old[i]
           q == [i \in DOMAIN old |-> Emptied(i)]
<1>5. after = [n EXCEPT !.fObjectMap = q] BY <1>1, <1>2, <1>3, <1>4 DEF MergeData, EraseMerged
<1>6. after.fObjectMap = q
  <2>1. n \in [fNofPartsPerEventMap : {n.fNofPartsPerEventMap}, fObjectMap : {n.fObjectMap},
               fatal : BOOLEAN]
    BY <1>3 DEF IsMerger
  <2> HIDE DEF q
  <2> QED BY <1>5, <2>1
<1>7. ASSUME NEW i \in DOMAIN old
      PROVE /\ q[i].key = old[i].key /\ q[i].start = old[i].start /\ q[i].name = old[i].name
            /\ old[i].key # key => q[i] = old[i]
  <2>1. PICK o : o = old[i] OBVIOUS
  <2>2. o \in [key : {o.key}, start : {o.start}, name : {o.name}, array : {o.array}]
    BY <1>4, <2>1 DEF IsMerger
  <2>3. q[i] = IF o.key = key THEN [o EXCEPT !.array = << >>] ELSE o BY <2>1
  <2>4. PICK r : r = q[i] OBVIOUS
  <2>5. r = o \/ r = [o EXCEPT !.array = << >>] BY <2>3, <2>4
  <2>6. r.key = o.key /\ r.start = o.start /\ r.name = o.name BY <2>2, <2>5
  <2> HIDE DEF q
  <2> QED BY <2>1, <2>3, <2>4, <2>6
<1>8. DOMAIN q = DOMAIN old OBVIOUS
<1> HIDE DEF q
<1> QED BY <1>1, <1>4, <1>6, <1>7, <1>8 DEF ErasedAt

\* The two entries of the part follow those that were there.
PutAt(new, old, part) ==
    LET n == Len(old)
    IN  /\ n \in Nat /\ DOMAIN old = 1 .. n /\ DOMAIN new = 1 .. n + 2
        /\ \A i \in 1 .. n : new[i] = old[i]
        /\ \A i \in n + 1 .. n + 2 :
              new[i].key = Key(part.header) /\ new[i].start = part.header.chunkStart
        /\ new[n + 1].name = "MCTrack" /\ new[n + 1].array = part.arrays.MCTrack
        /\ new[n + 2].name = "PixelPoint" /\ new[n + 2].array = part.arrays.PixelPoint

LEMMA PutIs ==
    ASSUME NEW m, IsMerger(m), NEW part, ~GotAgain(m, part.header), ~IsLastPart(m, part.header),
           NEW after, after = MergeData(m, part)
    PROVE PutAt(after.fObjectMap, m.fObjectMap, part)
<1>1. PICK key : key = Key(part.header) OBVIOUS
<1>2. PICK n : n = CountPart(m, key) OBVIOUS
<1>3. IsMerger(n) /\ n.fObjectMap = m.fObjectMap BY <1>2, CountPartIs
<1>4. PICK old : old = m.fObjectMap OBVIOUS
<1>5. PICK a : a = [key |-> key, start |-> part.header.chunkStart,
                    name |-> "MCTrack", array |-> part.arrays["MCTrack"]]
  OBVIOUS
<1>6. PICK b : b = [key |-> key, start |-> part.header.chunkStart,
                    name |-> "PixelPoint", array |-> part.arrays["PixelPoint"]]
  OBVIOUS
<1>7. PICK q : q = old \o <<a, b>> OBVIOUS
<1>8. after = [n EXCEPT !.fObjectMap = q]
  BY <1>1, <1>2, <1>3, <1>4, <1>5, <1>6, <1>7 DEF MergeData, PutInBuffer
<1>9. after.fObjectMap = q
  <2>1. n \in [fNofPartsPerEventMap : {n.fNofPartsPerEventMap}, fObjectMap : {n.fObjectMap},
               fatal : BOOLEAN]
    BY <1>3 DEF IsMerger
  <2> QED BY <1>8, <2>1
<1>10. IsSeq(<<a, b>>) /\ Len(<<a, b>>) = 2 /\ DOMAIN <<a, b>> = 1 .. 2
       /\ <<a, b>>[1] = a /\ <<a, b>>[2] = b
  <2>1. <<a, b>> \in Seq({a, b}) OBVIOUS
  <2>2. IsSeq(<<a, b>>) BY <2>1, Zenon DEF IsSeq
  <2>3. Len(<<a, b>>) = 2 /\ DOMAIN <<a, b>> = 1 .. 2 OBVIOUS
  <2>4. <<a, b>>[1] = a /\ <<a, b>>[2] = b OBVIOUS
  <2> QED BY <2>2, <2>3, <2>4
<1>11. IsSeq(old) /\ Len(old) \in Nat /\ DOMAIN old = 1 .. Len(old)
  <2>1. IsSeq(old) BY <1>4 DEF IsMerger
  <2> QED BY <2>1, IsSeqIs
<1>12. /\ DOMAIN q = 1 .. Len(old) + Len(<<a, b>>)
       /\ \A i \in DOMAIN old : q[i] = old[i]
  BY <1>7, <1>10, <1>11, ConcatIs
<1>13. \A i \in DOMAIN <<a, b>> : q[Len(old) + i] = <<a, b>>[i]
  BY <1>7, <1>10, <1>11, ConcatIs
<1>14. 1 \in DOMAIN <<a, b>> /\ 2 \in DOMAIN <<a, b>> BY <1>10
<1>15. q[Len(old) + 1] = a /\ q[Len(old) + 2] = b BY <1>10, <1>13, <1>14
<1>16. DOMAIN q = 1 .. Len(old) + 2 BY <1>10, <1>12
<1>17. /\ a.key = key /\ a.start = part.header.chunkStart /\ a.name = "MCTrack"
       /\ a.array = part.arrays.MCTrack
  BY <1>5
<1>18. /\ b.key = key /\ b.start = part.header.chunkStart /\ b.name = "PixelPoint"
       /\ b.array = part.arrays.PixelPoint
  BY <1>6
<1>19. \A i \in Len(old) + 1 .. Len(old) + 2 : q[i] = a \/ q[i] = b
  <2>1. \A i \in Len(old) + 1 .. Len(old) + 2 : i = Len(old) + 1 \/ i = Len(old) + 2 BY <1>11
  <2> QED BY <1>15, <2>1
<1>20. \A i \in 1 .. Len(old) : q[i] = old[i] BY <1>11, <1>12
<1>21. \A i \in Len(old) + 1 .. Len(old) + 2 : q[i].key = key /\ q[i].start = part.header.chunkStart
  BY <1>17, <1>18, <1>19
<1> QED BY <1>1, <1>4, <1>9, <1>11, <1>15, <1>16, <1>17, <1>18, <1>20, <1>21 DEF PutAt

\* The arrays the merger finds: those of the tracks, and of the points that follow them.
BufferedIs(m, key, at, n) ==
    LET tracks == BufferedArrays(m, key, "MCTrack")
        points == BufferedArrays(m, key, "PixelPoint")
    IN  /\ Len(tracks) = n
        /\ \A k \in 1 .. n : /\ tracks[k] = m.fObjectMap[at[k]].array
                             /\ points[k] = m.fObjectMap[at[k] + 1].array

LEMMA EntriesFinite ==
    ASSUME NEW m, IsMerger(m), NEW key
    PROVE EntriesAt(m, key) \in SUBSET Nat /\ IsFiniteSet(EntriesAt(m, key))
<1>1. DOMAIN m.fObjectMap = 1 .. Len(m.fObjectMap) /\ Len(m.fObjectMap) \in Nat
  BY IsSeqIs DEF IsMerger
<1>2. IsFiniteSet(1 .. Len(m.fObjectMap)) BY <1>1, FS_Interval
<1>3. EntriesAt(m, key) \subseteq 1 .. Len(m.fObjectMap) BY <1>1 DEF EntriesAt
<1> QED BY <1>2, <1>3, FS_Subset

LEMMA BufferedAre ==
    ASSUME NEW m, IsMerger(m), PairsRight(m), NEW key,
           NEW n, n = Cardinality(EntriesAt(m, key))
    PROVE n \in Nat /\ \E at : AscentOf(at, n, EntriesAt(m, key)) /\ BufferedIs(m, key, at, n)
<1>1. PICK E : E = EntriesAt(m, key) OBVIOUS
<1>2. PICK f : f = m.fObjectMap OBVIOUS
<1>3. E \in SUBSET Nat /\ IsFiniteSet(E) BY <1>1, EntriesFinite
<1>4. PICK F : F = {i \in DOMAIN f : f[i].key = key /\ f[i].name = "PixelPoint"} OBVIOUS
<1>5. DOMAIN f = 1 .. Len(f) /\ Len(f) \in Nat BY <1>2, IsSeqIs DEF IsMerger
<1>6. \A i : i \in E <=> i \in DOMAIN f /\ f[i].key = key /\ f[i].name = "MCTrack"
  BY <1>1, <1>2 DEF EntriesAt
<1>7. F = Shifted(E)
  <2>1. ASSUME NEW i \in E PROVE i + 1 \in F
    <3>1. /\ i + 1 \in DOMAIN f /\ f[i + 1].name = "PixelPoint" /\ f[i + 1].key = f[i].key
      BY <1>2, <1>6 DEF PairsRight
    <3> QED BY <1>4, <1>6, <3>1
  <2>2. ASSUME NEW i \in F PROVE i - 1 \in E /\ (i - 1) + 1 = i
    <3>1. i \in DOMAIN f /\ f[i].key = key /\ f[i].name = "PixelPoint" BY <1>4
    <3>2. i - 1 \in DOMAIN f /\ f[i - 1].name = "MCTrack" /\ f[i - 1].key = f[i].key
      BY <1>2, <3>1 DEF PairsRight
    <3>3. (i - 1) + 1 = i BY <1>5, <3>1
    <3> QED BY <1>6, <3>1, <3>2, <3>3
  <2> QED BY <2>1, <2>2, <1>3 DEF Shifted
<1>8. PICK s : s = Ascending(E) OBVIOUS
<1>9. PICK t : t = Ascending(F) OBVIOUS
<1>10. n \in Nat /\ AscentOf(s, n, E) BY <1>1, <1>3, <1>8, AscendingIs
<1>11. F \in SUBSET Nat /\ IsFiniteSet(F) /\ Cardinality(F) = n
  BY <1>1, <1>3, <1>7, AscendingShift
<1>12. \A k \in 1 .. n : t[k] = s[k] + 1 BY <1>1, <1>3, <1>7, <1>8, <1>9, AscendingShift
<1>13. AscentOf(t, n, F) BY <1>9, <1>11, AscendingIs
<1>14. s \in [1 .. n -> E] /\ t \in [1 .. n -> F] BY <1>10, <1>13 DEF AscentOf
<1>15. BufferedArrays(m, key, "MCTrack") = [k \in DOMAIN s |-> f[s[k]].array]
  BY <1>1, <1>2, <1>8 DEF BufferedArrays, EntriesAt
<1>16. BufferedArrays(m, key, "PixelPoint") = [k \in DOMAIN t |-> f[t[k]].array]
  BY <1>2, <1>4, <1>9 DEF BufferedArrays
<1>17. PICK a : a = [k \in 1 .. n |-> f[s[k]].array] OBVIOUS
<1>18. PICK b : b = [k \in 1 .. n |-> f[t[k]].array] OBVIOUS
<1>19. BufferedArrays(m, key, "MCTrack") = a /\ BufferedArrays(m, key, "PixelPoint") = b
  BY <1>14, <1>15, <1>16, <1>17, <1>18
<1>20. Len(a) = n
  <2>1. PICK S : S = {f[s[k]].array : k \in 1 .. n} OBVIOUS
  <2>2. a \in [1 .. n -> S] BY <1>17, <2>1
  <2> QED BY <1>10, <2>2
<1>21. \A k \in 1 .. n : a[k] = f[s[k]].array /\ b[k] = f[s[k] + 1].array
  BY <1>12, <1>17, <1>18
<1>22. BufferedIs(m, key, s, n) BY <1>2, <1>19, <1>20, <1>21 DEF BufferedIs
<1> QED BY <1>1, <1>10, <1>22

-----------------------------------------------------------------------------
(* What stays when other processes take their steps. *)

\* The events that were generated stay what they are.
SizesKept ==
    /\ setup' = setup
    /\ \A e \in 1 .. Len(sizes) : sizes'[e] = sizes[e] /\ e \in 1 .. Len(sizes')

LEMMA HeaderEvents ==
    ASSUME SplitInv
    PROVE /\ \A t \in Transporters : \A i \in DOMAIN primaries[t] :
                primaries[t][i].event \in 1 .. Len(sizes)
          /\ \A t \in Transporters : \A i \in DOMAIN data[t] :
                data[t][i].header.event \in 1 .. Len(sizes)
          /\ \A i \in DOMAIN dataOut : dataOut[i].header.event \in 1 .. Len(sizes)
          /\ \A i \in DOMAIN tree : tree[i].header.event \in 1 .. Len(sizes)
<1> USE DEF SplitInv
<1>1. \A h : Id(h) \in Made => h.event \in 1 .. Len(sizes) BY DEF Id, Made
<1>2. Complete \subseteq 1 .. Len(sizes) BY DEF Complete
<1>3. \A t \in Transporters : \A i \in DOMAIN primaries[t] : primaries[t][i].event \in 1 .. Len(sizes)
  BY <1>1 DEF PartsMade
<1>4. \A t \in Transporters : \A i \in DOMAIN data[t] : data[t][i].header.event \in 1 .. Len(sizes)
  BY <1>1 DEF PartsMade
<1>5. /\ \A i \in DOMAIN dataOut : dataOut[i].header.event \in 1 .. Len(sizes)
      /\ \A i \in DOMAIN tree : tree[i].header.event \in 1 .. Len(sizes)
  BY <1>2 DEF EventsOnce
<1> QED BY <1>3, <1>4, <1>5

LEMMA HeadersKept ==
    ASSUME SplitInv, HeadersRight, SizesKept, primaries' = primaries
    PROVE HeadersRight'
<1>1. ChunkSize' = ChunkSize BY DEF SizesKept, ChunkSize
<1> QED BY <1>1, HeaderEvents DEF HeadersRight, SizesKept

LEMMA DataKept ==
    ASSUME SplitInv, DataRight, SizesKept, data' = data
    PROVE DataRight'
<1>1. ChunkSize' = ChunkSize BY DEF SizesKept, ChunkSize
<1> QED BY <1>1, HeaderEvents DEF DataRight, SizesKept

LEMMA SinkKept ==
    ASSUME SplitInv, SinkRight, SizesKept, dataOut' = dataOut, tree' = tree
    PROVE SinkRight'
  BY HeaderEvents DEF SinkRight, SizesKept

\* As long as the merger gets nothing and no event is made complete otherwise.
LEMMA MapKept ==
    ASSUME MapRight, Counted, SizesKept, UNCHANGED merger, Complete' = Complete,
           server'.fNofSimDevices > 0, server.fNofSimDevices \in Nat,
           server.fNofSimDevices > 0 => server'.fRunId = server.fRunId
    PROVE MapRight'
<1>1. ChunkSize' = ChunkSize BY DEF SizesKept, ChunkSize
<1>2. PairsRight(merger') BY DEF MapRight
<1>3. ASSUME NEW i \in DOMAIN merger.fObjectMap, merger.fObjectMap[i].name = "MCTrack"
      PROVE \E e \in 1 .. Len(sizes') :
                  /\ server'.fNofSimDevices > 0
                  /\ merger.fObjectMap[i].key = <<e, server'.fRunId>>
                  /\ EntryRight(ChunkSize', sizes'[e], e \in Complete', merger.fObjectMap[i],
                                merger.fObjectMap[i + 1])
  <2>1. PICK e \in 1 .. Len(sizes) :
                  /\ server.fNofSimDevices > 0
                  /\ merger.fObjectMap[i].key = <<e, server.fRunId>>
                  /\ EntryRight(ChunkSize, sizes[e], e \in Complete, merger.fObjectMap[i],
                                merger.fObjectMap[i + 1])
    BY <1>3 DEF MapRight
  <2>2. sizes'[e] = sizes[e] /\ e \in 1 .. Len(sizes') BY DEF SizesKept
  <2>3. EntryRight(ChunkSize', sizes'[e], e \in Complete', merger.fObjectMap[i],
                   merger.fObjectMap[i + 1])
    BY <1>1, <2>1, <2>2
  <2> QED BY <2>1, <2>2, <2>3
<1> QED BY <1>2, <1>3 DEF MapRight

LEMMA WholeInit == Init => WholeInv
<1> SUFFICES ASSUME Init PROVE WholeInv OBVIOUS
<1> USE DEF Init
<1>1. IsSeq(<< >>) /\ Len(<< >>) = 0 /\ DOMAIN << >> = {}
  <2>1. DOMAIN << >> = 1 .. 0 BY EmptyIsSeq, IsSeqIs
  <2> QED BY <2>1, EmptyIsSeq
<1>2. /\ DOMAIN merger.fObjectMap = {} /\ merger.fNofPartsPerEventMap = {}
  BY <1>1 DEF EmptyMerger
<1>3. \A t \in Transporters : DOMAIN primaries[t] = {} /\ DOMAIN data[t] = {} BY <1>1
<1>4. \A key : PartsReceived(merger, key) = 0 /\ EntriesAt(merger, key) = {}
  BY <1>2 DEF PartsReceived, EntriesAt
<1>5. PlaceInv BY <1>1 DEF PlaceInv
<1>6. HeadersRight /\ DataRight BY <1>3 DEF HeadersRight, DataRight
<1>7. MapRight BY <1>2 DEF MapRight, PairsRight
<1>8. Counted BY <1>2, <1>4, FS_EmptySet DEF Counted
<1>9. SinkRight BY <1>1 DEF SinkRight
<1> QED BY <1>5, <1>6, <1>7, <1>8, <1>9 DEF WholeInv

\* An event has as many parts as its chunks, and at least one.
LEMMA PartsAre ==
    ASSUME ChunksDivide, GenInv, PlaceInv, NEW e \in 1 .. Len(sizes)
    PROVE /\ ChunkSize \in Nat /\ sizes[e] \in Nat \ {0}
          /\ ChunkSize # 0 => sizes[e] % ChunkSize = 0
          /\ NofChunks[e] = Cardinality(Starts(ChunkSize, sizes[e]))
          /\ NofChunks[e] \in Nat \ {0}
<1>1. PICK cs : cs = ChunkSize OBVIOUS
<1>2. PICK size : size = sizes[e] OBVIOUS
<1>3. cs \in Nat /\ size \in EventSizes /\ size \in Nat \ {0}
  BY <1>1, <1>2, ConstantsOK DEF PlaceInv
<1>4. cs # 0 => size % cs = 0
  BY <1>1, <1>3 DEF ChunksDivide, GenInv, ChunkSize
<1>5. PICK S : S = Starts(cs, size) OBVIOUS
<1>6. IsFiniteSet(S) /\ Cardinality(S) = IF cs = 0 THEN 1 ELSE size \div cs
  BY <1>3, <1>4, <1>5, ChunksAre
<1>7. S # {}
  <2>1. Cover(cs, size, S) BY <1>3, <1>4, <1>5, ChunksAre
  <2>2. 0 \in 0 .. size - 1 BY <1>3
  <2> QED BY <2>1, <2>2 DEF Cover
<1>8. Cardinality(S) \in Nat \ {0} BY <1>6, <1>7, FS_CardinalityType, FS_EmptySet
<1>9. NofChunks[e] = IF cs = 0 THEN 1 ELSE size \div cs BY <1>1, <1>2 DEF NofChunks
<1> QED BY <1>1, <1>2, <1>3, <1>4, <1>5, <1>6, <1>8, <1>9

LEMMA OtherStep ==
    ASSUME SplitInv, WholeInv,
           UNCHANGED <<setup, sizes, primaries, data, merger, dataOut, tree, server>>,
           gen'.fChunkPointer = gen.fChunkPointer
    PROVE WholeInv'
<1>1. SizesKept BY DEF SizesKept
<1>2. HeadersRight' /\ DataRight' /\ SinkRight'
  BY <1>1, HeadersKept, DataKept, SinkKept DEF WholeInv
<1>3. ChunkSize' = ChunkSize BY DEF ChunkSize
<1>4. PlaceInv' BY <1>3 DEF WholeInv, PlaceInv
<1>5. NofChunks' = NofChunks BY <1>3 DEF NofChunks
<1>6. Complete' = Complete BY <1>5 DEF Complete
<1>7. MapRight' BY <1>3, <1>6 DEF WholeInv, MapRight
<1>8. Counted' BY <1>6 DEF WholeInv, Counted
<1> QED BY <1>2, <1>4, <1>7, <1>8 DEF WholeInv

LEMMA InitializeRunWhole ==
    ASSUME ChunksDivide, SplitInv, WholeInv, NEW t \in Transporters, InitializeRun(t)
    PROVE WholeInv'
<1> USE DEF WholeInv
<1> DEFINE n == server.fNofSimDevices
<1>1. /\ server' = ReportSimDevice(server)
      /\ UNCHANGED <<setup, gen, numAcks, primaries, requests, data, merger,
                     dataOut, tree, ack, sizes>>
  BY DEF InitializeRun
<1>2. server \in [fRunId : Nat, fNofSimDevices : Nat] /\ n \in Nat BY DEF SplitInv, DeviceInv
<1>3. /\ server'.fNofSimDevices = n + 1
      /\ n > 0 => server'.fRunId = server.fRunId
  BY <1>1, <1>2 DEF ReportSimDevice
<1>4. SizesKept BY <1>1 DEF SizesKept
<1>5. HeadersRight' /\ DataRight' /\ SinkRight' BY <1>1, <1>4, HeadersKept, DataKept, SinkKept
<1>6. ChunkSize' = ChunkSize /\ NofChunks' = NofChunks BY <1>1 DEF ChunkSize, NofChunks
<1>7. PlaceInv' BY <1>1, <1>6 DEF PlaceInv
<1>8. GenInv /\ GenInv' BY <1>1, GenKept DEF SplitInv
<1>9. CASE n = 0
  <2>1. DOMAIN merger.fObjectMap = {} /\ \A key : PartsReceived(merger, key) = 0
    BY <1>9 DEF Counted
  <2>2. Complete' = {}
    <3>1. \A e \in 1 .. Len(sizes) : NofChunks[e] \in Nat \ {0} BY <1>8, PartsAre
    <3> QED BY <1>1, <1>6, <2>1, <3>1 DEF Complete
  <2>3. MapRight' BY <1>1, <2>1 DEF MapRight, PairsRight
  <2>4. \A key : Cardinality(EntriesAt(merger, key)) = 0 BY <2>1, FS_EmptySet DEF EntriesAt
  <2>5. Counted' BY <1>1, <2>1, <2>4 DEF Counted
  <2> QED BY <1>5, <1>7, <2>3, <2>5
<1>10. CASE n > 0
  <2>1. Complete' = Complete BY <1>1, <1>2, <1>3, <1>6, <1>10 DEF Complete
  <2>2. server'.fRunId = server.fRunId /\ server'.fNofSimDevices > 0 /\ server'.fNofSimDevices # 0
    BY <1>2, <1>3, <1>10
  <2>3. MapRight' BY <1>1, <1>2, <1>4, <2>1, <2>2, MapKept
  <2>4. Counted' BY <1>1, <2>1, <2>2 DEF Counted
  <2> QED BY <1>5, <1>7, <2>3, <2>4
<1> QED BY <1>2, <1>9, <1>10

-----------------------------------------------------------------------------
(* The generator and the transport devices. *)

\* Where chunks start, and that there is one.
LEMMA ChunkPlaces ==
    ASSUME NEW cs \in Nat, NEW size \in Nat \ {0}, cs # 0 => size % cs = 0
    PROVE /\ 0 \in Starts(cs, size)
          /\ \A s \in Starts(cs, size) : cs # 0 /\ s + cs < size => s + cs \in Starts(cs, size)
          /\ (IF cs = 0 THEN 1 ELSE size \div cs) >= 1
<1>1. CASE cs = 0 BY <1>1 DEF Starts
<1>2. CASE cs # 0
  <2>1. \A s : s \in Starts(cs, size) <=> s \in 0 .. size - 1 /\ s % cs = 0 BY <1>2 DEF Starts
  <2>2. 0 % cs = 0 /\ 0 \in 0 .. size - 1 BY <1>2, DivMod
  <2>3. ASSUME NEW s \in Starts(cs, size), s + cs < size PROVE s + cs \in Starts(cs, size)
    <3>1. s \in Nat /\ s % cs = 0 BY <2>1
    <3>2. (s + cs) % cs = 0 BY <1>2, <3>1, ModStep
    <3>3. s + cs \in 0 .. size - 1 BY <2>3, <3>1
    <3> QED BY <2>1, <3>2, <3>3
  <2>4. size \div cs >= 1
    <3>1. size \div cs \in Nat /\ size = cs * (size \div cs) + (size % cs) BY <1>2, DivMod
    <3>2. size \div cs # 0
      <4> SUFFICES ASSUME size \div cs = 0 PROVE FALSE OBVIOUS
      <4>1. cs * 0 = 0 OBVIOUS
      <4>2. size = 0 BY <1>2, <3>1, <4>1
      <4> QED BY <4>2
    <3> QED BY <3>1, <3>2
  <2> QED BY <1>2, <2>1, <2>2, <2>3, <2>4
<1> QED BY <1>1, <1>2

\* No part of an event that was not yet generated has come.
LEMMA NotYetGenerated ==
    ASSUME MapRight, Counted, NEW e \in Nat, e \notin 1 .. Len(sizes)
    PROVE PartsReceived(merger, <<e, server.fRunId>>) = 0
<1>1. EntriesAt(merger, <<e, server.fRunId>>) = {}
  <2> SUFFICES ASSUME NEW i \in EntriesAt(merger, <<e, server.fRunId>>) PROVE FALSE OBVIOUS
  <2>1. /\ i \in DOMAIN merger.fObjectMap /\ merger.fObjectMap[i].key = <<e, server.fRunId>>
        /\ merger.fObjectMap[i].name = "MCTrack"
    BY DEF EntriesAt
  <2>2. PICK d \in 1 .. Len(sizes) : merger.fObjectMap[i].key = <<d, server.fRunId>>
    BY <2>1 DEF MapRight
  <2> QED BY <2>1, <2>2
<1>2. e \notin Complete BY DEF Complete
<1> QED BY <1>1, <1>2, FS_EmptySet DEF Counted

\* The chunk that is sent, and how the generator goes on.
LEMMA ChunkSent ==
    ASSUME ChunksDivide, GenInv, PlaceInv, NEW size \in EventSizes, gen.state = "running",
           NEW g, g = NextEvent(gen, size), ~AllGenerated(g),
           setup' = setup, gen' = AdvanceChunk(g),
           sizes' = IF gen.fChunkPointer = 0 THEN Append(sizes, size) ELSE sizes,
           NEW h, h = ChunkHeader(g)
    PROVE /\ PlaceInv' /\ SizesKept
          /\ HeaderRight(ChunkSize, sizes'[h.event], h)
          /\ \A e \in 1 .. Len(sizes') \ 1 .. Len(sizes) : e \in Nat /\ NofChunks'[e] >= 1
<1>1. PICK cs : cs = ChunkSize OBVIOUS
<1>2. PICK fcp : fcp = gen.fChunkPointer OBVIOUS
<1>3. PICK n : n = Len(sizes) OBVIOUS
<1>4. PICK m : m = Len(sizes') OBVIOUS
<1>5. PICK top : top = sizes'[m] OBVIOUS
<1>6. /\ cs \in Nat /\ fcp \in Nat /\ n \in Nat /\ gen.fEventCounter = n /\ size \in Nat \ {0}
      /\ sizes \in Seq(Nat)
      /\ gen \in [state : {"running", "joining", "done"}, fEventCounter : 0 .. NofEvents + 1,
                  fChunkPointer : Nat, prims : EventSizes \cup {0}]
  BY <1>1, <1>2, <1>3, ConstantsOK DEF GenInv
<1>7. ChunkSize' = cs BY <1>1 DEF ChunkSize
\* The event in work.
<1>8. /\ g.fChunkPointer = fcp /\ g.prims = top /\ g.fEventCounter = m /\ top \in EventSizes
      /\ g \in [state : {"running", "joining", "done"}, fEventCounter : Int,
                fChunkPointer : Nat, prims : EventSizes \cup {0}]
      /\ m \in Nat /\ m > 0
      /\ \A e \in 1 .. n : sizes'[e] = sizes[e] /\ e \in 1 .. m
      /\ \A e \in 1 .. m : e \in 1 .. n \/ e = m
      /\ fcp # 0 => sizes' = sizes /\ m = n
  <2>1. CASE fcp = 0
    <3>1. g = [gen EXCEPT !.fEventCounter = @ + 1, !.prims = size]
      BY <1>2, <2>1 DEF NextEvent
    <3>2. g = [state |-> gen.state, fEventCounter |-> n + 1, fChunkPointer |-> fcp, prims |-> size]
      BY <1>2, <1>6, <3>1
    <3>3. g \in [state : {"running", "joining", "done"}, fEventCounter : Int,
                 fChunkPointer : Nat, prims : EventSizes \cup {0}]
      <4>1. n + 1 \in Int /\ gen.state \in {"running", "joining", "done"} BY <1>6
      <4> QED BY <1>6, <3>2, <4>1
    <3>4. sizes' = Append(sizes, size) BY <1>2, <2>1
    <3>5. /\ m = n + 1 /\ sizes'[n + 1] = size /\ \A e \in 1 .. n : sizes'[e] = sizes[e]
      BY <1>3, <1>4, <1>6, <3>4, AppendProperties
    <3>6. /\ \A e \in 1 .. n : e \in 1 .. m
          /\ \A e \in 1 .. m : e \in 1 .. n \/ e = m
      BY <1>6, <3>5
    <3>7. g.fChunkPointer = fcp /\ g.fEventCounter = n + 1 /\ g.prims = size BY <3>2
    <3>8. m = n + 1 /\ top = size BY <1>5, <3>5
    <3>9. m \in Nat /\ m > 0 BY <1>6, <3>8
    <3> QED BY <1>6, <2>1, <3>3, <3>5, <3>6, <3>7, <3>8, <3>9
  <2>2. CASE fcp # 0
    <3>1. g = gen /\ sizes' = sizes BY <1>2, <2>2 DEF NextEvent
    <3>2. Len(sizes) > 0 /\ gen.prims = sizes[Len(sizes)] BY <1>2, <2>2 DEF GenInv
    <3>3. m = n /\ n \in 1 .. n BY <1>3, <1>4, <1>6, <3>1, <3>2
    <3>4. top \in EventSizes BY <1>3, <1>5, <3>1, <3>3 DEF PlaceInv
    <3>5. gen.fEventCounter \in Int BY <1>6
    <3> QED BY <1>2, <1>3, <1>5, <1>6, <2>2, <3>1, <3>2, <3>3, <3>4, <3>5
  <2> QED BY <2>1, <2>2
<1>9. top \in Nat \ {0} /\ (cs # 0 => top % cs = 0)
  <2>1. top \in Nat \ {0} BY <1>8, ConstantsOK
  <2>2. cs # 0 => top % cs = 0 BY <1>1, <1>8 DEF ChunksDivide, GenInv, ChunkSize
  <2> QED BY <2>1, <2>2
<1>10. fcp \in Starts(cs, top)
  <2>1. CASE fcp = 0 BY <1>6, <1>9, <2>1, ChunkPlaces
  <2>2. CASE fcp # 0 BY <1>1, <1>2, <1>3, <1>5, <1>8, <2>2 DEF PlaceInv
  <2> QED BY <2>1, <2>2
<1>11. fcp + cs <= top
  <2>1. PICK S : S = Starts(cs, top) OBVIOUS
  <2>2. Fit(cs, top, S) BY <1>6, <1>9, <2>1, ChunksAre
  <2> QED BY <1>10, <2>1, <2>2 DEF Fit
<1>12. SizesKept BY <1>3, <1>4, <1>8 DEF SizesKept
<1>13. PlaceInv'
  <2>1. \A e \in 1 .. Len(sizes') : sizes'[e] \in EventSizes
    BY <1>3, <1>4, <1>5, <1>8 DEF PlaceInv
  <2>2. ASSUME gen'.fChunkPointer # 0 PROVE gen'.fChunkPointer \in Starts(cs, top)
    <3>1. cs # 0 /\ ~(fcp + cs >= top)
      <4> SUFFICES ASSUME cs = 0 \/ fcp + cs >= top PROVE FALSE OBVIOUS
      <4>1. gen' = [g EXCEPT !.fChunkPointer = 0] BY <1>1, <1>8 DEF AdvanceChunk
      <4>2. gen'.fChunkPointer = 0 BY <1>8, <4>1
      <4> QED BY <2>2, <4>2
    <3>2. gen' = [g EXCEPT !.fChunkPointer = fcp + cs] BY <1>1, <1>8, <3>1 DEF AdvanceChunk
    <3>3. gen'.fChunkPointer = fcp + cs BY <1>8, <3>2
    <3>4. fcp + cs < top BY <1>6, <1>9, <3>1
    <3> QED BY <1>6, <1>9, <1>10, <3>1, <3>3, <3>4, ChunkPlaces
  <2> QED BY <1>4, <1>5, <1>7, <2>1, <2>2 DEF PlaceInv
<1>14. h.event = m /\ h.chunkStart = fcp /\ h.nPrim = EndAt(cs, top, fcp)
  <2>1. cs = 0 => fcp = 0 BY <1>1, <1>2 DEF GenInv
  <2>2. /\ h.event = g.fEventCounter
        /\ h.chunkStart = IF cs = 0 THEN 0 ELSE g.fChunkPointer
        /\ h.nPrim = IF cs = 0 THEN g.prims
                     ELSE IF g.fChunkPointer + cs > g.prims THEN g.prims - g.fChunkPointer
                     ELSE g.fChunkPointer + cs
    BY <1>1 DEF ChunkHeader
  <2>3. ~(fcp + cs > top) BY <1>6, <1>9, <1>11
  <2> QED BY <1>8, <2>1, <2>2, <2>3 DEF EndAt
<1>15. HeaderRight(cs, sizes'[h.event], h) BY <1>5, <1>10, <1>14 DEF HeaderRight
<1>16. ASSUME NEW e \in 1 .. Len(sizes') \ 1 .. Len(sizes)
       PROVE e \in Nat /\ NofChunks'[e] >= 1
  <2>1. e = m BY <1>3, <1>4, <1>8
  <2>2. NofChunks'[e] = IF cs = 0 THEN 1 ELSE top \div cs BY <1>5, <1>7, <2>1 DEF NofChunks
  <2>3. (IF cs = 0 THEN 1 ELSE top \div cs) >= 1 BY <1>6, <1>9, ChunkPlaces
  <2> QED BY <1>8, <2>1, <2>2, <2>3
<1> QED BY <1>1, <1>12, <1>13, <1>15, <1>16

LEMMA GenerateWhole ==
    ASSUME ChunksDivide, SplitInv, WholeInv, NEW t \in Transporters, GenerateAndSendData(t)
    PROVE WholeInv'
<1> USE DEF WholeInv
<1>1. PICK size \in EventSizes :
          LET g == NextEvent(gen, size)
          IN  /\ gen.state = "running"
              /\ IF AllGenerated(g)
                 THEN /\ gen' = [g EXCEPT !.state = "joining", !.prims = 0]
                      /\ UNCHANGED <<primaries, sizes>>
                 ELSE /\ Len(primaries[t]) < ChannelSize
                      /\ primaries' = [primaries EXCEPT ![t] = Append(@, ChunkHeader(g))]
                      /\ gen' = AdvanceChunk(g)
                      /\ sizes' = IF gen.fChunkPointer = 0 THEN Append(sizes, size) ELSE sizes
              /\ UNCHANGED <<setup, numAcks, server, transporter, data, merger, dataOut, tree, ack>>
  BY DEF GenerateAndSendData
<1>2. PICK g : g = NextEvent(gen, size) OBVIOUS
<1>3. /\ gen.state = "running"
      /\ UNCHANGED <<setup, numAcks, server, transporter, data, merger, dataOut, tree, ack>>
  BY <1>1
\* No event is left.
<1>4. CASE AllGenerated(g)
  <2>1. gen' = [g EXCEPT !.state = "joining", !.prims = 0] /\ UNCHANGED <<primaries, sizes>>
    BY <1>1, <1>2, <1>4
  <2>2. gen \in [state : {"running", "joining", "done"}, fEventCounter : 0 .. NofEvents + 1,
                 fChunkPointer : Nat, prims : EventSizes \cup {0}]
    BY DEF SplitInv, GenInv
  <2>3. /\ g.fChunkPointer = gen.fChunkPointer
        /\ g \in [state : {g.state}, fEventCounter : {g.fEventCounter},
                  fChunkPointer : Nat, prims : {g.prims}]
    <3>1. CASE gen.fChunkPointer = 0
      <4>1. g = [gen EXCEPT !.fEventCounter = @ + 1, !.prims = size] BY <1>2, <3>1 DEF NextEvent
      <4> QED BY <2>2, <4>1
    <3>2. CASE gen.fChunkPointer # 0
      <4>1. g = gen BY <1>2, <3>2 DEF NextEvent
      <4> QED BY <2>2, <4>1
    <3> QED BY <3>1, <3>2
  <2>4. gen'.fChunkPointer = gen.fChunkPointer BY <2>1, <2>3
  <2> QED BY <1>3, <2>1, <2>4, OtherStep
\* A chunk is sent.
<1>5. CASE ~AllGenerated(g)
  <2>1. PICK h : h = ChunkHeader(g) OBVIOUS
  <2>2. /\ Len(primaries[t]) < ChannelSize
        /\ primaries' = [primaries EXCEPT ![t] = Append(@, h)]
        /\ gen' = AdvanceChunk(g)
        /\ sizes' = IF gen.fChunkPointer = 0 THEN Append(sizes, size) ELSE sizes
    BY <1>1, <1>2, <1>5, <2>1
  <2>3. PlaceInv' /\ SizesKept /\ HeaderRight(ChunkSize, sizes'[h.event], h)
    BY <1>2, <1>3, <1>5, <2>1, <2>2, ChunkSent DEF SplitInv
  <2>4. \A e \in 1 .. Len(sizes') \ 1 .. Len(sizes) : e \in Nat /\ NofChunks'[e] >= 1
    BY <1>2, <1>3, <1>5, <2>1, <2>2, ChunkSent DEF SplitInv
  <2>5. ChunkSize' = ChunkSize BY <1>3 DEF ChunkSize
  <2>6. IsChannel(primaries) BY DEF SplitInv, ChannelInv
  <2>7. Changed(Transporters, primaries', primaries, t, Append(primaries[t], h))
    BY <2>2, <2>6 DEF Changed, IsChannel, AreChannels
  <2>8. WithMessage(Transporters, primaries', primaries, t, h)
    BY <2>2, <2>6, <2>7, ChannelPut, ConstantsOK DEF IsChannel
  <2>9. HeadersRight'
    <3> SUFFICES ASSUME NEW u \in Transporters, NEW i \in DOMAIN primaries'[u]
                 PROVE HeaderRight(ChunkSize', sizes'[primaries'[u][i].event], primaries'[u][i])
      BY DEF HeadersRight
    <3>1. CASE i \in DOMAIN primaries[u] /\ primaries'[u][i] = primaries[u][i]
      <4>1. primaries[u][i].event \in 1 .. Len(sizes) BY <3>1, HeaderEvents
      <4>2. HeaderRight(ChunkSize, sizes[primaries[u][i].event], primaries[u][i])
        BY <3>1 DEF HeadersRight
      <4> QED BY <2>3, <2>5, <3>1, <4>1, <4>2 DEF SizesKept
    <3>2. CASE primaries'[u][i] = h BY <2>3, <2>5, <3>2
    <3> QED BY <2>8, <3>1, <3>2 DEF WithMessage
  <2>10. DataRight' /\ SinkRight' BY <1>3, <2>3, DataKept, SinkKept
  <2>11. Complete' = Complete
    <3>1. \A e \in 1 .. Len(sizes) : NofChunks'[e] = NofChunks[e]
      BY <2>3, <2>5 DEF SizesKept, NofChunks
    <3>2. ASSUME NEW e \in Complete' PROVE e \in Complete
      <4>1. /\ e \in 1 .. Len(sizes') /\ server.fNofSimDevices > 0
            /\ PartsReceived(merger, <<e, server.fRunId>>) >= NofChunks'[e]
        BY <1>3, <3>2 DEF Complete
      <4>2. e \in 1 .. Len(sizes)
        <5> SUFFICES ASSUME e \notin 1 .. Len(sizes) PROVE FALSE OBVIOUS
        <5>1. e \in Nat /\ NofChunks'[e] >= 1 BY <2>4, <4>1
        <5>2. PartsReceived(merger, <<e, server.fRunId>>) = 0 BY <5>1, NotYetGenerated
        <5>3. 0 >= NofChunks'[e] BY <4>1, <5>2
        <5>4. NofChunks'[e] \in Int
          <6>1. sizes'[e] \in EventSizes BY <2>3, <4>1 DEF PlaceInv
          <6>2. sizes'[e] \in Nat /\ ChunkSize \in Nat BY <6>1, ConstantsOK DEF SplitInv
          <6>3. NofChunks'[e] = IF ChunkSize = 0 THEN 1 ELSE sizes'[e] \div ChunkSize
            BY <2>5, <4>1 DEF NofChunks
          <6> QED BY <6>2, <6>3
        <5> QED BY <5>1, <5>3, <5>4
      <4> QED BY <3>1, <4>1, <4>2 DEF Complete
    <3>3. ASSUME NEW e \in Complete PROVE e \in Complete'
      <4>1. /\ e \in 1 .. Len(sizes) /\ server.fNofSimDevices > 0
            /\ PartsReceived(merger, <<e, server.fRunId>>) >= NofChunks[e]
        BY <3>3 DEF Complete
      <4>2. e \in 1 .. Len(sizes') BY <2>3, <4>1 DEF SizesKept
      <4> QED BY <1>3, <3>1, <4>1, <4>2 DEF Complete
    <3> QED BY <3>2, <3>3
  <2>12. Counted' BY <1>3, <2>11 DEF Counted
  <2>13. MapRight'
    <3>1. CASE server.fNofSimDevices = 0
      <4>1. DOMAIN merger.fObjectMap = {} BY <3>1 DEF Counted
      <4> QED BY <1>3, <4>1 DEF MapRight, PairsRight
    <3>2. CASE server.fNofSimDevices # 0
      <4>1. server.fNofSimDevices \in Nat BY DEF SplitInv, DeviceInv
      <4>2. server'.fNofSimDevices > 0 /\ server'.fRunId = server.fRunId BY <1>3, <3>2, <4>1
      <4> QED BY <1>3, <2>3, <2>11, <4>1, <4>2, MapKept
    <3> QED BY <3>1, <3>2
  <2> QED BY <2>3, <2>9, <2>10, <2>12, <2>13
<1> QED BY <1>4, <1>5

LEMMA TransportWhole ==
    ASSUME ChunksDivide, SplitInv, WholeInv, NEW t \in Transporters, TransportData(t)
    PROVE WholeInv'
<1> USE DEF WholeInv
<1>1. PICK h : h = Head(primaries[t]) OBVIOUS
<1>2. PICK d : d = [event |-> h.event, run |-> transporter[t].fRunId,
                    nofChunks |-> h.nofChunks, chunkStart |-> h.chunkStart]
  OBVIOUS
<1>3. PICK arrays : arrays = ProcessRun(SetParticleArray(h)) OBVIOUS
<1>4. PICK part : part = [header |-> d, arrays |-> arrays] OBVIOUS
<1>5. /\ primaries[t] # << >> /\ Len(data[t]) < ChannelSize
      /\ data' = [data EXCEPT ![t] = Append(@, part)]
      /\ primaries' = [primaries EXCEPT ![t] = Tail(@)]
      /\ UNCHANGED <<setup, gen, numAcks, server, requests, merger, dataOut, tree, ack, sizes>>
  BY <1>1, <1>2, <1>3, <1>4 DEF TransportData
<1>6. IsChannel(primaries) /\ IsChannel(data) BY DEF SplitInv, ChannelInv
<1>7. Changed(Transporters, primaries', primaries, t, Tail(primaries[t]))
  BY <1>5, <1>6 DEF Changed, IsChannel, AreChannels
<1>8. 1 \in DOMAIN primaries[t] /\ h = primaries[t][1]
  <2>1. 1 \in DOMAIN primaries[t] BY <1>5, <1>6, <1>7, ChannelTake, ConstantsOK DEF IsChannel
  <2>2. Head(primaries[t]) = primaries[t][1]
    BY <1>5, <1>6, <1>7, ChannelTake, ConstantsOK DEF IsChannel
  <2> QED BY <1>1, <2>1, <2>2
<1>9. WithoutFirst(Transporters, primaries', primaries, t)
  BY <1>5, <1>6, <1>7, ChannelTake, ConstantsOK DEF IsChannel
<1>10. Changed(Transporters, data', data, t, Append(data[t], part))
  BY <1>5, <1>6 DEF Changed, IsChannel, AreChannels
<1>11. WithMessage(Transporters, data', data, t, part)
  BY <1>5, <1>6, <1>10, ChannelPut, ConstantsOK DEF IsChannel
<1>12. ChunkSize' = ChunkSize /\ NofChunks' = NofChunks BY <1>5 DEF ChunkSize, NofChunks
<1>13. SizesKept BY <1>5 DEF SizesKept
<1>14. Complete' = Complete BY <1>5, <1>12 DEF Complete
\* The chunk is simulated.
<1>15. PICK cs : cs = ChunkSize OBVIOUS
<1>16. PICK size : size = sizes[h.event] OBVIOUS
<1>17. h.event \in 1 .. Len(sizes) BY <1>8, HeaderEvents
<1>18. cs \in Nat /\ size \in Nat \ {0} /\ (cs # 0 => size % cs = 0)
  BY <1>15, <1>16, <1>17, PartsAre DEF SplitInv
<1>19. h.chunkStart \in Starts(cs, size) /\ h.nPrim = EndAt(cs, size, h.chunkStart)
  BY <1>8, <1>15, <1>16 DEF HeadersRight, HeaderRight
<1>20. PICK s : s = h.chunkStart OBVIOUS
<1>21. PICK n \in Nat \ {0} : n = IF cs = 0 THEN size ELSE cs BY <1>18
<1>22. s \in Nat /\ h.nPrim = s + n /\ ChunkAt(cs, size, s) = s .. s + n - 1
  <2>1. PICK S : S = Starts(cs, size) OBVIOUS
  <2>2. S \in SUBSET Nat
    <3>1. Fit(cs, size, S) BY <1>18, <2>1, ChunksAre
    <3> QED BY <3>1 DEF Fit
  <2>3. s \in Nat BY <1>19, <1>20, <2>1, <2>2
  <2>4. CASE cs = 0
    <3>1. s = 0 BY <1>19, <1>20, <2>4 DEF Starts
    <3> QED BY <1>18, <1>19, <1>20, <1>21, <2>4, <3>1 DEF EndAt, ChunkAt
  <2>5. CASE cs # 0 BY <1>18, <1>19, <1>20, <1>21, <2>3, <2>5 DEF EndAt, ChunkAt
  <2> QED BY <2>3, <2>4, <2>5
<1>23. SetParticleArray(h) = [k \in 1 .. n |-> s + k - 1]
  <2>1. h.nPrim > h.chunkStart /\ h.nPrim - h.chunkStart = n BY <1>20, <1>21, <1>22
  <2> QED BY <1>20, <2>1 DEF SetParticleArray
<1>24. PICK particles : particles = SetParticleArray(h) OBVIOUS
<1>25. PartRight(arrays.MCTrack, arrays.PixelPoint, s .. s + n - 1)
  BY <1>3, <1>22, <1>23, <1>24, ProcessRunRight
<1>26. /\ part.header.event = h.event /\ part.header.chunkStart = s /\ part.arrays = arrays
  BY <1>2, <1>4, <1>20
<1>27. SentRight(cs, sizes[part.header.event], part)
  BY <1>16, <1>19, <1>20, <1>22, <1>25, <1>26 DEF SentRight, IsPart
<1>28. DataRight'
  <2> SUFFICES ASSUME NEW u \in Transporters, NEW i \in DOMAIN data'[u]
               PROVE SentRight(ChunkSize', sizes'[data'[u][i].header.event], data'[u][i])
    BY DEF DataRight
  <2>1. CASE i \in DOMAIN data[u] /\ data'[u][i] = data[u][i] BY <1>5, <1>12, <2>1 DEF DataRight
  <2>2. CASE data'[u][i] = part BY <1>5, <1>12, <1>15, <1>27, <2>2
  <2> QED BY <1>11, <2>1, <2>2 DEF WithMessage
<1>29. HeadersRight'
  <2> SUFFICES ASSUME NEW u \in Transporters, NEW i \in DOMAIN primaries'[u]
               PROVE HeaderRight(ChunkSize', sizes'[primaries'[u][i].event], primaries'[u][i])
    BY DEF HeadersRight
  <2>1. PICK k : k \in DOMAIN primaries[u] /\ primaries'[u][i] = primaries[u][k]
    BY <1>9 DEF WithoutFirst
  <2> QED BY <1>5, <1>12, <2>1 DEF HeadersRight
<1>30. SinkRight' BY <1>5, <1>13, SinkKept
<1>31. PlaceInv' BY <1>5, <1>12 DEF PlaceInv
<1>32. MapRight' BY <1>5, <1>12, <1>14 DEF MapRight
<1>33. Counted' BY <1>5, <1>14 DEF Counted
<1> QED BY <1>28, <1>29, <1>30, <1>31, <1>32, <1>33

-----------------------------------------------------------------------------
(* The merger. *)

\* The first sets of Q are a partition of P.
Divides(Q, n, P) ==
    /\ \A i \in 0 .. n : Q[i] \in SUBSET Nat
    /\ \A i, j \in 0 .. n : i # j => Q[i] \cap Q[j] = {}
    /\ Together(Q, n) = P

\* As many different chunks of an event as it has: together they are the event.
LEMMA AllChunks ==
    ASSUME NEW cs \in Nat, NEW size \in Nat \ {0}, cs # 0 => size % cs = 0,
           NEW n \in Nat, n + 1 = Cardinality(Starts(cs, size)),
           NEW st, \A i \in 0 .. n : st[i] \in Starts(cs, size),
           \A i, j \in 0 .. n : st[i] = st[j] => i = j,
           NEW Q, \A i \in 0 .. n : Q[i] = ChunkAt(cs, size, st[i])
    PROVE Divides(Q, n, 0 .. size - 1)
<1>1. PICK S : S = Starts(cs, size) OBVIOUS
<1>2. \A s \in S : ChunkAt(cs, size, s) \subseteq 0 .. size - 1
  <2>1. Fit(cs, size, S) BY <1>1, ChunksAre
  <2> QED BY <2>1 DEF Fit
<1>3. \A s, t \in S : s # t => ChunkAt(cs, size, s) \cap ChunkAt(cs, size, t) = {}
  <2>1. Apart(cs, size, S) BY <1>1, ChunksAre
  <2> QED BY <2>1 DEF Apart
<1>4. \A p \in 0 .. size - 1 : \E s \in S : p \in ChunkAt(cs, size, s)
  <2>1. Cover(cs, size, S) BY <1>1, ChunksAre
  <2> QED BY <2>1 DEF Cover
<1>5. IsFiniteSet(S) BY <1>1, ChunksAre
<1>6. \A i \in 0 .. n : Q[i] \subseteq 0 .. size - 1 BY <1>1, <1>2
<1>7. 0 .. size - 1 \subseteq Nat OBVIOUS
<1>8. \A i, j \in 0 .. n : i # j => Q[i] \cap Q[j] = {} BY <1>1, <1>3
<1>9. \A s \in S : \E i \in 0 .. n : st[i] = s
  <2>1. PICK f : f = [i \in 0 .. n |-> st[i]] OBVIOUS
  <2>2. f \in [0 .. n -> S] /\ \A i \in 0 .. n : f[i] = st[i] BY <1>1, <2>1
  <2>3. f \in Injection(0 .. n, S) BY <2>2 DEF Injection, IsInjective
  <2>4. Cardinality(0 .. n) = n + 1
    <3>1. 0 \in Int /\ n \in Int OBVIOUS
    <3>2. Cardinality(0 .. n) = IF 0 > n THEN 0 ELSE n - 0 + 1 BY <3>1, FS_Interval
    <3> QED BY <3>2
  <2>5. f \in Surjection(0 .. n, S) BY <1>1, <1>5, <2>3, <2>4, FS_Injection
  <2> QED BY <2>2, <2>5 DEF Surjection
<1>10. Together(Q, n) = 0 .. size - 1
  <2>1. ASSUME NEW p \in Together(Q, n) PROVE p \in 0 .. size - 1 BY <1>6 DEF Together
  <2>2. ASSUME NEW p \in 0 .. size - 1 PROVE p \in Together(Q, n)
    <3>1. PICK s \in S : p \in ChunkAt(cs, size, s) BY <1>4
    <3>2. PICK i \in 0 .. n : st[i] = s BY <1>9
    <3> QED BY <1>7, <3>1, <3>2 DEF Together
  <2> QED BY <2>1, <2>2
<1> QED BY <1>6, <1>7, <1>8, <1>10 DEF Divides

\* A part that is not the last is put into the map.
LEMMA PutRight ==
    ASSUME ChunksDivide, SplitInv, WholeInv, NEW t \in Transporters, Merge(t),
           NEW part, part = Head(data[t]), ~IsLastPart(merger, part.header)
    PROVE MapRight' /\ Counted'
<1> USE DEF WholeInv
<1>1. PICK h : h = part.header OBVIOUS
<1>2. /\ h.event \in 1 .. Len(sizes) /\ h.nofChunks = NofChunks[h.event] /\ h \in PartHeaders
      /\ h.run = server.fRunId /\ server.fNofSimDevices > 0
      /\ Key(h) = <<h.event, server.fRunId>>
      /\ IsMerger(merger) /\ IsMerger(merger') /\ ~GotAgain(merger, h)
      /\ 1 \in DOMAIN data[t] /\ part = data[t][1]
  BY <1>1, PartTaken
<1>3. \A k : PartsReceived(merger', k) = IF k = Key(h) THEN PartsReceived(merger, k) + 1
                                         ELSE PartsReceived(merger, k)
  BY <1>1, PartTaken
<1>4. merger' = MergeData(merger, part) /\ UNCHANGED <<setup, server, sizes>> BY DEF Merge
<1>5. PICK old : old = merger.fObjectMap OBVIOUS
<1>6. PICK new : new = merger'.fObjectMap OBVIOUS
<1>7. PICK n : n = Len(old) OBVIOUS
<1>8. PICK run : run = server.fRunId OBVIOUS
<1>9. PICK key : key = <<h.event, run>> OBVIOUS
<1>10. PutAt(new, old, part) BY <1>1, <1>2, <1>4, <1>5, <1>6, PutIs
<1>11. /\ n \in Nat /\ DOMAIN old = 1 .. n /\ DOMAIN new = 1 .. n + 2
       /\ \A i \in 1 .. n : new[i] = old[i]
       /\ \A i \in n + 1 .. n + 2 : new[i].key = key /\ new[i].start = h.chunkStart
       /\ new[n + 1].name = "MCTrack" /\ new[n + 1].array = part.arrays.MCTrack
       /\ new[n + 2].name = "PixelPoint" /\ new[n + 2].array = part.arrays.PixelPoint
  BY <1>1, <1>2, <1>7, <1>8, <1>9, <1>10 DEF PutAt
<1>12. \A i \in DOMAIN new : i \in 1 .. n \/ i = n + 1 \/ i = n + 2 BY <1>11
<1>13. /\ n + 1 \in DOMAIN new /\ n + 2 \in DOMAIN new /\ (n + 1) + 1 = n + 2 /\ (n + 2) - 1 = n + 1
       /\ n + 1 \notin 1 .. n /\ n + 2 \notin 1 .. n
       /\ new[n + 1].key = key /\ new[n + 2].key = key /\ new[n + 1].start = h.chunkStart
  BY <1>11
<1>14. \A i \in 1 .. n : i \in DOMAIN new BY <1>11
<1>15. "MCTrack" # "PixelPoint" OBVIOUS
\* The map.
<1>16. PairsRight(merger) BY DEF MapRight
<1>17. PairsRight(merger')
  <2>1. ASSUME NEW i \in DOMAIN new
        PROVE \/ /\ new[i].name = "MCTrack" /\ i + 1 \in DOMAIN new
                 /\ new[i + 1].name = "PixelPoint" /\ new[i + 1].key = new[i].key
              \/ /\ new[i].name = "PixelPoint" /\ i - 1 \in DOMAIN new
                 /\ new[i - 1].name = "MCTrack" /\ new[i - 1].key = new[i].key
    <3>1. CASE i \in 1 .. n
      <4>1. \/ /\ old[i].name = "MCTrack" /\ i + 1 \in DOMAIN old
               /\ old[i + 1].name = "PixelPoint" /\ old[i + 1].key = old[i].key
            \/ /\ old[i].name = "PixelPoint" /\ i - 1 \in DOMAIN old
               /\ old[i - 1].name = "MCTrack" /\ old[i - 1].key = old[i].key
        BY <1>5, <1>11, <1>16, <3>1 DEF PairsRight
      <4> QED BY <1>11, <1>14, <3>1, <4>1
    <3>2. CASE i = n + 1 BY <1>11, <1>13, <3>2
    <3>3. CASE i = n + 2 BY <1>11, <1>13, <3>3
    <3> QED BY <1>12, <3>1, <3>2, <3>3
  <2>2. ASSUME NEW i \in DOMAIN new, NEW j \in DOMAIN new,
               new[i].name = "MCTrack", new[j].name = "MCTrack",
               new[i].key = new[j].key, new[i].start = new[j].start
        PROVE i = j
    <3>1. \A k \in 1 .. n : ~(new[k].key = key /\ new[k].start = h.chunkStart)
      BY <1>2, <1>5, <1>8, <1>9, <1>11 DEF GotAgain
    <3>2. i # n + 2 /\ j # n + 2 BY <1>11, <1>15, <2>2
    <3>3. CASE i \in 1 .. n /\ j \in 1 .. n
      BY <1>5, <1>11, <1>16, <2>2, <3>3 DEF PairsRight
    <3> QED BY <1>12, <1>13, <2>2, <3>1, <3>2, <3>3
  <2> QED BY <1>6, <2>1, <2>2 DEF PairsRight
<1>18. Complete \subseteq Complete'
  BY <1>2, <1>3, <1>4, CompletedByLastPart DEF PartHeaders
<1>19. ChunkSize' = ChunkSize BY <1>4 DEF ChunkSize
<1>20. SentRight(ChunkSize, sizes[h.event], part) BY <1>1, <1>2 DEF DataRight
<1>21. MapRight'
  <2>1. ASSUME NEW i \in DOMAIN new, new[i].name = "MCTrack"
        PROVE \E e \in 1 .. Len(sizes) :
                  /\ new[i].key = <<e, run>>
                  /\ EntryRight(ChunkSize, sizes[e], e \in Complete', new[i], new[i + 1])
    <3>1. CASE i \in 1 .. n
      <4>1. old[i].name = "MCTrack" /\ i \in DOMAIN old BY <1>11, <2>1, <3>1
      <4>2. i + 1 \in 1 .. n
        <5>1. i + 1 \in DOMAIN old BY <1>5, <1>15, <1>16, <4>1 DEF PairsRight
        <5> QED BY <1>11, <5>1
      <4>3. PICK e \in 1 .. Len(sizes) :
                  /\ old[i].key = <<e, run>>
                  /\ EntryRight(ChunkSize, sizes[e], e \in Complete, old[i], old[i + 1])
        BY <1>5, <1>8, <4>1 DEF MapRight
      <4>4. new[i] = old[i] /\ new[i + 1] = old[i + 1] BY <1>11, <3>1, <4>2
      <4>5. EntryRight(ChunkSize, sizes[e], e \in Complete', old[i], old[i + 1])
        BY <1>18, <4>3 DEF EntryRight
      <4> QED BY <4>3, <4>4, <4>5
    <3>2. CASE i = n + 1
      <4>1. new[i].key = key /\ new[i].start = h.chunkStart /\ new[i].array = part.arrays.MCTrack
            /\ new[i + 1].array = part.arrays.PixelPoint
        BY <1>11, <1>13, <3>2
      <4>2. EntryRight(ChunkSize, sizes[h.event], h.event \in Complete', new[i], new[i + 1])
        BY <1>1, <1>20, <4>1 DEF EntryRight, SentRight, IsPart
      <4> QED BY <1>2, <1>9, <4>1, <4>2
    <3>3. i # n + 2 BY <1>11, <1>15, <2>1
    <3> QED BY <1>12, <3>1, <3>2, <3>3
  <2> QED BY <1>2, <1>4, <1>6, <1>8, <1>17, <1>19, <2>1 DEF MapRight
\* The count.
<1>22. Counted'
  <2>1. server'.fNofSimDevices # 0
    <3>1. server.fNofSimDevices \in Nat BY DEF SplitInv, DeviceInv
    <3> QED BY <1>2, <1>4, <3>1
  <2>2. ASSUME NEW e \in Nat, e \notin Complete'
        PROVE PartsReceived(merger', <<e, run>>) = Cardinality(EntriesAt(merger', <<e, run>>))
    <3>1. PICK k : k = <<e, run>> OBVIOUS
    <3>2. PICK E : E = EntriesAt(merger, k) OBVIOUS
    <3>3. e \notin Complete BY <1>18, <2>2
    <3>4. PartsReceived(merger, k) = Cardinality(E) BY <1>8, <3>1, <3>2, <3>3 DEF Counted
    <3>5. IsFiniteSet(E) BY <1>2, <3>2, EntriesFinite
    <3>6. \A i : i \in E <=> i \in 1 .. n /\ old[i].key = k /\ old[i].name = "MCTrack"
      BY <1>5, <1>11, <3>2 DEF EntriesAt
    <3>7. \A i : i \in EntriesAt(merger', k)
                    <=> i \in DOMAIN new /\ new[i].key = k /\ new[i].name = "MCTrack"
      BY <1>6 DEF EntriesAt
    <3>8. CASE k = key
      <4>1. EntriesAt(merger', k) = E \cup {n + 1}
        <5>1. ASSUME NEW i \in EntriesAt(merger', k) PROVE i \in E \cup {n + 1}
          <6>1. i \in DOMAIN new /\ new[i].key = k /\ new[i].name = "MCTrack" BY <3>7
          <6>2. i # n + 2 BY <1>11, <1>15, <6>1
          <6> QED BY <1>11, <1>12, <3>6, <6>1, <6>2
        <5>2. ASSUME NEW i \in E PROVE i \in EntriesAt(merger', k) BY <1>11, <1>14, <3>6, <3>7
        <5>3. n + 1 \in EntriesAt(merger', k) BY <1>11, <1>13, <3>7, <3>8
        <5> QED BY <5>1, <5>2, <5>3
      <4>2. n + 1 \notin E BY <1>13, <3>6
      <4>3. Cardinality(EntriesAt(merger', k)) = Cardinality(E) + 1 BY <3>5, <4>1, <4>2, FS_AddElement
      <4>4. PartsReceived(merger', k) = PartsReceived(merger, k) + 1
        BY <1>2, <1>3, <1>8, <1>9, <3>8
      <4> QED BY <3>1, <3>4, <4>3, <4>4
    <3>9. CASE k # key
      <4>1. EntriesAt(merger', k) = E
        <5>1. ASSUME NEW i \in EntriesAt(merger', k) PROVE i \in E
          <6>1. i \in DOMAIN new /\ new[i].key = k /\ new[i].name = "MCTrack" BY <3>7
          <6>2. i \in 1 .. n BY <1>12, <1>13, <3>9, <6>1
          <6> QED BY <1>11, <3>6, <6>1, <6>2
        <5>2. ASSUME NEW i \in E PROVE i \in EntriesAt(merger', k) BY <1>11, <1>14, <3>6, <3>7
        <5> QED BY <5>1, <5>2
      <4>2. PartsReceived(merger', k) = PartsReceived(merger, k) BY <1>2, <1>3, <1>8, <1>9, <3>9
      <4> QED BY <3>1, <3>4, <4>1, <4>2
    <3> QED BY <3>8, <3>9
  <2> QED BY <1>4, <1>8, <2>1, <2>2 DEF Counted
<1> QED BY <1>21, <1>22

\* After the last part, the arrays of the event are taken out of the map.
LEMMA ErasedRight ==
    ASSUME ChunksDivide, SplitInv, WholeInv, NEW t \in Transporters, Merge(t),
           NEW part, part = Head(data[t]), IsLastPart(merger, part.header)
    PROVE MapRight' /\ Counted'
<1> USE DEF WholeInv
<1>1. PICK h : h = part.header OBVIOUS
<1>2. /\ h.event \in 1 .. Len(sizes) /\ h.nofChunks = NofChunks[h.event] /\ h \in PartHeaders
      /\ h.run = server.fRunId /\ server.fNofSimDevices > 0
      /\ Key(h) = <<h.event, server.fRunId>>
      /\ IsMerger(merger) /\ IsMerger(merger') /\ ~GotAgain(merger, h)
  BY <1>1, PartTaken
<1>3. \A k : PartsReceived(merger', k) = IF k = Key(h) THEN PartsReceived(merger, k) + 1
                                         ELSE PartsReceived(merger, k)
  BY <1>1, PartTaken
<1>4. merger' = MergeData(merger, part) /\ UNCHANGED <<setup, server, sizes>> BY DEF Merge
<1>5. PICK old : old = merger.fObjectMap OBVIOUS
<1>6. PICK new : new = merger'.fObjectMap OBVIOUS
<1>7. PICK run : run = server.fRunId OBVIOUS
<1>8. PICK key : key = <<h.event, run>> OBVIOUS
<1>9. ErasedAt(new, old, key) BY <1>1, <1>2, <1>4, <1>5, <1>6, <1>7, <1>8, ErasedIs
<1>10. /\ DOMAIN new = DOMAIN old
       /\ \A i \in DOMAIN old : /\ new[i].key = old[i].key /\ new[i].start = old[i].start
                                /\ new[i].name = old[i].name
                                /\ old[i].key # key => new[i] = old[i]
  BY <1>9 DEF ErasedAt
<1>11. PairsRight(merger) BY DEF MapRight
<1>12. PairsRight(merger')
  <2>1. ASSUME NEW i \in DOMAIN old
        PROVE \/ /\ new[i].name = "MCTrack" /\ i + 1 \in DOMAIN old
                 /\ new[i + 1].name = "PixelPoint" /\ new[i + 1].key = new[i].key
              \/ /\ new[i].name = "PixelPoint" /\ i - 1 \in DOMAIN old
                 /\ new[i - 1].name = "MCTrack" /\ new[i - 1].key = new[i].key
    <3>1. \/ /\ old[i].name = "MCTrack" /\ i + 1 \in DOMAIN old
             /\ old[i + 1].name = "PixelPoint" /\ old[i + 1].key = old[i].key
          \/ /\ old[i].name = "PixelPoint" /\ i - 1 \in DOMAIN old
             /\ old[i - 1].name = "MCTrack" /\ old[i - 1].key = old[i].key
      BY <1>5, <1>11 DEF PairsRight
    <3> QED BY <1>10, <3>1
  <2>2. ASSUME NEW i \in DOMAIN old, NEW j \in DOMAIN old,
               new[i].name = "MCTrack", new[j].name = "MCTrack",
               new[i].key = new[j].key, new[i].start = new[j].start
        PROVE i = j
    BY <1>5, <1>10, <1>11, <2>2 DEF PairsRight
  <2> QED BY <1>6, <1>10, <2>1, <2>2 DEF PairsRight
<1>13. Complete \subseteq Complete' /\ h.event \in Complete'
  BY <1>1, <1>2, <1>3, <1>4, CompletedByLastPart DEF PartHeaders
<1>14. ChunkSize' = ChunkSize BY <1>4 DEF ChunkSize
<1>15. MapRight'
  <2>1. ASSUME NEW i \in DOMAIN new, new[i].name = "MCTrack"
        PROVE \E e \in 1 .. Len(sizes) :
                  /\ new[i].key = <<e, run>>
                  /\ EntryRight(ChunkSize, sizes[e], e \in Complete', new[i], new[i + 1])
    <3>1. i \in DOMAIN old /\ old[i].name = "MCTrack" BY <1>10, <2>1
    <3>2. i + 1 \in DOMAIN old /\ old[i + 1].key = old[i].key
      BY <1>5, <1>11, <3>1 DEF PairsRight
    <3>3. PICK e \in 1 .. Len(sizes) :
                  /\ old[i].key = <<e, run>>
                  /\ EntryRight(ChunkSize, sizes[e], e \in Complete, old[i], old[i + 1])
      BY <1>5, <1>7, <3>1 DEF MapRight
    <3>4. new[i].key = <<e, run>> BY <1>10, <3>1, <3>3
    <3>5. CASE e = h.event
      <4>1. new[i].start = old[i].start BY <1>10, <3>1
      <4>2. EntryRight(ChunkSize, sizes[e], e \in Complete', new[i], new[i + 1])
        BY <1>13, <3>3, <3>5, <4>1 DEF EntryRight
      <4> QED BY <3>4, <4>2
    <3>6. CASE e # h.event
      <4>1. old[i].key # key BY <1>8, <3>3, <3>6
      <4>2. new[i] = old[i] /\ new[i + 1] = old[i + 1] BY <1>10, <3>1, <3>2, <4>1
      <4>3. EntryRight(ChunkSize, sizes[e], e \in Complete', old[i], old[i + 1])
        BY <1>13, <3>3 DEF EntryRight
      <4> QED BY <3>4, <4>2, <4>3
    <3> QED BY <3>5, <3>6
  <2> QED BY <1>2, <1>4, <1>6, <1>7, <1>12, <1>14, <2>1 DEF MapRight
<1>16. Counted'
  <2>1. server'.fNofSimDevices # 0
    <3>1. server.fNofSimDevices \in Nat BY DEF SplitInv, DeviceInv
    <3> QED BY <1>2, <1>4, <3>1
  <2>2. ASSUME NEW e \in Nat, e \notin Complete'
        PROVE PartsReceived(merger', <<e, run>>) = Cardinality(EntriesAt(merger', <<e, run>>))
    <3>1. PICK k : k = <<e, run>> OBVIOUS
    <3>2. e \notin Complete /\ e # h.event BY <1>13, <2>2
    <3>3. k # key BY <1>8, <3>1, <3>2
    <3>4. PartsReceived(merger, k) = Cardinality(EntriesAt(merger, k))
      BY <1>7, <3>1, <3>2 DEF Counted
    <3>5. EntriesAt(merger', k) = EntriesAt(merger, k) BY <1>5, <1>6, <1>10 DEF EntriesAt
    <3>6. PartsReceived(merger', k) = PartsReceived(merger, k) BY <1>2, <1>3, <1>7, <1>8, <3>3
    <3> QED BY <3>1, <3>4, <3>5, <3>6
  <2> QED BY <1>4, <1>7, <2>1, <2>2 DEF Counted
<1> QED BY <1>15, <1>16

\* The last part and the ones in the buffer are the whole event.
LEMMA CombinedWhole ==
    ASSUME ChunksDivide, SplitInv, WholeInv, NEW t \in Transporters, Merge(t),
           NEW part, part = Head(data[t]), IsLastPart(merger, part.header)
    PROVE IsPart(Combine(merger, part), 0 .. sizes[part.header.event] - 1)
<1> USE DEF WholeInv
<1>1. PICK h : h = part.header OBVIOUS
<1>2. /\ h.event \in 1 .. Len(sizes) /\ h.nofChunks = NofChunks[h.event] /\ h \in PartHeaders
      /\ h.run = server.fRunId /\ server.fNofSimDevices > 0
      /\ Key(h) = <<h.event, server.fRunId>>
      /\ IsMerger(merger) /\ ~GotAgain(merger, h)
      /\ 1 \in DOMAIN data[t] /\ part = data[t][1]
  BY <1>1, PartTaken
<1>3. \A k : PartsReceived(merger', k) = IF k = Key(h) THEN PartsReceived(merger, k) + 1
                                         ELSE PartsReceived(merger, k)
  BY <1>1, PartTaken
<1>4. UNCHANGED <<setup, server, sizes>> BY DEF Merge
<1>5. h.event \notin Complete BY <1>1, <1>2, <1>3, <1>4, CompletedByLastPart DEF PartHeaders
<1>6. PICK cs : cs = ChunkSize OBVIOUS
<1>7. PICK size : size = sizes[h.event] OBVIOUS
<1>8. /\ cs \in Nat /\ size \in Nat \ {0} /\ (cs # 0 => size % cs = 0)
      /\ NofChunks[h.event] = Cardinality(Starts(cs, size))
  BY <1>2, <1>6, <1>7, PartsAre DEF SplitInv
<1>9. PICK f : f = merger.fObjectMap OBVIOUS
<1>10. PICK run : run = server.fRunId OBVIOUS
<1>11. PICK key : key = <<h.event, run>> OBVIOUS
<1>12. key = Key(part.header) BY <1>1, <1>2, <1>10, <1>11
<1>13. PICK E : E = EntriesAt(merger, key) OBVIOUS
<1>14. PICK n : n = Cardinality(E) OBVIOUS
<1>15. PairsRight(merger) BY DEF MapRight
<1>16. n \in Nat BY <1>2, <1>13, <1>14, <1>15, BufferedAre
<1>17. PICK at : AscentOf(at, n, E) /\ BufferedIs(merger, key, at, n)
  BY <1>2, <1>13, <1>14, <1>15, BufferedAre
<1>18. n + 1 = Cardinality(Starts(cs, size))
  <2>1. h.event \in Nat BY <1>2 DEF PartHeaders
  <2>2. PartsReceived(merger, key) = n
    BY <1>5, <1>10, <1>11, <1>13, <1>14, <2>1 DEF Counted
  <2>3. PartsReceived(merger, key) + 1 = NofChunks[h.event]
    BY <1>1, <1>2, <1>12 DEF IsLastPart
  <2> QED BY <1>8, <2>2, <2>3
\* The parts.
<1>19. ASSUME NEW k \in 1 .. n
       PROVE /\ at[k] \in E /\ at[k] \in DOMAIN f
             /\ f[at[k]].key = key /\ f[at[k]].name = "MCTrack"
             /\ f[at[k]].start \in Starts(cs, size) /\ f[at[k]].start # h.chunkStart
             /\ PartRight(f[at[k]].array, f[at[k] + 1].array, ChunkAt(cs, size, f[at[k]].start))
  <2>1. PICK i : i = at[k] OBVIOUS
  <2>2. i \in E BY <1>17, <2>1 DEF AscentOf
  <2>3. i \in DOMAIN f /\ f[i].key = key /\ f[i].name = "MCTrack"
    BY <1>9, <1>13, <2>2 DEF EntriesAt
  <2>4. PICK e \in 1 .. Len(sizes) :
            /\ f[i].key = <<e, run>>
            /\ EntryRight(ChunkSize, sizes[e], e \in Complete, f[i], f[i + 1])
    BY <1>9, <1>10, <2>3 DEF MapRight
  <2>5. e = h.event BY <1>11, <2>3, <2>4
  <2>6. f[i].start \in Starts(cs, size)
        /\ PartRight(f[i].array, f[i + 1].array, ChunkAt(cs, size, f[i].start))
    BY <1>5, <1>6, <1>7, <2>4, <2>5 DEF EntryRight
  <2>7. f[i].start # h.chunkStart BY <1>1, <1>2, <1>9, <1>12, <2>3 DEF GotAgain
  <2> QED BY <2>1, <2>2, <2>3, <2>6, <2>7
<1>20. SentRight(cs, size, part) BY <1>1, <1>2, <1>6, <1>7 DEF DataRight
<1>21. h.chunkStart \in Starts(cs, size)
       /\ PartRight(part.arrays.MCTrack, part.arrays.PixelPoint, ChunkAt(cs, size, h.chunkStart))
  BY <1>1, <1>20 DEF SentRight, IsPart
<1>22. PICK st : st = [k \in 0 .. n |-> IF k = 0 THEN h.chunkStart ELSE f[at[k]].start] OBVIOUS
<1>23. st[0] = h.chunkStart /\ \A k \in 1 .. n : st[k] = f[at[k]].start BY <1>16, <1>22
<1>24. \A k \in 0 .. n : k = 0 \/ k \in 1 .. n BY <1>16
<1>25. \A k \in 0 .. n : st[k] \in Starts(cs, size) BY <1>19, <1>21, <1>23, <1>24
<1>26. ASSUME NEW i \in 0 .. n, NEW j \in 0 .. n, st[i] = st[j] PROVE i = j
  <2>1. CASE i = 0 /\ j = 0 BY <2>1
  <2>2. CASE i = 0 /\ j \in 1 .. n BY <1>19, <1>23, <1>26, <2>2
  <2>3. CASE j = 0 /\ i \in 1 .. n BY <1>19, <1>23, <1>26, <2>3
  <2>4. CASE i \in 1 .. n /\ j \in 1 .. n
    <3>1. at[i] \in DOMAIN f /\ f[at[i]].key = key /\ f[at[i]].name = "MCTrack" BY <1>19, <2>4
    <3>2. at[j] \in DOMAIN f /\ f[at[j]].key = key /\ f[at[j]].name = "MCTrack" BY <1>19, <2>4
    <3>3. f[at[i]].start = f[at[j]].start BY <1>23, <1>26, <2>4
    <3>4. at[i] = at[j] BY <1>9, <1>15, <3>1, <3>2, <3>3 DEF PairsRight
    <3>5. at[i] \in Nat /\ at[j] \in Nat
      <4>1. E \in SUBSET Nat BY <1>2, <1>13, EntriesFinite
      <4> QED BY <1>19, <2>4, <4>1
    <3>6. i < j => at[i] < at[j] BY <1>17, <2>4 DEF AscentOf, Ascends
    <3>7. j < i => at[j] < at[i] BY <1>17, <2>4 DEF AscentOf, Ascends
    <3> QED BY <2>4, <3>4, <3>5, <3>6, <3>7
  <2> QED BY <1>24, <2>1, <2>2, <2>3, <2>4
<1>27. PICK Q : Q = [k \in 0 .. n |-> ChunkAt(cs, size, st[k])] OBVIOUS
<1>28. \A k \in 0 .. n : Q[k] = ChunkAt(cs, size, st[k]) BY <1>27
<1>29. Divides(Q, n, 0 .. size - 1)
  BY <1>8, <1>16, <1>18, <1>25, <1>26, <1>28, AllChunks
<1>30. \A k \in 0 .. n : Q[k] \in SUBSET Nat BY <1>29 DEF Divides
<1>31. \A i, j \in 0 .. n : i # j => Q[i] \cap Q[j] = {} BY <1>29 DEF Divides
\* Combine.
<1>32. PICK tracks : tracks = BufferedArrays(merger, Key(part.header), "MCTrack") OBVIOUS
<1>33. PICK points : points = BufferedArrays(merger, Key(part.header), "PixelPoint") OBVIOUS
<1>34. /\ Len(tracks) = n
       /\ \A k \in 1 .. n : tracks[k] = f[at[k]].array /\ points[k] = f[at[k] + 1].array
  BY <1>9, <1>12, <1>17, <1>32, <1>33 DEF BufferedIs
<1>35. \A k \in 1 .. n : PartRight(tracks[k], points[k], Q[k])
  <2> SUFFICES ASSUME NEW k \in 1 .. n PROVE PartRight(tracks[k], points[k], Q[k]) OBVIOUS
  <2>1. Q[k] = ChunkAt(cs, size, f[at[k]].start) BY <1>16, <1>23, <1>28
  <2> QED BY <1>19, <1>34, <2>1
<1>36. PartRight(part.arrays.MCTrack, part.arrays.PixelPoint, Q[0])
  <2>1. Q[0] = ChunkAt(cs, size, h.chunkStart) BY <1>16, <1>23, <1>28
  <2> QED BY <1>21, <2>1
<1>37. PICK m : m = merger OBVIOUS
<1>38. PICK whole : whole = Combine(m, part) OBVIOUS
<1>39. PartRight(whole.MCTrack, whole.PixelPoint, Together(Q, n))
  BY <1>16, <1>30, <1>31, <1>32, <1>33, <1>34, <1>35, <1>36, <1>37, <1>38, CombineRight
<1>40. Together(Q, n) = 0 .. size - 1 BY <1>29 DEF Divides
<1> QED BY <1>1, <1>7, <1>37, <1>38, <1>39, <1>40 DEF IsPart

LEMMA MergeWhole ==
    ASSUME ChunksDivide, SplitInv, WholeInv, NEW t \in Transporters, Merge(t)
    PROVE WholeInv'
<1> USE DEF WholeInv
<1>1. PICK part : part = Head(data[t]) OBVIOUS
<1>2. PICK h : h = part.header OBVIOUS
<1>3. /\ dataOut' = dataOut \o MergedEvents(merger, part)
      /\ UNCHANGED <<setup, gen, numAcks, server, transporter, primaries, requests, tree, ack, sizes>>
  BY <1>1 DEF Merge
<1>4. /\ WithoutFirst(Transporters, data', data, t) /\ ~GotAgain(merger, h)
      /\ h \in PartHeaders /\ h.event \in 1 .. Len(sizes)
  BY <1>1, <1>2, PartTaken
<1>5. ChunkSize' = ChunkSize /\ SizesKept BY <1>3 DEF ChunkSize, SizesKept
<1>6. PlaceInv' BY <1>3, <1>5 DEF PlaceInv
<1>7. HeadersRight' BY <1>3, <1>5, HeadersKept
<1>8. DataRight'
  <2> SUFFICES ASSUME NEW u \in Transporters, NEW i \in DOMAIN data'[u]
               PROVE SentRight(ChunkSize', sizes'[data'[u][i].header.event], data'[u][i])
    BY DEF DataRight
  <2>1. PICK k : k \in DOMAIN data[u] /\ data'[u][i] = data[u][k] BY <1>4 DEF WithoutFirst
  <2> QED BY <1>3, <1>5, <2>1 DEF DataRight
<1>9. MapRight' /\ Counted'
  <2>1. CASE IsLastPart(merger, h) BY <1>1, <1>2, <2>1, ErasedRight
  <2>2. CASE ~IsLastPart(merger, h) BY <1>1, <1>2, <2>2, PutRight
  <2> QED BY <2>1, <2>2
<1>10. SinkRight'
  <2>1. \A i \in DOMAIN tree : IsPart(tree[i].arrays, 0 .. sizes[tree[i].header.event] - 1)
    BY DEF SinkRight
  <2>2. \A i \in DOMAIN dataOut : IsPart(dataOut[i].arrays, 0 .. sizes[dataOut[i].header.event] - 1)
    BY DEF SinkRight
  <2>3. IsSeq(dataOut) BY DEF SplitInv, AckInv
  <2>4. CASE IsLastPart(merger, h)
    <3>1. PICK e : e = [header |-> [h EXCEPT !.nofChunks = 1, !.chunkStart = 0],
                        arrays |-> Combine(merger, part)]
      OBVIOUS
    <3>2. e.header.event = h.event /\ e.arrays = Combine(merger, part)
      BY <1>4, <3>1 DEF PartHeaders
    <3>3. IsPart(e.arrays, 0 .. sizes[e.header.event] - 1)
      BY <1>1, <1>2, <2>4, <3>2, CombinedWhole
    <3>4. dataOut' = dataOut \o <<e>> BY <1>2, <1>3, <1>4, <2>4, <3>1 DEF MergedEvents
    <3>5. IsSeq(<<e>>) /\ DOMAIN <<e>> = 1 .. 1 /\ <<e>>[1] = e /\ Len(<<e>>) = 1 BY SingleIs
    <3>6. DOMAIN dataOut' = 1 .. Len(dataOut) + Len(<<e>>)
      BY <2>3, <3>4, <3>5, ConcatIs
    <3>7. \A i \in DOMAIN dataOut : dataOut'[i] = dataOut[i] BY <2>3, <3>4, <3>5, ConcatIs
    <3>8. \A i \in DOMAIN <<e>> : dataOut'[Len(dataOut) + i] = <<e>>[i]
      BY <2>3, <3>4, <3>5, ConcatIs
    <3>9. dataOut'[Len(dataOut) + 1] = e
      <4>1. 1 \in DOMAIN <<e>> BY <3>5
      <4> QED BY <3>5, <3>8, <4>1
    <3>10. DOMAIN dataOut = 1 .. Len(dataOut) /\ Len(dataOut) \in Nat BY <2>3, IsSeqIs
    <3>11. ASSUME NEW i \in DOMAIN dataOut'
           PROVE IsPart(dataOut'[i].arrays, 0 .. sizes[dataOut'[i].header.event] - 1)
      <4>1. i \in DOMAIN dataOut \/ i = Len(dataOut) + 1 BY <3>5, <3>6, <3>10
      <4>2. CASE i \in DOMAIN dataOut BY <2>2, <3>7, <4>2
      <4>3. CASE i = Len(dataOut) + 1 BY <3>3, <3>9, <4>3
      <4> QED BY <4>1, <4>2, <4>3
    <3> QED BY <1>3, <2>1, <3>11 DEF SinkRight
  <2>5. CASE ~IsLastPart(merger, h)
    <3>1. MergedEvents(merger, part) = << >> BY <1>2, <2>5 DEF MergedEvents
    <3>2. dataOut' = dataOut
      <4>1. PICK S : dataOut \in Seq(S) BY <2>3 DEF IsSeq
      <4> QED BY <1>3, <3>1, <4>1, ConcatProperties, EmptySeq
    <3> QED BY <1>3, <1>5, <3>2, SinkKept
  <2> QED BY <2>4, <2>5
<1> QED BY <1>6, <1>7, <1>8, <1>9, <1>10

LEMMA StoreWhole ==
    ASSUME SplitInv, WholeInv, StoreData
    PROVE WholeInv'
<1> USE DEF WholeInv
<1>1. PICK e : e = Head(dataOut) OBVIOUS
<1>2. /\ dataOut # << >> /\ tree' = Append(tree, e) /\ dataOut' = Tail(dataOut)
      /\ UNCHANGED <<setup, gen, numAcks, server, transporter, primaries, requests, data,
                     merger, sizes>>
  BY <1>1 DEF StoreData
<1>3. ChunkSize' = ChunkSize /\ NofChunks' = NofChunks BY <1>2 DEF ChunkSize, NofChunks
<1>4. Complete' = Complete BY <1>2, <1>3 DEF Complete
<1>5. PlaceInv' /\ HeadersRight' /\ DataRight' BY <1>2, <1>3 DEF PlaceInv, HeadersRight, DataRight
<1>6. MapRight' BY <1>2, <1>3, <1>4 DEF MapRight
<1>7. Counted' BY <1>2, <1>4 DEF Counted
<1>8. SinkRight'
  <2>1. IsSeq(tree) /\ IsSeq(dataOut) BY DEF SplitInv, AckInv
  <2>2. /\ e = dataOut[1] /\ 1 \in DOMAIN dataOut
        /\ \A i \in DOMAIN dataOut' : i + 1 \in DOMAIN dataOut /\ dataOut'[i] = dataOut[i + 1]
    BY <1>1, <1>2, <2>1, TailIs
  <2>3. Len(tree) \in Nat /\ DOMAIN tree = 1 .. Len(tree) BY <2>1, IsSeqIs
  <2>4. /\ DOMAIN tree' = 1 .. Len(tree) + 1
        /\ \A i \in DOMAIN tree : tree'[i] = tree[i]
        /\ tree'[Len(tree) + 1] = e
    BY <1>2, <2>1, AppendIs
  <2>5. \A i \in DOMAIN dataOut' : IsPart(dataOut'[i].arrays, 0 .. sizes[dataOut'[i].header.event] - 1)
    BY <2>2 DEF SinkRight
  <2>6. ASSUME NEW i \in DOMAIN tree'
        PROVE IsPart(tree'[i].arrays, 0 .. sizes[tree'[i].header.event] - 1)
    <3>1. i \in DOMAIN tree \/ i = Len(tree) + 1 BY <2>3, <2>4
    <3>2. CASE i \in DOMAIN tree BY <2>4, <3>2 DEF SinkRight
    <3>3. CASE i = Len(tree) + 1 BY <2>2, <2>4, <3>3 DEF SinkRight
    <3> QED BY <3>1, <3>2, <3>3
  <2> QED BY <1>2, <2>5, <2>6 DEF SinkRight
<1> QED BY <1>5, <1>6, <1>7, <1>8

-----------------------------------------------------------------------------
(* What is stored is right, where the chunks divide the events. *)

LEMMA WholeStep == ChunksDivide /\ SplitInv /\ WholeInv /\ [Next]_vars => WholeInv'
<1> SUFFICES ASSUME ChunksDivide, SplitInv, WholeInv, [Next]_vars PROVE WholeInv' OBVIOUS
<1>1. CASE ConditionalRun BY <1>1, GenerateWhole DEF ConditionalRun
<1>2. CASE Reply
  <2>1. requests \in Seq(Transporters) /\ requests # << >>
    BY <1>2 DEF Reply, SplitInv, ChannelInv
  <2>2. Head(requests) \in Transporters BY <2>1, HeadTailProperties
  <2> QED BY <1>2, <2>2, GenerateWhole DEF Reply
<1>3. CASE ListenForAcks
  <2>1. UNCHANGED <<setup, sizes, primaries, data, merger, dataOut, tree, server, gen>>
    BY <1>3 DEF ListenForAcks
  <2> QED BY <2>1, OtherStep
<1>4. CASE PostRun
  <2>1. /\ UNCHANGED <<setup, sizes, primaries, data, merger, dataOut, tree, server>>
        /\ gen' = [gen EXCEPT !.state = "done"]
    BY <1>4 DEF PostRun
  <2>2. gen \in [state : {"running", "joining", "done"}, fEventCounter : 0 .. NofEvents + 1,
                 fChunkPointer : Nat, prims : EventSizes \cup {0}]
    BY DEF SplitInv, GenInv
  <2>3. gen'.fChunkPointer = gen.fChunkPointer BY <2>1, <2>2
  <2> QED BY <2>1, <2>3, OtherStep
<1>5. ASSUME NEW t \in Transporters, RequestData(t) PROVE WholeInv'
  <2>1. UNCHANGED <<setup, sizes, primaries, data, merger, dataOut, tree, server, gen>>
    BY <1>5 DEF RequestData
  <2> QED BY <2>1, OtherStep
<1>6. ASSUME NEW t \in Transporters, InitializeRun(t) \/ TransportData(t) \/ Merge(t)
      PROVE WholeInv'
  BY <1>6, InitializeRunWhole, TransportWhole, MergeWhole
<1>7. CASE StoreData BY <1>7, StoreWhole
<1>8. CASE UNCHANGED vars
  <2>1. UNCHANGED <<setup, sizes, primaries, data, merger, dataOut, tree, server, gen>>
    BY <1>8 DEF vars
  <2> QED BY <2>1, OtherStep
<1> QED BY <1>1, <1>2, <1>3, <1>4, <1>5, <1>6, <1>7, <1>8 DEF Next

\* What a chunk's simulation and the merging of the parts leave in the file is right:
\* every event that is stored has all that came of its primaries, once, and every
\* index leads to the right track, whichever parts came first.  The number of chunks
\* in the header is a whole number: this is about events that the chunks divide.
THEOREM StoredEventsRight == ASSUME ChunksDivide PROVE Spec => []StoredRight
<1>1. Init => WholeInv BY WholeInit
<1>2. SplitInv /\ WholeInv /\ [Next]_vars => WholeInv' BY WholeStep
<1>3. WholeInv => StoredRight
  <2> SUFFICES ASSUME WholeInv, NEW i \in DOMAIN tree
               PROVE Whole(tree[i]) /\ IndicesRight(tree[i].arrays)
    BY DEF StoredRight, StoredWhole, StoredIndicesRight
  <2>1. PICK arrays : arrays = tree[i].arrays OBVIOUS
  <2>2. PICK P : P = 0 .. sizes[tree[i].header.event] - 1 OBVIOUS
  <2>3. PartRight(arrays["MCTrack"], arrays["PixelPoint"], P)
    BY <2>1, <2>2 DEF WholeInv, SinkRight, IsPart
  <2>4. Holds(arrays, P, Secondaries) /\ IndicesRight(arrays) BY <2>3, HoldsIs
  <2> QED BY <2>1, <2>2, <2>4 DEF Whole
<1> QED BY <1>1, <1>2, <1>3, SplitInvariant, PTL DEF Spec

\* What EventStore demands beyond that is that the events are whole.  Where the chunks
\* divide the events they are: the generator, the devices, the merger and the sink
\* together are safe as StoresEveryEvent promises.
THEOREM SplitKeepsPromise ==
    ASSUME ChunksDivide PROVE Spec => Promise!Init /\ [][Promise!Next]_(Promise!vars)
<1> DEFINE stored == [i \in DOMAIN tree |-> IF Whole(tree[i]) THEN tree[i].header.event ELSE 0]
<1>1. StoredWhole => stored = StoredEvents BY DEF StoredWhole, StoredEvents
<1>2. StoredWhole' => stored' = StoredEvents'
  <2> SUFFICES ASSUME StoredWhole' PROVE stored' = StoredEvents' OBVIOUS
  <2> QED BY DEF StoredWhole, StoredEvents
<1>3. StoredWhole /\ Init => Promise!Init
  <2> SUFFICES ASSUME StoredWhole, Init PROVE Promise!Init OBVIOUS
  <2>1. Numbered!Init /\ stored = StoredEvents BY <1>1, NumberedInit
  <2> QED BY <2>1 DEF Numbered!Init, Promise!Init
<1>4. SplitInv /\ SplitInv' /\ StoredWhole /\ StoredWhole' /\ [Next]_vars
      => [Promise!Next]_(Promise!vars)
  <2> SUFFICES ASSUME SplitInv, SplitInv', StoredWhole, StoredWhole', [Next]_vars
               PROVE [Promise!Next]_(Promise!vars)
    OBVIOUS
  <2>1. stored = StoredEvents /\ stored' = StoredEvents' BY <1>1, <1>2
  <2>2. [Numbered!Next]_(Numbered!vars) BY NumberedStep
  <2> HIDE DEF stored
  <2>3. CASE UNCHANGED Numbered!vars
    <3>1. Len(sizes)' = Len(sizes) /\ StoredEvents' = StoredEvents /\ (gen.state = "done")' = (gen.state = "done")
      BY <2>3 DEF Numbered!vars
    <3> QED BY <2>1, <3>1 DEF Promise!vars, stored
  <2>4. CASE Numbered!Generate
    <3>1. Promise!Generate BY <2>1, <2>4 DEF Numbered!Generate, Promise!Generate, stored
    <3> QED BY <3>1 DEF Promise!Next
  <2>5. ASSUME NEW event \in 1 .. NofEvents, Numbered!Store(event) PROVE Promise!Next
    <3>1. Promise!Store(event)
      BY <2>1, <2>5 DEF Numbered!Store, Promise!Store, Numbered!ToSet, Promise!ToSet, stored
    <3> QED BY <3>1 DEF Promise!Next
  <2>6. CASE Numbered!End
    <3>1. Promise!End BY <2>1, <2>6 DEF Numbered!End, Promise!End, stored
    <3> QED BY <3>1 DEF Promise!Next
  <2> QED BY <2>2, <2>3, <2>4, <2>5, <2>6 DEF Numbered!Next
<1>5. StoredRight => StoredWhole BY DEF StoredRight
<1> QED BY <1>3, <1>4, <1>5, SplitInvariant, StoredEventsRight, PTL DEF Spec
=============================================================================
