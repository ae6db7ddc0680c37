---------------------------- MODULE ChunkMerger -----------------------------
(***************************************************************************)
(* FairMQChunkMerger (examples/MQ/pixelSimSplit): collects the parts into  *)
(* which the simulation of an event was split and joins them again.        *)
(*                                                                         *)
(* A part has a header and, for each branch, an array.  What an array      *)
(* element is about is abstracted to the primary it stems from (prim) and  *)
(* the generation (gen: 0 for the primary, 1 for a secondary); what is     *)
(* kept is the index by which it refers to a track: a track to its mother  *)
(* (-1: none), a point of the detector to its track.  These indices count  *)
(* from 0 in the MCTrack array of the part and the merger renumbers them.  *)
(*                                                                         *)
(* The merger is a record; fObjectMap is the sequence of its entries in    *)
(* the order they were inserted, which is the order a multimap has for     *)
(* equal keys.  `fatal' is LOG(fatal), which ends the device.              *)
(***************************************************************************)
EXTENDS Integers, Sequences, FiniteSets, SequencesExt

Branches == {"MCTrack", "PixelPoint"}

EmptyMerger == [fNofPartsPerEventMap |-> {},    \* the parts counted: [key, n]
                fObjectMap |-> << >>,
                fatal |-> FALSE]

Key(header) == <<header.event, header.run>>

PartsReceived(m, key) ==
    IF \E c \in m.fNofPartsPerEventMap : c.key = key
    THEN (CHOOSE c \in m.fNofPartsPerEventMap : c.key = key).n ELSE 0

CountPart(m, key) ==
    LET others == {c \in m.fNofPartsPerEventMap : c.key # key}
    IN  [m EXCEPT !.fNofPartsPerEventMap =
                      others \cup {[key |-> key, n |-> PartsReceived(m, key) + 1]}]

\* The numbers of a set from the smallest up.
Ascending(S) ==
    CHOOSE s \in [1 .. Cardinality(S) -> S] : \A i, j \in DOMAIN s : i < j => s[i] < s[j]

\* The arrays that equal_range finds under the key, for one branch.
BufferedArrays(m, key, branch) ==
    LET at == Ascending({i \in DOMAIN m.fObjectMap : /\ m.fObjectMap[i].key = key
                                                     /\ m.fObjectMap[i].name = branch})
    IN  [k \in DOMAIN at |-> m.fObjectMap[at[k]].array]

\* A part of the event with this start is in the buffer already.
GotAgain(m, header) ==
    \E i \in DOMAIN m.fObjectMap : /\ m.fObjectMap[i].key = Key(header)
                                   /\ m.fObjectMap[i].start = header.chunkStart

\* Not all parts are there yet: one entry for each array of the part.
PutInBuffer(m, part) ==
    LET Entry(branch) == [key |-> Key(part.header), start |-> part.header.chunkStart,
                          name |-> branch, array |-> part.arrays[branch]]
    IN  [m EXCEPT !.fObjectMap = @ \o <<Entry("MCTrack"), Entry("PixelPoint")>>]

\* A track without a mother keeps its -1.
Renumber(branch, array, shift) ==
    [k \in DOMAIN array |->
        [array[k] EXCEPT !.track = IF branch = "MCTrack" /\ @ < 0 THEN @ ELSE @ + shift]]

\* Mutant: the shift is taken after the array was absorbed.
AbsorbShiftLate(arrays, tracks, points) ==
    LET trackShift == Len(arrays.MCTrack) + Len(tracks)
    IN  [MCTrack |-> arrays.MCTrack \o Renumber("MCTrack", tracks, trackShift),
         PixelPoint |-> arrays.PixelPoint \o Renumber("PixelPoint", points, trackShift)]

\* trackShift is the length the MCTrack array has before a buffered one is absorbed;
\* the code keeps it for the other branches, which come in a second loop.
Absorb(arrays, tracks, points) ==
    LET trackShift == Len(arrays.MCTrack)
    IN  [MCTrack |-> arrays.MCTrack \o Renumber("MCTrack", tracks, trackShift),
         PixelPoint |-> arrays.PixelPoint \o Renumber("PixelPoint", points, trackShift)]

\* The part's own arrays followed by the ones in the buffer.
Combine(m, part) ==
    LET tracks == BufferedArrays(m, Key(part.header), "MCTrack")
        points == BufferedArrays(m, Key(part.header), "PixelPoint")
        joined[k \in 0 .. Len(tracks)] ==
            IF k = 0 THEN part.arrays ELSE Absorb(joined[k - 1], tracks[k], points[k])
    IN  joined[Len(tracks)]

\* AbsorbObjects empties the buffered arrays.  The entries stay: the loops run on
\* a reference to fRet.first, so the range erased after them is empty.
EraseMerged(m, key) ==
    [m EXCEPT !.fObjectMap = [i \in DOMAIN @ |->
        IF @[i].key = key THEN [@[i] EXCEPT !.array = << >>] ELSE @[i]]]

\* Mutant: the part in hand is not counted.
IsLastPartUncounted(m, header) == PartsReceived(m, Key(header)) = header.nofChunks

IsLastPart(m, header) == PartsReceived(m, Key(header)) + 1 = header.nofChunks

\* What MergeData sends on: the whole event, as one chunk, or nothing.
MergedEvents(m, part) ==
    IF ~GotAgain(m, part.header) /\ IsLastPart(m, part.header)
    THEN <<[header |-> [part.header EXCEPT !.nofChunks = 1, !.chunkStart = 0],
            arrays |-> Combine(m, part)]>>
    ELSE << >>

MergeData(m, part) ==
    IF GotAgain(m, part.header) THEN [m EXCEPT !.fatal = TRUE]
    ELSE LET counted == CountPart(m, Key(part.header))
         IN  IF IsLastPart(m, part.header) THEN EraseMerged(counted, Key(part.header))
                                           ELSE PutInBuffer(counted, part)

\* The arrays hold the tracks and the points of these primaries, each once.
Holds(arrays, primaries, secondaries) ==
    LET of(p) == {<<p, 0>>} \cup (IF p \in secondaries THEN {<<p, 1>>} ELSE {})
        Whole(array) ==
            /\ {<<array[k].prim, array[k].gen>> : k \in DOMAIN array}
                   = UNION {of(p) : p \in primaries}
            /\ \A j, k \in DOMAIN array :
                   array[j].prim = array[k].prim /\ array[j].gen = array[k].gen => j = k
    IN  \A branch \in Branches : Whole(arrays[branch])

\* Every index leads to the right track: a secondary's to its primary, a point's
\* to the track that made it.
IndicesRight(arrays) ==
    LET tracks == arrays["MCTrack"]
        points == arrays["PixelPoint"]
        At(i) == tracks[i + 1]
    IN  /\ \A k \in DOMAIN tracks :
               IF tracks[k].gen = 0 THEN tracks[k].track = -1
               ELSE /\ tracks[k].track + 1 \in DOMAIN tracks
                    /\ At(tracks[k].track).prim = tracks[k].prim
                    /\ At(tracks[k].track).gen = 0
        /\ \A k \in DOMAIN points :
               /\ points[k].track + 1 \in DOMAIN tracks
               /\ At(points[k].track).prim = points[k].prim
               /\ At(points[k].track).gen = points[k].gen
=============================================================================
