------------------------------ MODULE SplitSim ------------------------------
(***************************************************************************)
(* The simulation split over processes (examples/MQ/pixelSimSplit): one    *)
(* generator makes events and sends them in chunks of primaries to the     *)
(* transport devices, these simulate a chunk each and send the result to   *)
(* the chunk merger, the merger sends whole events to the file sink, and   *)
(* the sink acknowledges every message to the generator, which ends when   *)
(* it has as many acknowledgements as events.  Before it runs, a transport *)
(* device asks the parameter server for the number of the run.             *)
(*                                                                         *)
(* The devices are processes; a message channel keeps the order between    *)
(* one sender and one receiver, and a sender waits when a channel is full. *)
(* A chunk carries all primaries of its event in the code; here primaries  *)
(* are numbers and the header says how many the event has.  Modelled with  *)
(* the ack channel, and with one engine thread in a transport device.      *)
(***************************************************************************)
EXTENDS ChunkMerger

CONSTANTS Transporters,    \* the transport devices
          NofEvents,       \* fNofEvents of the generator
          Setups,          \* what the devices are started with, see below
          EventSizes,      \* numbers of primaries an event may have
          Secondaries,     \* the primaries that make a secondary
          ChannelSize      \* bound: messages a channel takes before it blocks

ASSUME SplitAssumption ==
    /\ IsFiniteSet(Transporters)
    /\ NofEvents \in Nat \ {0}
    /\ \A s \in Setups : s.push \in BOOLEAN /\ s.chunkSize \in Nat
    /\ EventSizes \subseteq Nat \ {0} /\ Secondaries \subseteq Nat
    /\ ChannelSize \in Nat \ {0}

VARIABLES setup,         \* the setup of this run
          gen,           \* the generator's main thread
          numAcks,       \* its listener thread's count, which stops at NofEvents
          server,        \* the parameter server: fRunId, fNofSimDevices
          transporter,   \* for each transport device its state, fRunId and device id
          primaries,     \* channel generator -> one transporter
          requests,      \* channel transporters -> generator (request-reply only)
          data,          \* channel one transporter -> merger
          merger,        \* the chunk merger
          dataOut,       \* channel merger -> sink
          tree,          \* what the sink filled
          ack,           \* acknowledgements on their way
          sizes          \* history: number of primaries of each event generated

vars == <<setup, gen, numAcks, server, transporter, primaries, requests, data, merger,
          dataOut, tree, ack, sizes>>

\* fRunConditional: push-pull, otherwise request-reply.
Push == setup.push

\* fChunkSize, 0 for whole events.
ChunkSize == setup.chunkSize

Init == /\ setup \in Setups
        /\ gen = [state |-> "running", fEventCounter |-> 0, fChunkPointer |-> 0, prims |-> 0]
        /\ numAcks = 0
        /\ server = [fRunId |-> 0, fNofSimDevices |-> 0]
        /\ transporter = [t \in Transporters |->
                              [state |-> "starting", fRunId |-> 0, fTransportDeviceId |-> 0]]
        /\ primaries = [t \in Transporters |-> << >>]
        /\ requests = << >>
        /\ data = [t \in Transporters |-> << >>]
        /\ merger = EmptyMerger
        /\ dataOut = << >> /\ tree = << >> /\ ack = 0
        /\ sizes = << >>
-----------------------------------------------------------------------------
(***************************************************************************)
(* The parameter server and the start of a transport device.               *)
(***************************************************************************)

\* Mutant: each device that reports gets a run number of its own.
ReportSimDeviceAnew(s) ==
    [fRunId |-> s.fRunId + 1, fNofSimDevices |-> s.fNofSimDevices + 1]

\* A run number is generated for the first device that reports.
ReportSimDevice(s) ==
    [fRunId |-> IF s.fNofSimDevices = 0 THEN s.fRunId + 1 ELSE s.fRunId,
     fNofSimDevices |-> s.fNofSimDevices + 1]

\* Request and reply on the update channel; the device waits for the answer, the
\* server serves one device at a time.
InitializeRun(t) ==
    /\ transporter[t].state = "starting"
    /\ server' = ReportSimDevice(server)
    /\ transporter' = [transporter EXCEPT ![t] =
                           [state |-> "running", fRunId |-> server'.fRunId,
                            fTransportDeviceId |-> server.fNofSimDevices]]
    /\ UNCHANGED <<setup, gen, numAcks, primaries, requests, data, merger,
                   dataOut, tree, ack, sizes>>
-----------------------------------------------------------------------------
(***************************************************************************)
(* The generator.                                                          *)
(***************************************************************************)

\* The event in work: the one before goes on unless all its chunks were sent.
NextEvent(g, size) ==
    IF g.fChunkPointer = 0
    THEN [g EXCEPT !.fEventCounter = @ + 1, !.prims = size] ELSE g

AllGenerated(g) == g.fEventCounter > NofEvents

\* nPrim is what the code puts into NPrim: where the chunk ends, except for a
\* chunk that is cut short by the end of the event: there it is what is left.
ChunkHeader(g) ==
    [event |-> g.fEventCounter, run |-> 0,
     nofChunks |-> IF ChunkSize = 0 THEN 1 ELSE g.prims \div ChunkSize,
     chunkStart |-> IF ChunkSize = 0 THEN 0 ELSE g.fChunkPointer,
     nPrim |-> IF ChunkSize = 0 THEN g.prims
               ELSE IF g.fChunkPointer + ChunkSize > g.prims THEN g.prims - g.fChunkPointer
               ELSE g.fChunkPointer + ChunkSize]

AdvanceChunk(g) ==
    IF ChunkSize = 0 \/ g.fChunkPointer + ChunkSize >= g.prims
    THEN [g EXCEPT !.fChunkPointer = 0]
    ELSE [g EXCEPT !.fChunkPointer = @ + ChunkSize]

\* One chunk to transporter t; after the last event the device leaves RUNNING
\* instead and PostRun joins the listener thread.
GenerateAndSendData(t) ==
    \E size \in EventSizes :
        LET g == NextEvent(gen, size)
        IN  /\ gen.state = "running"
            /\ IF AllGenerated(g)
               THEN /\ gen' = [g EXCEPT !.state = "joining", !.prims = 0]
                    /\ UNCHANGED <<primaries, sizes>>
               ELSE /\ Len(primaries[t]) < ChannelSize
                    /\ primaries' = [primaries EXCEPT ![t] = Append(@, ChunkHeader(g))]
                    /\ gen' = AdvanceChunk(g)
                    /\ sizes' = IF gen.fChunkPointer = 0 THEN Append(sizes, size) ELSE sizes
            /\ UNCHANGED <<setup, numAcks, server, transporter, data, merger, dataOut, tree, ack>>

ConditionalRun ==
    /\ Push
    /\ \E t \in Transporters : GenerateAndSendData(t)
    /\ UNCHANGED requests

Reply ==
    /\ ~Push
    /\ requests # << >>
    /\ GenerateAndSendData(Head(requests))
    /\ requests' = Tail(requests)

Listening == numAcks < NofEvents

ListenForAcks ==
    /\ Listening
    /\ ack > 0
    /\ ack' = ack - 1
    /\ numAcks' = numAcks + 1
    /\ UNCHANGED <<setup, gen, server, transporter, primaries, requests, data, merger,
                   dataOut, tree, sizes>>

PostRun ==
    /\ gen.state = "joining"
    /\ ~Listening
    /\ gen' = [gen EXCEPT !.state = "done"]
    /\ UNCHANGED <<setup, numAcks, server, transporter, primaries, requests, data, merger,
                   dataOut, tree, ack, sizes>>
-----------------------------------------------------------------------------
(***************************************************************************)
(* A transport device.                                                     *)
(***************************************************************************)

\* ConditionalRun of a device that asks for its data.
RequestData(t) ==
    /\ ~Push
    /\ transporter[t].state = "running"
    /\ requests' = Append(requests, t)
    /\ transporter' = [transporter EXCEPT ![t].state = "waiting"]
    /\ UNCHANGED <<setup, gen, numAcks, server, primaries, data, merger, dataOut, tree, ack, sizes>>

\* The primaries put on the stack, from chunkStart to nPrim.
SetParticleArray(header) ==
    [k \in 1 .. IF header.nPrim > header.chunkStart THEN header.nPrim - header.chunkStart ELSE 0
         |-> header.chunkStart + k - 1]

\* The event as the stack and the detector leave it: the primaries first, then
\* the secondaries, each with its mother; every track leaves one point.
ProcessRun(particles) ==
    LET first == [k \in DOMAIN particles |-> [prim |-> particles[k], gen |-> 0, track |-> -1]]
        mothers == Ascending({k \in DOMAIN particles : particles[k] \in Secondaries})
        tracks == first \o [k \in DOMAIN mothers |->
                      [prim |-> particles[mothers[k]], gen |-> 1, track |-> mothers[k] - 1]]
    IN  [MCTrack |-> tracks,
         PixelPoint |-> [k \in DOMAIN tracks |-> [tracks[k] EXCEPT !.track = k - 1]]]

TransportData(t) ==
    /\ transporter[t].state = IF Push THEN "running" ELSE "waiting"
    /\ primaries[t] # << >> /\ Len(data[t]) < ChannelSize
    /\ LET header == Head(primaries[t])
       IN  data' = [data EXCEPT ![t] = Append(@,
                       [header |-> [event |-> header.event, run |-> transporter[t].fRunId,
                                    nofChunks |-> header.nofChunks,
                                    chunkStart |-> header.chunkStart],
                        arrays |-> ProcessRun(SetParticleArray(header))])]
    /\ primaries' = [primaries EXCEPT ![t] = Tail(@)]
    /\ transporter' = [transporter EXCEPT ![t].state = "running"]
    /\ UNCHANGED <<setup, gen, numAcks, server, requests, merger, dataOut, tree, ack, sizes>>
-----------------------------------------------------------------------------
(***************************************************************************)
(* The merger and the file sink.                                           *)
(***************************************************************************)
Merge(t) ==
    /\ ~merger.fatal
    /\ data[t] # << >>
    /\ MergedEvents(merger, Head(data[t])) # << >> => Len(dataOut) < ChannelSize
    /\ merger' = MergeData(merger, Head(data[t]))
    /\ dataOut' = dataOut \o MergedEvents(merger, Head(data[t]))
    /\ data' = [data EXCEPT ![t] = Tail(@)]
    /\ UNCHANGED <<setup, gen, numAcks, server, transporter, primaries, requests, tree, ack, sizes>>

StoreData ==
    /\ dataOut # << >>
    /\ tree' = Append(tree, Head(dataOut))
    /\ dataOut' = Tail(dataOut)
    /\ ack' = ack + 1
    /\ UNCHANGED <<setup, gen, numAcks, server, transporter, primaries, requests, data,
                   merger, sizes>>

Next == \/ ConditionalRun \/ Reply \/ ListenForAcks \/ PostRun
        \/ \E t \in Transporters :
              InitializeRun(t) \/ RequestData(t) \/ TransportData(t) \/ Merge(t)
        \/ StoreData

\* Every device is a process that runs whenever it has work.
Fairness ==
    /\ WF_vars(ConditionalRun) /\ WF_vars(Reply) /\ WF_vars(ListenForAcks) /\ WF_vars(PostRun)
    /\ \A t \in Transporters : WF_vars(InitializeRun(t)) /\ WF_vars(RequestData(t))
                               /\ WF_vars(TransportData(t)) /\ WF_vars(Merge(t))
    /\ WF_vars(StoreData)

Spec == Init /\ [][Next]_vars /\ Fairness
-----------------------------------------------------------------------------
(***************************************************************************)
(* Correctness.                                                            *)
(***************************************************************************)

\* The types of the devices' states; what is counted stays in bounds.
TypeOK ==
    /\ gen.state \in {"running", "joining", "done"}
    /\ gen.fEventCounter \in 0 .. NofEvents + 1
    /\ gen.fChunkPointer \in Nat /\ gen.prims \in EventSizes \cup {0}
    /\ numAcks \in 0 .. NofEvents /\ ack \in Nat
    /\ server.fRunId \in Nat /\ server.fNofSimDevices \in 0 .. Cardinality(Transporters)
    /\ \A t \in Transporters :
           /\ transporter[t].state \in {"starting", "running", "waiting"}
           /\ Len(primaries[t]) <= ChannelSize /\ Len(data[t]) <= ChannelSize
    /\ ToSet(requests) \subseteq Transporters
    /\ Len(dataOut) <= ChannelSize

\* All devices simulate for the same run, each under a number of its own: chunks
\* of one event that different devices transported have the same key.
OneRun ==
    \A t, u \in {t \in Transporters : transporter[t].state # "starting"} :
        /\ transporter[t].fRunId = transporter[u].fRunId
        /\ t # u => transporter[t].fTransportDeviceId # transporter[u].fTransportDeviceId

\* The merger never gets a part of an event it already has.
NoPartTwice == ~merger.fatal

Whole(stored) == Holds(stored.arrays, 0 .. sizes[stored.header.event] - 1, Secondaries)

\* `Merges chunks back into full events': what is stored has every primary the
\* generator made for the event, and what came of it, once.
StoredWhole == \A i \in DOMAIN tree : Whole(tree[i])

\* Whatever the order in which the chunks of an event came in, mothers and track
\* numbers lead to the right track of the merged event.
StoredIndicesRight == \A i \in DOMAIN tree : IndicesRight(tree[i].arrays)

Promise == INSTANCE EventStore WITH
               generated <- Len(sizes),
               stored <- [i \in DOMAIN tree |-> IF Whole(tree[i]) THEN tree[i].header.event ELSE 0],
               over <- gen.state = "done"

\* The processes together do what one program would: every event is stored once
\* and whole, and the generator ends, which is when the devices may be stopped,
\* only after the last one has been stored -- and it does end.
StoresEveryEvent == Promise!Spec

\* The devices agree about the run they are in, and the merger about which parts of an
\* event it has.
DevicesAgree == TypeOK /\ OneRun /\ NoPartTwice

\* What is stored is right: whole events, whose indices lead to the right tracks.
StoredRight == StoredWhole /\ StoredIndicesRight
=============================================================================
