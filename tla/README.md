# TLA+ models of FairRoot

FairRoot is a framework for simulating, reconstructing and analysing the data
of particle-physics experiments. Much of it is sequential numerical code. The
parts collected here are the ones whose correctness depends on the *order* of
things: data that cross the borders of events, buffers and files with a limited
size, parameters that have to belong to the run of the data, loops that have to
end, and processes that exchange messages.

    <module>.tla          a component, or operators several components share
    MC<module>.tla        constants for TLC;  MC<module>*.cfg  the runs
    *Proofs.tla           theorems checked by TLAPS
    PROJECT.json          components, runs, mutants, source map, findings, hazards, theorems

## 1. Inventory

Paths are relative to `src/`.

### Time-based data (`fairroot/base/steer`, used by `examples/advanced/Tutorial3`)

In a time-based run the data of one event may belong, in time, to a later one.
Four parts pass digis on to each other:

    FairRunAna::Run ── per event ──► FairRootManager::StoreWriteoutBufferData(eventTime)
         │                                  │
         │ ExecuteTask                      ▼
         ├─► digitising task ──FillNewData──► FairWriteoutBuffer ──► array of the branch
         │                                                              │ Exec / FinishTask
         ├─► FairRingSorterTask ◄───────────────────────────────────────┘
         │        └─► FairRingSorter ──► sorted branch
         └─► Fill, DeleteOldWriteoutBufferData, FinishEvent;  at the end
             StoreAllWriteoutBufferData, FinishTask, LastFill

    a later run:  FairRunAna::RunTSBuffers ──► task ──► FairTSBufferFunctional::GetData

| part | state | operations | what makes it correct |
| --- | --- | --- | --- |
| `FairRingSorter` | ring of multimaps, lower bound (slot, time), output | `AddElement`, `WriteOutElements`, `WriteOutAll`, `SetLowerBound` | output in time order over all wrap-arounds; nothing lost or doubled; only data out of order by more than the ring are refused |
| `FairWriteoutBuffer` | start-time map, dead-time map, search buffer, the branch's array | `FillNewData`, `WriteOutData`, `WriteOutAllData`, `FillDataToDeadTimeMap` | records what a detector with dead time records, however the data are cut into events; nothing stays behind |
| `FairRunAna::Run`, `FairRootManager` | place in the loop, event time, `fFillLastData`, vetoes (`MarkFill`) | the calls in the picture, in their order | all digis reach the tree, once, also the last ones |
| `FairTSBufferFunctional` | entry read last, buffer, output | `GetData(stop)`, `GetData(start, stop)`, `AllDataProcessed`, `TimeOut` | each request gives exactly the data of its window; the loop ends |

### Runs over events (`fairroot/base/steer`, `base/source`, `fairroot/online`)

    FairFileSource / FairMixedSource ──ReadEvent──► FairRunAna ──Exec──► tasks ──► sink
    FairLmdSource / FairMbsStreamSource ──ReadEvent──► unpackers
                          FairRunOnline ──Exec──► FairTask tree ──► sink
    a change of the run id ──► parameters and tasks are initialised anew

| part | state | operations | what makes it correct |
| --- | --- | --- | --- |
| `FairRunAna` | loop, run id, `gFRAIsInterrupted` | `Run`, `RunEventReco`, `RunSingleEntry`, `RunMQ`, `CheckRunIdChanged` | the events that were asked for, each once and whole; parameters of the event's run |
| `FairFileSource` | chain of files, chains of friends, time drawn last and its entry | `Init`, `AddFriendsToChain`, `ReadEvent`, `FillEventHeader`, `GetEventTime`, `SetEventTime`, `SetBeamTime` | friends stay in step with the chain; times grow and keep out of the gaps of the beam |
| `FairMixedSource` | entry of each chain, times of background and signals | `ReadEvent`, `SetEventTime`, `FillEventHeader`, `CheckMaxEventNo` | entries of each chain in order; the header names the chain the data are from |
| `FairRunOnline` | loop, run id, SIGINT handler | `Init`, `Run`, `EventLoop`, `CheckRunIdChanged`, `Finish` | events in order, none twice; parameters of the run; stops soon after a signal |
| online sources and unpackers | channel, current file, output branches | `ReadEvent`, `OpenNextFile`, `Unpack`, `InitUnpackers`, `Reset` | the output has data of one event only |
| `FairTask` | `fActive`, state of a failed `Init` | `InitTask`, `ReInitTask`, `ExecuteTask`, `FinishTask` | a task that failed is not executed; the others are |

### Files and servers of events (`fairroot/mbsapi`, `fairroot/online/source`)

    f_evt_put_* ──► buffers on a disk ──► f_evt_get_event, f_evt_skip_buffer
    fLmdPut*    ──► elements, table of offsets ──► fLmdGetElement, fLmdGetBuffer
    f_evt_cre_tagfile ──► tag file ──► f_evt_get_tagevent, f_evt_get_tagnext
    stream server, transport server ──► f_evt_get_event      MBS client
    remote event server (RevServ) ──► RevGet ──► FairRemoteSource

| part | state | operations | what makes it correct |
| --- | --- | --- | --- |
| buffers of `f_evt.c` | writer's stream of buffers, reader's buffer and fragment flags | `f_evt_put_open/event/buffer/close`, `f_evt_get_open/event`, `f_evt_get_newbuf`, `f_evt_skip_buffer` | what is read is what was written: whole events, in order, once, also over borders of buffers and after a crash of the writer |
| `fLmd.c` | header, table of offsets (32 or 64 bit), writer's and reader's buffer | `fLmdPutOpen/Element/Buffer/Close`, `fLmdOffset*`, `fLmdGetOpen/Element/Buffer` | the same; the table names the place of every element; a full disk is told |
| tag files of `f_evt.c` | numbers and places of the events a filter takes, index of the event asked for last | `f_evt_cre_tagfile`, `f_evt_get_tagopen/tagevent/tagnext/tagclose` | an event asked for by number or index is that one, whole |
| clients of MBS servers | buffer, requests sent, state of the socket | `f_evt_get_event`, `f_evt_get_newbuf`, `f_stc_read`, `f_stc_write`, `f_evt_get_close` | the same, over time-outs, servers that skip, shut down or die |
| `MRevBuffer`, `FairRemoteSource` | status of the connection, buffer, event pointer, signal flag | `RevOpen`, `RevGet`, `RevClose`, `exitCli` | the same; SIGINT ends the client |

### Parameters (`fairroot/parbase`, `fairroot/parmq`)

| part | state | operations | what makes it correct |
| --- | --- | --- | --- |
| `FairRuntimeDb`, `FairRtdbRun`, `FairParSet` | containers with versions for two inputs and an output, runs, the inputs' and output's files | `addRun`, `initContainers`, `writeContainers`, `saveOutput`, `closeOutput`, destructor | a run works with its own parameters; tables name what the containers held, over programs one after another that may die |
| parameter files | cycles and tables of runs of a ROOT file | `FairDetParRootFileIo` (`read`, `findInputVersion`), writing of keys with cycles, ASCII files as inputs | a version a table names can be read |
| `ParameterMQServer` | data base, number of simulation devices | `InitTask`, `ProcessRequest`, `ProcessUpdate`, destructor | clients of different runs that ask one data base do not get each other's parameters; each gets an answer |

### Devices (`examples/MQ`)

    ParameterMQServer ◄─ ReportSimDevice ─► transport devices (several)
    generator ── chunks of primaries ──► transport device ── tracks, points ──► chunk merger
        ▲                                                                          │ whole events
        └──────────────────── acknowledgements ──────────── file sink ◄────────────┘

    digis divided over files ─► samplers ─► task processors ─► pixel merger ─► file sink
                                   ▲                                            │ acknowledgements
                                   └────────────────────────────────────────────┘

| part | state | operations | what makes it correct |
| --- | --- | --- | --- |
| generator | event counter, chunk pointer, listener thread | `GenerateAndSendData`, `ListenForAcks`, `PostRun` | sends every primary in one chunk; ends after the last event was stored |
| transport device | run number, device number | `InitializeRun`, `ConditionalRun`, `TransportData` | simulates the chunk for the common run |
| chunk merger | parts counted per event, buffered arrays | `MergeData` | one whole event out of its chunks, in any order of arrival; indices lead to the right tracks |
| samplers and their sources | current event, number sent and acknowledged | `ConditionalRun`, `ListenForAcks`, `PostRun`; `ReadEvent` of three sources | every event is sent; the sampler ends |
| task processor | run, parameters | `ProcessData`, `UpdateParameter` | parameters of the event's run |
| pixel merger | parts per event, buffered arrays | `MergeData` | an event once, after its last part |
| file sink | tree | `StoreData` | stores and acknowledges every message |

### Simulated events (`fairroot/base/sim`, `fairroot/fastsim`, stack of the examples)

    FairMCApplication::GeneratePrimaries ──► FairPrimaryGenerator ──PushTrack──► FairStack
    engine ──► PopNextTrack, Stepping (detectors), FinishEvent ──► sink
             └─► FairFastSimModel::DoIt ──► FairGenericStack::FastSim*

| part | state | operations | what makes it correct |
| --- | --- | --- | --- |
| `FairMCApplication`, `FairRunSim` | event number, `fSaveCurrentEvent`, `StopRun` | `GeneratePrimaries`, `GenerateEvent`, `Stepping`, `FinishEvent`, `RunMC`, `SetSaveCurrentEvent` | an event that is not refused is stored under the number its generators gave it, or else the next one |
| `FairStack` | particles, stack, index maps, fast-simulation map | `PushTrack`, `PopNextTrack`, `AddPoint`, `SelectTracks`, `FillTrackArray`, `UpdateTrackIndex`, `Reset` | stored tracks keep their mothers; every point names the track that left it |
| fast simulation | particles pushed in a call, index of the one moved | `FastSimPushSecondary`, `FastSimMoveParticleTo`, `FastSimStopParticle`, `DoIt` | a moved particle remains the same track; the engine gets what was pushed |

### Not modelled

| part | why |
| --- | --- |
| `FairEventBuilderManager`, `FairEventBuilder` | deprecated by `CHANGELOG.md`; the only builder is in one example |
| `FairMultiLinkedData`, `FairLinkManager` | sets of weighted links merged by recursive walks: a data structure without events of its own |
| `datamatch` | `ClearMCList` erases the stages made in `Init`, so nothing is loaded after the first event; objects are cast to a class they do not inherit, which is undefined: no behaviour is left to state a property of |
| simulation device of `parmq` examples | its part in the run-number protocol is that of the transport device, its update is in `ParameterServer` |
| root file sink, PROOF analysis, `basemq` and the MQ policies | I/O, wrappers of external libraries; a `Fill` is an append to a tree |
| `geane`, `trackbase`, `geobase`, fields, generators, radiation and trajectory managers, alignment | numerical code, random numbers, construction from files |
| event display, step logger, the remaining examples | user interface, logging, applications |

Of the modelled parts these details are left out: a write-out buffer that is
switched off, `Modify` other than the default, `GetAllData`; `DummyRun`,
`RunOnTBData`, `RunOnLmdFiles`; `TimeGap` and `Terminate`; a run without the
acknowledgement channel, several engine threads, a parameter server restarted in
the middle; reference runs and the removal of runs, the text format, the TSQL
output; messages without an event header; unpacking of MBS headers, byte
swapping, format checks, write errors of the old files; opening and closing of stream and transport
connections, the server half of `f_stccomm.c` (which nothing calls); break
points and the order in the task tree; vertex smearing, worker threads
(and the number an event then gets from the engine, `FairMCApplication.cxx:640`),
`SetParticleArray`. Of the files, 7.4 % of the implementation's lines are
mapped: the rest is mostly numbers, geometry, I/O and graphics.

## 2. Modules

| module | models | correspondence |
| --- | --- | --- |
| `FairRingSorter` | the class, as operators on a record | the fields have the source's names; `first` and `second` are `fLowerBoundPointer`; a cell is the set of its elements, because a multimap keeps its own order |
| `RingSorter` | sorter and task | `Add` is one turn of the loop in `FairRingSorterTask::Exec`, `Collect` its end, `Finish` the end of `FinishTask` |
| `TimeSorter` | promise of a sorter | horizon, waiting, released, refused; no ring, no slots |
| `FairWriteoutBuffer` | the class with Tutorial3's search buffer and the default `Modify` | one operator per method; buffer and array in one record |
| `TimeBasedRun` | `FairRunAna::Run` with all parts of the first picture | one action per call of the loop; `pc` is the place in the loop |
| `TSBuffer` | `FairTSBufferFunctional` with `StopTime` | operators per method; a loop that reads entry after entry is written as the entry at which it stops |
| `TSBufferReads` | a client with arbitrary requests, and `FairRunAna::RunTSBuffers` | `ReadTo`, `ReadRange` are the two forms of `GetData`; `Exec` is the task, `TestLoop` the loop's condition |
| `TimedReader` | promise of a reader of time-ordered data | a cursor |
| `RunAna` | `FairRunAna` with file sources | one action per call of the loop; the method (`Run`, `RunEventReco`, ...) is part of the setup |
| `TaskTree` | `FairTask` | which tasks a walk reaches |
| `RunOnline` | `FairRunOnline`, the online sources, the unpackers | `ReadEvent` with opening of files, `CheckRun`, `ExecuteTasks`, `Fill`, and the signal at any time |
| `EventFile` | promise of a file or server of events | what was got is what was put, in order; lost only where the code gives up |
| `MbsBuffers`, `LmdFile`, `MbsFiles` | `f_evt.c` on buffers; `fLmd.c` as operators; a file of either kind | one action per call of the API; a fragment of an event is a record with its length and place |
| `MbsTags` | tag files, and reading by them or forward without one | `f_evt_cre_tagfile` is one action, as the file does not change while it is made; reading forward takes the steps of `MbsBuffers`; an event number is a field of the setup |
| `MbsServers`, `RemoteEvents` | clients of stream, transport and remote event servers | the server is a nondeterministic process behind a socket |
| `RuntimeDb` | `FairRuntimeDb` with its runs, containers and files, as operators | a container is its value, versions and flags; a ROOT file is cycles and tables |
| `ParameterJobs` | programs one after another on the same files | one action per call of a macro; `Crash` at any moment |
| `ParameterServer` | `ParameterMQServer` with processors and simulation devices | one action per handler |
| `ChunkMerger`, `SplitSim` | `FairMQChunkMerger` as operators; the split simulation | one action per handler, one channel per pair of devices |
| `EventStore` | promise of the distributed simulation | events generated, stored, run over |
| `PixelPipeline` | the devices of the pixel detector | one action per handler; queues |
| `FairStack`, `SimEvents` | the stack as operators; the simulation with two kinds of engine | one action per call of the engine; what really happened, and the numbers generators gave, are histories (`truth`, `given`) |
| `SequenceLemmas` | nothing of the program | lemmas on numbers, sequences, channels and orders that the proofs share |
| `RingSorterProofs`, `TimeBasedRunProofs`, `TSBufferProofs`, `RunAnaProofs`, `RunOnlineProofs`, `SplitSimProofs`, `PixelPipelineProofs` | theorems about the module without `Proofs`, `TSBufferProofs` also about `SimEvents`, the last also about `ParameterServer` | section 4 |

Data are reduced to what the properties tell apart: times are natural numbers
(a negative timestamp is cut off by the digitiser and refused by the sorter),
digis, particles and events are numbered, a parameter container is one value.
Many modules have a constant `Setups` and a variable `setup` that Init chooses
and no step changes: a run of TLC then covers several topologies, options and
inputs of the program. The definitions named "Mutant" in comments are used by no
specification; each is a plausible mistake in the definition below it, there to
show that a run would find it.

A few properties are conjunctions of named parts that concern one question:
`BufferRight`, `NothingLeft`, `SortedBranch` (`TimeBasedRun`), `DevicesAgree`,
`StoredRight` (`SplitSim`, `PixelPipeline`), `TablesRight` (`ParameterJobs`),
`ParametersRight`, `ClientsAnswered` (`ParameterServer`), `FilledRight`,
`ParametersOfRun`, `StopsOrderly` (`RunOnline`), `FastSimRight`, `TracksRight`,
`HitsRight`, `EventsRight` (`SimEvents`), `FilesDescribed`, `AllReadBack`
(`MbsTags`, `RemoteEvents`). The parts have their own definitions and comments.

## 3. Runs

| run | instance | shows |
| --- | --- | --- |
| `ring_sorter` | 3 cells of width 2, 4 elements with times on both sides of every boundary of the ring, up to beyond twice its length | alignment, order, exactly once, refinement of `TimeSorter` |
| `time_based` | 2 pads, 3 events, 3 digis with a sorter, 2 without or with vetoes, 4 cells of width 2 | what is recorded is what a detector with dead time records; the sorted branch is complete and in order; nothing is left |
| `ts_reads` | up to 5 data over 4 entries in every layout, limits 0 to 5, steps 0, 1 and 3 | refinement of `TimedReader`; the loop ends, early only by the time-out |
| `file_runs` | two files of 3 and 2 events of two runs that change inside both, friends of two layouts, a background with two signals; every way to name the events wanted | events as asked, times, parameters of the run (at most one event late where the header is filled late) |
| `online_files` | 2 unpackers, 3 tasks, lists of files (some missing) and a stream, up to 2 calls of `Run`, an interrupt at any time | events in order with their own data, parameters, orderly stop |
| `mbs_buffers` | events of 2 to 13 units in buffers of 12 (header 6), 3 buffers a stream, up to 5 events, 2 skips, a writer that dies between or within its writes; tag files with all events or a filter, linear or not, and reading forward; `fLmd.c` with every kind of call, full disks and small tables; connections with 2 calls that fail, 1 idle answer, up to 2 openings and SIGINT | what is read is what was written; an event found by tag is the one asked for; refinement of `EventFile` |
| `param_jobs` | 2 containers, 2 runs, 2 ROOT files and 1 ASCII file, 2 programs of 4 calls, a crash at any time | tables true and complete, a new run reads its inputs, the end stores all |
| `param_server` | 3 setups: two processors that change from run to run, two devices, one of each with an input that lacks a container | parameters are not mixed up; clients are answered |
| `split_sim` | 2 transport devices, 2 events of 2 or 6 primaries, chunks of 2 in push mode, whole events in request-reply mode, channels of 2 messages | one run number, no part twice, whole events with right indices, refinement of `EventStore` with liveness |
| `pixel_merge` | 3 events, two with one entry number in two runs; 3 samplers with binary or ASCII files and a merger, or one with acknowledgements and limits -1, 2 and 4; queues of 1 | an event once, after its last part; all events stored; samplers end |
| `pixel_whole` | the first setup of `pixel_merge` | *violation*: see Findings |
| `sim_events` | two events of Geant3 with 4 particles and 2 points, one of Geant4 with 5 particles and 1 point, three of Geant3 with 2 particles and 1 point that generators may number 2 or 7 | right tracks, points and events are stored; fast simulation keeps identities |

**Bounds.** The ring has three slots: the lower bound's, the last and one
between them; four elements are enough to fill slots, jump and come back.
Digis in `time_based` end before, at and after the next event, and three of them
make a chain in which one hides another and is itself replaced. The sorter of
that run has the smallest number of cells that sorts the write-out order right:
with three, `SortedBranch` fails, as it should. Three chunks of an event with
two devices arrive in every order, and with channels of two messages the chunks
of the second event overtake those of the first. Four entries give empty ones
before, between and after the data. In `mbs_buffers` the sizes are the smallest
with which an event fits a buffer exactly, leaves room for no further header, or
spans two and three buffers; `fLmd.c` has tables that must grow once and twice,
offsets that no longer fit the small width, and reader's buffers that end inside
a header and inside an element. A client may connect again once, after the first
connection came to its end in any way. Two programs, two runs and two files are
enough for a version to be read from one file, written to another and found
again; the third call changes what the second one wrote. Files of 3 and 2 events
make ranges that begin and end before, at and behind the border. Four particles
make a chain of mother, daughter and granddaughter beside a second primary. Three
events show a number of a generator that the counter gives too (2) and one it does
not (7), before and after events that are counted. The
bounds are constants (`MaxDigis`, `NofEvents`, `ChannelSize`, `QueueLength`,
`MaxTime`, `MaxJobs`, `MaxCalls`, `Draws`), fields of a setup (`maxMessages`,
`maxParticles`, `maxRuns`, ...), or the sets in the `MC` modules. `Asked` times
are counted to 11 in `TSBufferReads`, one more than the loop's limit.

**Deadlock** is not checked (`CHECK_DEADLOCK FALSE`): all these programs end, or
stop where an input is missing. That they do not stop too early is the liveness
of the runs: `StoresEveryEvent`, `SamplersEnd`, `RunStops`, `LoopEnds`,
`ClientsAnswered`; and, for files and servers, `AllReadBack`, which says that a
client and a server never both wait.

**Fairness.** `TSBufferReads`, `RunOnline` and `PixelPipeline` are fair in their
steps as a whole. The first is one thread; a client may stop asking, so the
requests of a client outside of the loop are not fair. In `RunOnline` the thread
of the program goes on; the interrupt and the macro's call of `Finish` or of a
further `Run` are not fair. In `PixelPipeline` nothing is repeated for ever, so
that some device always goes on is enough for all to end. In `SplitSim` every
device is a process of its own that handles a message when there is one, so each
handler is weakly fair; which device gets a chunk is not. The generator counts
as fair also in sending, because a full channel empties: the merger and the sink
never wait for it. Nothing is assumed about the order of messages of different
senders. In `ParameterServer` the server answers some client as long as one
waits; that one client is not left out is a property of the small number of
messages each sends, not of the fairness. The other modules assume none.

**What the passing runs exclude.** Each of these cases breaks a property, as
shown under "Disagreements" below: in `time_based`, `LastDataStored` speaks of
runs with a sorter task only, and all times are even; in `split_sim` the chunk
size divides the number of primaries and the acknowledgement channel is in use;
in `ts_reads` the first request is not for a window; in `param_jobs` a run does
not come back in one program and a container read from the output is not
changed; in `pixel_merge` an ASCII source has the last event only;
in `file_runs` friends come in an order the source handles; in `mbs_buffers` an event never fills the last
buffer of a stream exactly before the close, and a client of `f_evt.c` does not
skip an event over more than two buffers; event numbers begin with 1 or more, and
the number before the first of a linear tag file is not asked for.

### Findings

`pixel_whole`: `FairMQPixelMerger` compares the names of arrays by their
addresses, so nothing is joined and a merged event has the hits of the part that
came last; the README of the example says that the parts are merged.

### Disagreements seen with the models

These were seen with TLC in a variant of a passing run; the change that shows
each is named. They have no run of their own.

| source | behaviour | shown by |
| --- | --- | --- |
| `FairRootManager.cxx:876` | whether a last fill is needed is decided by the dead-time map before the digis of the start-time map are moved there; without a sorter task the last event's digis are not stored | `time_based`, `LastDataStored` without `UseSorter` |
| `FairWriteoutBuffer.cxx:108` | `WriteOutAllData` leaves a digi whose activity ends exactly one unit after the start of the last one | `time_based` with active time 1 |
| `FairMQPrimaryGeneratorDevice.cxx:97` | the number of chunks is rounded down, and the short last chunk gets its length where its end is expected | `split_sim` with events of 3 |
| the same | an event smaller than a chunk is announced as no chunk at all; the generator waits for ever | `split_sim` with events of 1 |
| `FairMQChunkMerger.cxx:148` | the iterator that is erased from has been moved, so entries of a merged event stay in the map | a claim that the map is empty at the end |
| `FairTSBufferFunctional.cxx:175` | `FindStartIndex` resets the branch index after having read on: a window asked for first gets data before the window | `ts_reads` with `OpensWithRange = TRUE` |
| `FairRuntimeDb.cxx:307`, `:310`, `:365` | versions are not saved when no cycle was written since the last save; a second list of containers, and a container read from the output and changed, are not stored | `param_jobs` with `saveOutput` counted, more `Lists`, `FillsRead = TRUE` |
| `FairRuntimeDb.cxx:103` | a program that writes to its first input and only ends does not save | `param_jobs`, `EndStoresAll` without that exception |
| `FairDetParRootFileIo.cxx:119` | a run that comes back is not read again | `param_jobs` with `RunsReturn = TRUE` |
| `ParameterMQServer.cxx:140`, `:216` | the server stops without an answer when an input lacks a container; what a device sent for a run is served for every run | `param_server`, the exceptions of `ProcessorsAnswered` and `OwnRunParameters` |
| `ParameterMQServer.cxx:212` | if the server's output is its first input, the update of a device writes a table of its run there that lacks the run's other containers, so a processor gets them from the second input, or not at all | `param_server` with `Output = "f1"`, inputs `f1` and `a1`, one processor and one device: `ParametersRight` |
| `FairMQPixelSampler.cxx:134` | a limit above the number of events makes the listener wait for ever | the exception in `SamplersEnd` (acks and limit 4) |
| `PixelDigiSource.cxx:117` | an ASCII source ends an event with the first digi of the next, and may leave out or double parts | `pixel_merge` with ASCII files of all events |
| `f_evt.c:1688` | an event that fills the stream exactly is lost at the close | `mbs_buffers` with such a size |
| `f_evt.c:1482`, `:1112` | an event larger than a stream; a skipped event over three buffers comes back in part | `mbs_buffers` with sizes 3 and 9 for connections, more skips for files |
| `fLmd.c`, `f_evt_put_buffer` | events put with a writer's buffer and buffers put directly are written in another order than the table says | `Lmd({"event","buffer"}, 6, TRUE, TRUE, Plenty, "events", 1, 0, FALSE)`, `FilesRight` |
| `fLmd.c`, `fLmdGetBuffer` | without the table the reader fails at the file's end if the rest of the table does not fit its buffer, and its last elements are lost | `Lmd({"event"}, 0, TRUE, TRUE, Plenty, "buffers", 1, 12, FALSE)`, `AllReadBack` |
| `f_evt.c:2799`, `:2990` | of a tag file that is not linear the tags are read into memory only if they are fewer than one, so that to look for an event by number uses a null pointer | `mbs_buffers`, `SearchTags` leads to `fault` |
| `f_evt.c:2962` | in a linear tag file the number before the first one gives index 0, which is taken for 1: the first event is returned where the header of the function promises `GETEVT__NOTAG`; lower numbers read the header of the tag file | `mbs_buffers`, `TagsRight` with `number >= first - 1` |
| `f_evt.c:2524` | the number expected before the first event is 0: a file numbered 0, 1, 3 is called linear with first number 3, and one numbered 0, 1, 2 not linear | `mbs_buffers`, `TagsRight` with such numbers |
| `FairFileSource.cxx:365` | friends added in the order digis, hits, digis go to the wrong chain | `file_runs` with that order, `EventsAsked` |
| `FairRunAna.cxx:393` | `RunEventReco`, `RunSingleEntry` and `RunMQ` see a change of the run one event late | `file_runs`, `ParametersOfRun` without `RunBefore` |
| `FairPrimaryGenerator.cxx:268`, `:278` | an event that a generator numbers is not counted, so its number and a counted one may be the same; if a later generator then ends, the event that was not transported is stored with that number and looks like any other | `sim_events`, a claim that stored numbers differ, or that this event has `NoEventID` |
| `FairMixedSource` | behind the end of a chain the data are those of the event before; times are drawn twice per event; a signal with a ratio not above an earlier one never comes; a run without an end does not stop | the exceptions in `MixedRight` |
| `FairDetectorList.h:21` | points of a detector without a bit field are not counted, so the filter does not see them | `sim_events` with a detector not in `Counted` |

**Seen by reading**, without a model of it:

- `FairTask.cxx:63`: the tasks below one that failed in `Init` are initialised all the
  same, but never executed or finished.
- `fLmd.c:671` compares bytes with 16-bit words: a client buffer smaller than an
  element is accepted and gives no elements. A writer that died leaves a header
  of 0 elements, so nothing of its file is read.
- `f_evt_cre_tagfile` of a file without a file header leaves the size of the
  buffers 0 and reads for ever. `f_evt_get_tagnext` behind the last tag returns
  `GETEVT__NOTAG`, its header says `GETEVT__NOMORE`. After a write that failed
  `f_evt_put_event` writes the same buffers again with the next event.
- `f_stc_read` after a time-out in the middle has lost its place. A transport
  client looks at the buffer before it looks at the status of the read, and a call
  after the disconnect uses a null pointer. `f_evt_get_close` closes the socket
  twice for connections and always returns an error. `s_tcpcomm_st_evt` is shared
  by all channels though up to four are promised (`f_evt.c:552`).
- `FairMbsStreamSource` leaves the time-out of its channel uninitialised. An idle
  stream ends the online run.
- `MRevBuffer::RevGet` returns a fragment if a buffer has no whole event; after a
  failed call the next one returns elements behind the old buffer. `RevClose`
  does not close after a SIGINT that came after the last `RevGet`; a SIGINT before
  `RevOpen` is forgotten; `FairRunOnline.cxx:210` replaces its handler.
- `FairRunIdGenerator.cxx:385`: the run id is the second of the clock, so runs
  begun in one second share it; `FairRunOnline.cxx:140` says it is unique.
- `RunEventReco` ignores what `ReadEvent` returns.

## 4. Proofs

Every theorem holds for all values of the constants that the assumption of its
module admits. These assumptions say of which type the input is, and what the
program takes for granted: files are opened with events in them, a time sequence
of a branch ascends, a time that is drawn is positive, the rate of a signal is set
and not 0, there are finitely many devices, a parameter file is ROOT or text and its tables list only what was written.

| module | theorem | says | hypothesis |
| --- | --- | --- | --- |
| `RingSorterProofs` | `TypeCorrect`, `RingStaysAligned`, `OutputIsSorted`, `OutputStaysBelowBound`, `NothingLostOrDoubled`, `FinishDelivers`, `BoundNeverFalls` | `TypeOK`, `RingAligned`, `SortedOutput`, `OutputBelowBound`, `ExactlyOnce`, `FinishDeliversAll`, `LowerBoundOnlyGrows` | |
| | `SorterKeepsPromise` | `SortsLikePromise`: the sorter implements `TimeSorter` | |
| | `RefusesOnlyLate` | `RefusedOnlyIfLate` (in no run; it follows the promise's refusals to their cause) | |
| `TimeBasedRunProofs` | `RecordsAsDetector` | `BufferRight` | |
| | `EndLeavesNothing` | `NothingLeft` | always `NoTies` |
| | `SortedBranchOrdered` | `SortedBranchInOrder`, the first part of `SortedBranch` | |
| | `SortedBranchIsTree` | `SortedBranch` | always `InWindow` |
| `TSBufferProofs` | `BufferEndsAtIndex`, `EndsProcessed` | `BufferEndsAtBranchIndex`, `EndsWhenProcessed` | |
| | `ReadsAsCursor` | `ReadsLikeCursor`: the buffer implements `TimedReader` | `OpensWithRange = FALSE` |
| | `FastSimAlwaysRight`, `HitsAlwaysRight`, `EventsAlwaysRight` | `FastSimRight`, `HitsRight`, `EventsRight` of `SimEvents` | |
| | `MothersAlwaysRight` | `MothersRight`, the first part of `TracksRight` | |
| | `TracksAlwaysRight` | `TracksRight` of `SimEvents` | `Counted = Detectors` |
| `RunAnaProofs` | `ParametersAlwaysOfRun`, `TimesAlwaysRight` | `ParametersOfRun`, `TimesRight` | |
| | `EventsAlwaysAsked` | `EventsAsked` | always `InputFits` |
| `RunOnlineProofs` | `OnlineParametersOfRun`, `OnlineStopsOrderly`, `OnlineFilledRight` | `ParametersOfRun`, `StopsOrderly`, `FilledRight` | |
| `SplitSimProofs` | `DevicesAlwaysAgree` | `DevicesAgree` | |
| | `StoresEveryEventOnce` | the safety part of `EventStore`, for the numbers of the events | |
| | `StoredEventsRight` | `StoredRight` | `ChunksDivide` |
| | `SplitKeepsPromise` | the whole safety part of `EventStore` | `ChunksDivide` |
| `PixelPipelineProofs` | `StoredAlwaysRight` | `StoredRight` | `UnmergedIsWhole` |
| | `ParametersAlwaysRight` | `ParametersRight` of `ParameterServer` | `OutputApart` |

A hypothesis is there where the code needs it: the reader gives data before the
window if a window is asked for first, a digi whose activity ends one unit after
the last start stays in the buffer, and the number of chunks in the header is
rounded down, so that events are whole only if the chunk size divides them
(`ChunksDivide`; all three under "Disagreements"); a digi that comes behind the
ring's window is refused, so all of them reach the sorted branch only if none is out
of order by more than the ring is long (`InWindow`, which TLC finds true of the
instance of `time_based_run`); without a merger a sampler's part
of an event is the whole event only if there is one file and it is not text
(`UnmergedIsWhole`); the filter of the particle stack does not see points in a detector
behind `kSTOPHERE`, so that it stores what it should only if all are put before it, as
`FairDetectorList.h:14` asks (`Counted = Detectors`); a parameter server whose output is
one of its inputs changes what that input holds for a run (`OutputApart`, under
"Disagreements" too). A run gets what
was asked for if its input fits (`InputFits`): the friend files of one layout were
added one after another, since a file behind those of another layout goes to the wrong
chain (under "Disagreements"), and have an event for each of the chain
(`FriendsInOrder`); a mixed run has an end, since without one it does not stop, no
call but `Run` has the end -1, and `RunEventReco` is not asked for more events by its
start than there are (`RangeExists`). TLC finds all inputs of `file_runs` to fit.

**Ring sorter.** The inductive invariant is

    IInv == TypeOK /\ RingAligned /\ OutputOrdered /\ Accounted

`SortedOutput` alone is not inductive: that a batch of slots may be appended
needs that everything written before is below the lower bound (`OutputOrdered`)
and that slot *k* after the bound holds exactly the elements of the *k*-th cell
above it (`RingAligned`). The second is the heart of the matter: the index is
taken modulo the ring, the bound is computed from the element, and the number of
slots written out from the index alone. Lemma `RoomMade` shows that these agree:
`MakeRoom` writes out the first *m* slots and moves the bound by *m* cells, or
writes out the whole ring and moves it by at least that. It rests on arithmetic
of quotients and remainders (`DivUnique`, `ModUnique`, `ModAdd`, `DivGe`), and on
the fact that walking the ring visits each slot once (`SlotOnto`,
`SlotInjective`). `ElementAdded` turns this into what one `AddElement` does to the
ring, the output and the elements in them. `Accounted` says that ring and output
together are what was accepted; with the order of the cells it gives
`ExactlyOnce`. The refinement maps the ring to the set of elements in it and the
lower bound to the promise's horizon; `RoomMade` also says that what is written
out is what lies below it. `RefusesOnlyLate` needs the further invariant
`BoundHasCause`: whenever the bound is not where it began, there is an accepted
element whose cell is the last of the ring above it.

**Write-out buffer.** `Recordable`, what a detector with dead time records, is a
fixed point: a digi is kept if no digi that is kept hides it. `KeepsOne` shows that
there is one such set only, by the first digi about which two of them differ;
`KeepsNext` extends it by a digi that starts after all others. So the buffer must
be shown to treat the digis in the order of their starts although they come in
another order, over many calls of `WriteOutData`. The invariant's core, `Detects`,
says of the digis moved so far that those in the dead-time map, in the array and
gone from there are the kept ones, and of those still to come that they start after
all that were moved and that what was written out is over by then. The last part
is what a unit test hardly reaches: it holds because a digi is moved only when the
event time has passed its start (`AllPassed`), and because a digi never starts
before the event it belongs to. `FillsOne` has the three cases of
`FillDataToDeadTimeMap`; `MoveDetects`, `WriteOutDetects` carry the invariant over
the loops, by induction along the order of the map. `TreeInv` and `StoredKeeps`
follow the array into the tree or, at a vetoed event, nowhere; `EndInv` says which
digis `WriteOutAllData` can leave behind: exactly those of a tie (`NoTies`).

**Sorted branch.** What the tree's sorted branch and the array of the current event
have is the output of one ring sorter, used over the whole run: `SortInv` says of the
sorter what `IInv` of `RingSorterProofs` says (aligned, its output ascending and below
the bound), of what is in it that it is what was given, and of its input that it is
the digis of tree and array, in the order in which they were stored. The lemmas about
the operators of `FairRingSorter` are those of `RingSorterProofs`, which the module
instantiates (`Ring`, `SameAdd`, `SameWriteOut`); an element carries its place in the
input, so that equal digis are counted. A vetoed event does not fill the tree but its
array has been given to the sorter: this is why order holds without a hypothesis and
completeness only of runs without a veto.

**Reading by time.** `CursorInv` says that buffer and output are what lies between
two places of the time-ordered data of the branch, whatever the layout of the
entries; the branch index is the number of the last entry read. `CountInv` relates
the requests of the loop to the time-out. The refinement maps both to the places.

**Runs.** `ParametersInv` (`RunAnaProofs`) says that the range of the loop is one of
entries that exist (`EntriesMatch`), that run id, header and tasks agree at every
place of the loop (`RunsMatch`), and that they agreed for all the tasks have seen
(`SeenMatch`). For the methods that look at the header before it is filled, what
agrees is the run of the event before (`RunBefore`), and the invariant says so
exactly; that is why they are never more than one event late. `TimesInv` says that the source's time is that of the event seen last,
and of which entry it is (`ClockMatch`); `DrawnTime` follows `SetEventTime` through its
loop. `EventsInv` says that the branches hold one event with all its friends
(`Joined`), that each event seen is the entry the caller's k-th event should be and was
filled as it was seen (`SeenWhole`), and, so that the number of events is right at the
end, how the bounds of the loop and what the caller wanted belong together
(`CountInv`, `RangeMatch`). It rests on `FriendsMade`: the loop of `AddFriendsToChain`
makes one chain for each layout, with the entry of the event for each event, by
induction over the files (`NextFile`). Of a mixed run it says that the next entry of a
chain is the number of events filled from it, plus one while an event of it is worked
on (`MixedInv`), so that header and data name the same entry. In `RunOnlineProofs`, `RunsInv` says that unpackers and tasks have
the run the framework holds (`HoldersMatch`), and that this is the run of the event
filled last until a change is seen (`LastMatch`); `StopsInv` with
`ClosedWithReason`, that there is no channel because the first file could not be
opened, or one that was reached in an earlier call of `Run`; `FilledInv`, that what
was filled is what the unpackers know of the input up to the place the source has
come to (`ReadInv`, `FillInv`), and how many events were asked for (`CountInv`).

**Devices.** The invariants of `SplitSimProofs` and `PixelPipelineProofs` say where
each part of an event is: not sent yet, in one place of one channel, in the merger,
or gone on (`PartsMade`, `PartsOnce`), and that an event goes on when the last of
its parts has come (`EventsOnce`, `MergerInv`, `SinkInv`). `ChannelPut` and
`ChannelTake` say once what a message that is sent or received changes in a family
of channels. That all devices have one run number is part of it (`DeviceInv`):
without it the parts of an event would have different keys.

That the stored events are right (`WholeInv`) adds what the parts say. Headers are
those of a chunk of the event (`HeaderRight`), and the generator is at the start of
one (`PlaceInv`). A part, wherever it is, has the tracks and points of its chunk's
primaries once and indices that are right among themselves (`PartRight`); its
entries in the merger's map come in pairs (`MapRight`), as many as were counted
(`Counted`). `AbsorbRight` joins two parts about different primaries: the shift is
the number of tracks before, so indices stay right, and nothing is there twice. With
the last part there are as many different chunks as the event has; chunks divide an
event (`ChunksAre`), so they are all of it (`AllChunks`), in whatever order they came.

**Parameter server.** It stands in `PixelPipelineProofs` because the task processors
of that example are its clients; nothing is shared but the lemmas. `ServerInv` says of
the data base, between two requests, that the inputs still hold what they held
(`InputsKept`), that a container's value is that of the version it says it was read
from (`Known`), that the versions in a run's table are those the inputs list for that
run (`VersRight`), that the static containers are what devices sent (`StaticSent`), that
a server of devices has no output between two updates (`OutputClosed`), and, the point of it, that all containers were
read for the run that is current (`RunRead`), whichever run that is. Own parameters of
a processor are not inductive without `RunRead`: a container is read again only if its
version differs from the one of the new run, so one that was left from another run
would be handed out. A lemma for each method of `FairRuntimeDb` says what it makes of a
data base and its files (`Entered`, `ReadAll`, `Wrote`, `Saved`, `Opened`), so that the
handlers are proved from these and not from the code of the methods.
A processor in the middle of its list has the values asked for so far of the new run
(`ProcessorsRight`). `SavedRight` is about the output: what a table names for a container
of a device is 0 or a cycle that has the value that was sent; that it may be 0 is the
loss at `ParameterMQServer.cxx:216`.

**Simulated events.** These theorems stand in the second half of `TSBufferProofs`;
the two share no state and no lemma of their own. The inductive invariant is

    SimInv == ShapeInv /\ LineInv /\ PointInv /\ FastInv /\ EventInv

`MovedLeadsToOriginal` alone is not inductive: that a particle moved a second time
leads in one step to where it began needs that `fFSTrackMap` only leads to earlier
particles that were not moved themselves, and that the mother of every other particle
leads to the one that really made it (`LineInv`). That both engines follow their
particles in any order and may name either number of a moved one makes no difference.
`PointInv` says that a point names, and is counted in `fPointsMap` for, the particle
that left it, which is never one that fast simulation made. `FastInv` says that the
indices of fast simulation are cleared between two calls for Geant4; within the call
`CreatedAsPushed` follows from the place of the moved particle among the secondaries
(before all, after all or between). `EventInv` says that the header
has what the event's own generators gave it, or else the counter, and that the
counter is the number of the events that got none (history `given`). `FairStack::FillTrackArray` is a renumbering: `Rank` counts the
selected particles up to one, and is shown to be a bijection between the selected
particles and the stored tracks, so that an index sent through `fIndexMap` names the
track of the same particle. For the mothers this needs that the ancestors the stack
follows, after `SelectTracks` has replaced the moved ones, are the real ones (`LinesAgree`), and
that none of them is a particle that is never stored (`LineOf`); both are shown along
the particles, since a mother is always earlier than what it made.

**How the proofs are made.** The provers have no induction over an operator, so an
induction is made over the least number for which a statement fails (`LeastNat`,
`InductionUpTo`). For the same reason sequences that are filtered or folded are
written with recursive functions, or as the sequence that has the elements of a
set in their order (`InOrder`, `OrderExists`, `OrderLists`); the recursive
`FlattenSeq` of the community modules is tied to the places where the parts lie
(`FlattenSeqParts`, `FlattenSeqAppend`).

**Only model-checked.** `ParameterJobs`, the files and servers of events with
`FilesKeepPromise`; and all liveness, which is out of the prover's reach.

## 5. Plan

What would be next, in this order.

1. *Proofs.* `TablesRight` of `ParameterJobs`, for which the lemmas on the data base
   are there; `FilesDescribed` of `MbsTags` and `AllReadBack` of `RemoteEvents`.
2. *A parameter server that restarts* while devices run: it counts devices anew and
   makes a new run number. It needs a model of the reconnecting channel, which is
   in the external message library.
3. *Worker threads of the simulation*: several engine threads that share a sink.
