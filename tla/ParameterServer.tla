--------------------------- MODULE ParameterServer ---------------------------
(***************************************************************************)
(* ParameterMQServer and its clients: task processors of a reconstruction, *)
(* which ask for their containers whenever their data belong to another    *)
(* run (FairMQPixelTaskProcessor), and simulation devices, which ask for a *)
(* run and a device number and then send their containers to be saved      *)
(* (FairMQTransportDevice, FairMQSimDevice).  Both channels are request-   *)
(* reply: a client waits for its answer, and the server answers one client *)
(* at a time, in any order.                                                *)
(***************************************************************************)
EXTENDS RuntimeDb

CONSTANTS NameOrder,    \* the containers in the order of a client's list
          Output,       \* the server's output file, or NoFile
          Topologies    \* the topologies and options considered

ASSUME NameAssumption == NameOrder \in Seq(Names) /\ ToSet(NameOrder) = Names /\ Len(NameOrder) > 0

\* The inputs are ROOT files or text, the output is a ROOT file, and what a table of the
\* files lists at the start was written.
ASSUME ServerAssumption ==
    /\ RunIds # {} /\ Output \in RootFiles \cup {NoFile}
    /\ \A s \in Topologies :
         /\ IsFiniteSet(s.devices) /\ s.maxMessages \in Nat
         /\ s.savesUpdates \in BOOLEAN /\ (s.savesUpdates => Output # NoFile)
         /\ s.inputs \in [1 .. 2 -> RootFiles \cup AsciiFiles \cup {NoFile}]
         /\ s.stocked \in [RootFiles -> [cycles : [Names -> Seq(Values)],
                                         run : [RunIds -> [Names -> Nat]]]]
         /\ \A f \in RootFiles, r \in RunIds, n \in Names :
              s.stocked[f].run[r][n] <= Len(s.stocked[f].cycles[n])

VARIABLES topology,   \* the topology and options of this run
          world,      \* the server's data base, and the files
          running,    \* the server handles requests
          nofDevices, \* fNofSimDevices
          proc,       \* the task processors
          dev,        \* the simulation devices
          saved       \* history: updates that were answered with SUCCESS

serverVars == <<topology, world, running, nofDevices, proc, dev, saved>>

db == world.db
file == world.file

TaskProcessors == topology.processors  \* task processors
Devices == topology.devices            \* simulation devices
Inputs == topology.inputs              \* first and second input of the server
Stocked == topology.stocked            \* what the files hold at the start
SavesUpdates == topology.savesUpdates  \* the server has an update channel
MaxMessages == topology.maxMessages    \* bound: data messages a task processor gets

NewRunId == CHOOSE r \in RunIds : TRUE

(***************************************************************************)
(* A processor is "ready", or "asks" the server for the container at       *)
(* position "at" of its list, or has "crashed".                            *)
(***************************************************************************)
NewProcessor == [pc |-> "ready", run |-> NoRun, at |-> 1, messages |-> 0,
                 params |-> [n \in Names |-> NoValue]]

\* A device "reports" itself, then "sends" its containers, then is "done".
NewDevice == [pc |-> "reports", run |-> NoRun, number |-> -1, at |-> 1]

\* ParameterMQServer::InitTask
ServerInit ==
    LET SetIf(d, k) == IF Inputs[k] = NoFile THEN d ELSE SetInput(d, k, Inputs[k])
        withInputs == SetIf(SetIf(NewDb, 1), 2)
    IN SaveOutput([db |-> IF SavesUpdates \/ Output = NoFile THEN withInputs
                          ELSE SetOutput(withInputs, Output),
                   file |-> Stocked])

ClientsInit ==
    /\ topology \in Topologies
    /\ world = ServerInit
    /\ running = TRUE
    /\ nofDevices = 0
    /\ proc = [p \in TaskProcessors |-> NewProcessor]
    /\ dev = [d \in Devices |-> NewDevice]
    /\ saved = {}

----------------------------------------------------------------------------
\* FairMQPixelTaskProcessor::ProcessData: data of a run reach a processor.
ProcessDataOfRun(p) ==
    /\ proc[p].pc = "ready" /\ proc[p].messages < MaxMessages
    /\ \E r \in RunIds :
         proc' = [proc EXCEPT ![p].run = r, ![p].messages = @ + 1, ![p].at = 1,
                              ![p].pc = IF r = proc[p].run THEN "ready" ELSE "asks"]
    /\ UNCHANGED <<topology, world, running, nofDevices, dev, saved>>

\* UpdateParameters puts the answer into the list and asks for the next one.
TakeReply(p, value) ==
    LET n == NameOrder[proc[p].at]
    IN proc' = [proc EXCEPT ![p].params[n] = value,
                            ![p].at = IF @ = Len(NameOrder) THEN 1 ELSE @ + 1,
                            ![p].pc = IF proc[p].at = Len(NameOrder) THEN "ready" ELSE "asks"]

\* Mutant: the request is made in the run the data base is in.
ForRequestCurrent(p) ==
    EnterRun([world EXCEPT !.db = AddContainer(@, NameOrder[proc[p].at], NewContainer)],
             IF db.current = NoRun THEN proc[p].run ELSE db.current)

\* The data base in the run of the request, with the container it names.
ForRequest(p) ==
    EnterRun([world EXCEPT !.db = AddContainer(@, NameOrder[proc[p].at], NewContainer)],
             proc[p].run)

ProcessRequest(p) ==
    /\ running /\ proc[p].pc = "asks"
    /\ \E in \in {ForRequest(p)} :
         /\ InitSucceeds(in)
         /\ \E out \in {ReadContainers(in)} :
              /\ world' = out
              /\ TakeReply(p, out.db.cont[NameOrder[proc[p].at]].value)
    /\ UNCHANGED <<topology, running, nofDevices, dev, saved>>

\* initContainers fails: the handler returns false without an answer, and the
\* device leaves its running state.
RequestFails(p) ==
    /\ running /\ proc[p].pc = "asks"
    /\ \E in \in {ForRequest(p)} : ~InitSucceeds(in) /\ world' = ReadContainers(in)
    /\ running' = FALSE
    /\ UNCHANGED <<topology, nofDevices, proc, dev, saved>>

----------------------------------------------------------------------------
\* ProcessUpdate of a short message: "ReportSimDevice".
ReportSimDevice(d) ==
    /\ running /\ SavesUpdates /\ dev[d].pc = "reports"
    /\ dev' = [dev EXCEPT ![d] = [@ EXCEPT !.pc = "sends", !.run = NewRunId,
                                           !.number = nofDevices]]
    /\ nofDevices' = nofDevices + 1
    /\ UNCHANGED <<topology, world, running, proc, saved>>

\* The output is opened for every update, and closed again.
OpenForUpdate(w, n, v) ==
    LET container == [NewContainer EXCEPT !.value = v, !.changed = TRUE, !.static = TRUE]
    IN [w EXCEPT !.db = SetOutput(AddContainer(w.db, n, container), Output)]

\* ProcessUpdate of a container.
ProcessUpdate(d) ==
    LET n == NameOrder[dev[d].at]
    IN /\ running /\ dev[d].pc = "sends"
       /\ \E v \in Values, in \in {EnterRun(world, dev[d].run)} :
            /\ InitSucceeds(in)
            /\ \E written \in {SaveOutput(OpenForUpdate(ReadContainers(in), n, v))} :
                 world' = CloseOutput(written)
            /\ saved' = IF n \in in.db.list THEN saved
                        ELSE saved \cup {[run |-> dev[d].run, name |-> n, value |-> v]}
       /\ dev' = [dev EXCEPT ![d].at = @ + 1,
                             ![d].pc = IF dev[d].at = Len(NameOrder) THEN "done" ELSE "sends"]
       /\ UNCHANGED <<topology, running, nofDevices, proc>>

UpdateFails(d) ==
    /\ running /\ dev[d].pc = "sends"
    /\ \E in \in {EnterRun(world, dev[d].run)} : ~InitSucceeds(in) /\ world' = ReadContainers(in)
    /\ running' = FALSE
    /\ UNCHANGED <<topology, nofDevices, proc, dev, saved>>

\* The server is stopped between two requests; ~ParameterMQServer deletes the
\* data base.
StopServer ==
    /\ running
    /\ \A p \in TaskProcessors : proc[p].pc = "ready" /\ proc[p].messages = MaxMessages
    /\ \A d \in Devices : dev[d].pc = "done"
    /\ world' = Destroy(world)
    /\ running' = FALSE
    /\ UNCHANGED <<topology, nofDevices, proc, dev, saved>>

ServerNext ==
    \/ \E p \in TaskProcessors : ProcessDataOfRun(p) \/ ProcessRequest(p) \/ RequestFails(p)
    \/ \E d \in Devices : ReportSimDevice(d) \/ ProcessUpdate(d) \/ UpdateFails(d)
    \/ StopServer

\* The sockets of the clients are served in turn.
Clients == UNION {s.processors \cup s.devices : s \in Topologies}

Answer(c) ==
    \/ c \in TaskProcessors /\ (ProcessRequest(c) \/ RequestFails(c))
    \/ c \in Devices /\ (ReportSimDevice(c) \/ ProcessUpdate(c) \/ UpdateFails(c))

\* While a client waits the server answers one of them.  The clients send a
\* bounded number of messages, so that each has its turn.
ServerFairness == WF_serverVars(\E c \in Clients : Answer(c))

ServerSpec == ClientsInit /\ [][ServerNext]_serverVars /\ ServerFairness
----------------------------------------------------------------------------
ServerTypeOK ==
    /\ db.list \subseteq Names
    /\ \A n \in Names : db.cont[n].value \in Values \cup {NoValue}
    /\ \A r \in RunIds, n \in Names : db.vers[r][n].root \in Nat
    /\ db.current \in RunIds \cup {NoRun}
    /\ \A p \in TaskProcessors : proc[p].params \in [Names -> Values \cup {NoValue}]
    /\ nofDevices \in 0..Cardinality(Devices)

\* What the inputs hold for a container in a run.
TableValue(f, r, n) ==
    LET version == Stocked[f].run[r][n]
    IN IF version > 0 THEN KeyAt(Stocked[f].cycles[n], version) ELSE NoValue

FromInput(k, r, n) ==
    LET f == Inputs[k]
    IN CASE f = NoFile -> NoValue
         [] f \in RootFiles -> TableValue(f, r, n)
         [] f \in AsciiFiles -> Text[f][n]

Parameter(r, n) == IF FromInput(1, r, n) # NoValue THEN FromInput(1, r, n) ELSE FromInput(2, r, n)

\* A processor that works on data of a run has that run's parameters, whatever
\* runs the other processors asked the same data base for in between; but a
\* container that a device sent to the same server is served for every run.
OwnRunParameters ==
    \A p \in TaskProcessors :
        proc[p].pc = "ready" /\ proc[p].run # NoRun
            => \A n \in Names : \/ proc[p].params[n] = Parameter(proc[p].run, n)
                                \/ \E u \in saved : u.name = n /\ proc[p].params[n] = u.value

\* What a table says can be read, whenever the server is stopped.
Readable(f, r, n) == file[f].run[r][n] > 0 /\ file[f].cycles[n] # << >>
ValueIn(f, r, n) == KeyAt(file[f].cycles[n], file[f].run[r][n])

\* The tables never name another value than the one that was sent.
SavedTrue ==
    \A u \in saved : Readable(Output, u.run, u.name) => ValueIn(Output, u.run, u.name) = u.value

\* The inputs have every container for every run.
InputsComplete == \A r \in RunIds, n \in Names : Parameter(r, n) # NoValue

\* A processor that asks for its parameters gets them all, if the inputs have
\* them; if one lacks a container the server stops without an answer.
ProcessorsAnswered ==
    \A p \in Clients :
        (p \in TaskProcessors /\ InputsComplete /\ proc[p].pc = "asks")
            ~> (p \in TaskProcessors /\ proc[p].pc = "ready")

\* A device that sends its containers gets an answer for each, unless a
\* processor asked the same server for one that the inputs lack.
DevicesAnswered ==
    \A d \in Clients :
        (d \in Devices /\ TaskProcessors = {} /\ dev[d].pc = "reports")
            ~> (d \in Devices /\ dev[d].pc = "done")

\* What the one data base hands to its clients and writes for them does not get mixed
\* up between their runs.
ParametersRight == ServerTypeOK /\ OwnRunParameters /\ SavedTrue

\* Every client that asks is answered, as far as the inputs allow.
ClientsAnswered == ProcessorsAnswered /\ DevicesAnswered
=============================================================================
