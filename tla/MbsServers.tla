------------------------------ MODULE MbsServers ------------------------------
(***************************************************************************)
(* f_evt_get_event over a connection: to a stream server, which answers a  *)
(* request with a stream of buffers, or to a transport server, which sends *)
(* buffers as they come.  FairMbsStreamSource is a client of the first.    *)
(*                                                                         *)
(* External: the data acquisition, which packs the buffers as the writer   *)
(* of MbsBuffers does, the server, which may skip streams, have nothing to *)
(* send, shut down or die, and the network.  A number n > 0 stands for the *)
(* n-th buffer.  A time-out in the middle of a buffer is not modelled.     *)
(***************************************************************************)
EXTENDS MbsFiles

VARIABLES server, \* its streams, the one it sends next, and what is under way
          client  \* f_evt_get_newbuf, and history: what it looked at and lost

serverVars == <<server, client>>

IsStream == setup.format = "stream"
IsTransport == setup.format = "transport"
IsConnection == IsStream \/ IsTransport
MaxFails == setup.maxFails  \* bound: calls that fail
MaxIdle == setup.maxIdle    \* bound: answers without data
UnderWay == 2               \* bound: buffers a transport server is ahead

NoData == 0     \* a buffer without events
Farewell == -1  \* a buffer of a server that shuts down: l_evt is negative

InitServers ==
    /\ InitFiles
    /\ server = [up |-> TRUE, owed |-> 0, next |-> 1, chan |-> <<>>, idle |-> 0, ends |-> <<>>,
                 skipped |-> FALSE]
    /\ client = [pc |-> "idle", read |-> <<>>, io |-> <<>>, fresh |-> TRUE, fails |-> 0,
                 last |-> 0, seen |-> {}, lost |-> FALSE, gap |-> FALSE, cut |-> {}]

FromFiles == NextFiles /\ UNCHANGED serverVars

\* The data acquisition; what it writes at once is a stream.
Acquire ==
    /\ setup.format \in {"stream", "transport", "events"} /\ Pack
    /\ server' = [server EXCEPT !.ends = IF Len(file') > Len(file) THEN Append(@, Len(file')) ELSE @]
    /\ UNCHANGED <<lmdVars, client>>

Running == pc = "closed" /\ UNCHANGED <<writer, lmdVars>>

-----------------------------------------------------------------------------
(* The server. *)

StreamOf(s) ==
    LET before == IF s = 1 THEN 0 ELSE server.ends[s - 1]
    IN  [b \in 1..Bufs |-> IF before + b <= server.ends[s] THEN before + b ELSE NoData]

Answer(items) == [server EXCEPT !.owed = @ - 1, !.chan = @ \o items]
All(item) == [b \in 1..Bufs |-> item]

ServeStream ==
    /\ Running /\ IsStream /\ server.up /\ server.owed > 0
    /\ \E s \in server.next..Len(server.ends) :
          server' = [Answer(StreamOf(s)) EXCEPT !.next = s + 1, !.skipped = @ \/ s > server.next]
    /\ UNCHANGED <<rd, client>>

ServeNothing ==
    /\ Running /\ IsStream /\ server.up /\ server.owed > 0 /\ server.idle < MaxIdle
    /\ server' = [Answer(All(NoData)) EXCEPT !.idle = @ + 1]
    /\ UNCHANGED <<rd, client>>

SendBuffer ==
    /\ Running /\ IsTransport /\ server.up /\ server.next <= Len(file)
    /\ Len(server.chan) < UnderWay
    /\ server' = [server EXCEPT !.chan = Append(@, server.next), !.next = @ + 1]
    /\ UNCHANGED <<rd, client>>

ShutDown ==
    /\ Running /\ server.up
    /\ \/ IsStream /\ server.owed > 0 /\ server' = [Answer(All(Farewell)) EXCEPT !.up = FALSE]
       \/ IsTransport /\ server' = [server EXCEPT !.chan = Append(@, Farewell), !.up = FALSE]
    /\ UNCHANGED <<rd, client>>

Die ==
    /\ Running /\ IsConnection /\ server' = [server EXCEPT !.up = FALSE]
    /\ UNCHANGED <<rd, client>>

-----------------------------------------------------------------------------
(* f_evt_get_newbuf. *)

\* A call of f_evt_get_event that returns an error: the part of an event it had
\* is forgotten by the next call.
Failed(c) == [c EXCEPT !.read = <<>>, !.fails = @ + 1, !.lost = @ \/ rd.part # <<>>,
                       !.cut = IF rd.part = <<>> THEN @ ELSE @ \cup {Head(rd.part).frag.id}]
Fail(c) == client' = Failed(c) /\ rd' = [rd EXCEPT !.part = <<>>]

Wants == Running /\ IsConnection /\ client.pc = "idle" /\ ~More /\ client.io = <<>> /\ client.fails < MaxFails

\* A stream server is asked for the next stream.
Ask ==
    /\ Wants
    /\ client' = [client EXCEPT !.pc = "reads"]
    /\ server' = IF IsStream THEN [server EXCEPT !.owed = @ + 1] ELSE server
    /\ UNCHANGED rd

AskFails == Wants /\ IsStream /\ ~server.up /\ Fail(client) /\ UNCHANGED server

\* f_stc_read of a buffer.
Arrived == Append(client.read, Head(server.chan))
Wanted == IF IsStream THEN Bufs ELSE 1
Reads == Running /\ client.pc = "reads"
Receives == Reads /\ server.chan # <<>> /\ server' = [server EXCEPT !.chan = Tail(@)]
Filled == Len(Arrived) = Wanted
Here(pcNext) == [client EXCEPT !.pc = pcNext, !.read = <<>>, !.fresh = FALSE]

ReadBuffer == Receives /\ ~Filled /\ client' = [client EXCEPT !.read = Arrived] /\ UNCHANGED rd

TakeBuffers ==
    /\ Receives /\ Filled /\ Head(Arrived) # Farewell
    /\ IsStream => Head(Arrived) # NoData
    /\ client' = [Here("idle") EXCEPT !.io = Arrived]
    /\ UNCHANGED rd

\* If the first buffer is empty, all are empty, the code says, and returns a time-out.
TakenForEmpty == Receives /\ Filled /\ IsStream /\ Head(Arrived) = NoData /\ Fail(Here("idle"))

\* The server says farewell: the client closes the connection.
Disconnect == Receives /\ Filled /\ Head(Arrived) = Farewell /\ Fail(Here("closed"))

\* f_stc_read gets no data in time.  A client of a transport server then looks for
\* a farewell in its buffer, which at first holds anything.
TimeOut ==
    /\ Reads /\ setup.timeOut /\ UNCHANGED server
    /\ \/ Fail([client EXCEPT !.pc = "idle"])
       \/ IsTransport /\ client.fresh /\ Fail([client EXCEPT !.pc = "closed"])

\* The connection has ended: f_stc_read gives up after many tries.
ReadEnds ==
    /\ Reads /\ server.chan = <<>> /\ ~server.up /\ UNCHANGED server
    /\ \/ Fail([client EXCEPT !.pc = "idle"])
       \/ IsTransport /\ client.fresh /\ Fail([client EXCEPT !.pc = "closed"])

\* A call after the connection was closed: the write fails; without a write, the code
\* looks for a farewell in a buffer that is NULL.
CallClosed ==
    /\ Running /\ client.pc = "closed" /\ client.fails < MaxFails /\ ~More /\ UNCHANGED server
    /\ IF IsStream THEN Fail(client) ELSE client' = [client EXCEPT !.pc = "crashed"] /\ UNCHANGED rd

\* f_evt_get_event goes on to the next buffer that was read.
NextBuffer ==
    /\ Running /\ client.pc = "idle" /\ ~More /\ client.io # <<>> /\ UNCHANGED server
    /\ LET n == Head(client.io)
           next == [client EXCEPT !.io = Tail(@)]
       IN  IF n <= 0 THEN client' = next /\ rd' = [rd EXCEPT !.cur = 0, !.no = 0]
           ELSE /\ rd' = Load(n)
                /\ client' = [next EXCEPT !.last = n, !.seen = @ \cup {n},
                                          !.lost = @ \/ n # client.last + 1,
                                          !.gap = @ \/ n # client.last + 1]

\* The rest of f_evt_get_event is that of a file.
UnpackBuffer ==
    /\ IsConnection /\ Unpack /\ UNCHANGED <<lmdVars, server>>
    /\ client' = [client EXCEPT !.lost = @ /\ ~(Len(rd'.got) > Len(rd.got) /\ EventOf(Last(rd'.got)) # 0)]

NextServers ==
    \/ FromFiles \/ Acquire
    \/ ServeStream \/ ServeNothing \/ SendBuffer \/ ShutDown \/ Die
    \/ Ask \/ AskFails \/ ReadBuffer \/ TakeBuffers \/ TakenForEmpty \/ Disconnect \/ TimeOut \/ ReadEnds
    \/ CallClosed \/ NextBuffer \/ UnpackBuffer

-----------------------------------------------------------------------------
\* A client of a stream server never waits for a stream it has not asked for
\* (f_evt_get_newbuf).
NeverBothWait == IsStream /\ client.pc = "reads" /\ server.up /\ server.chan = <<>> => server.owed > 0

\* Buffers are lost only if the server skipped them or a call failed; what f_evt_get_event
\* returns is an event, but for a rest of an event whose call failed; and every event is
\* got of whose buffers none was lost.
HasEvent(n, id) == \E f \in ToSet(file[n].frags) : f.id = id
NotEvents == SelectSeq(Got, LAMBDA id : id = 0)
ArrivedIsGot ==
    IsConnection =>
        /\ client.gap => server.skipped \/ client.fails > 0
        /\ Len(NotEvents) <= Cardinality(client.cut)
        /\ ~More => \A id \in InFile :
              {n \in DOMAIN file : HasEvent(n, id)} \subseteq client.seen /\ id \notin client.cut
                 => id \in ToSet(Got)
=============================================================================
