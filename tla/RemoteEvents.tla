----------------------------- MODULE RemoteEvents -----------------------------
(***************************************************************************)
(* MRevBuffer, the client of a remote event server, as FairRemoteSource    *)
(* and programs of their own use it.  The client asks for one buffer after *)
(* another and takes the whole events out of it; while the server has no   *)
(* data it sends dummies, and the client waits on.  SIGINT is handled by   *)
(* exitCli, which only leaves a mark (imySig) for the client to find; a    *)
(* run of FairRunOnline puts a handler of its own in its place.            *)
(*                                                                         *)
(* External: the server, the data acquisition and the network, as in       *)
(* MbsServers, and the program, which opens, gets and closes.              *)
(***************************************************************************)
EXTENDS MbsServers

VARIABLE rev  \* MRevBuffer; buf is the buffer in piBuf, at the element of piNextEvt; and
              \* history: the buffers taken since RevOpen, what was given and what was lost

remoteVars == <<allVars, serverVars, rev>>

IsRemote == setup.format = "events"
EvtMax == setup.evtMax     \* events the program asks RevOpen for, 0 for all
MaxOpens == setup.maxOpens \* bound: calls of RevOpen

Dummy == 0     \* a buffer that says there are no events
Info == -2     \* the answer to the first request
Closing == -3  \* a length of 0, which says that the server closes the connection

InitRemote ==
    /\ InitServers
    /\ rev = [pc |-> "closed", socket |-> FALSE, marked |-> FALSE, evtNo |-> 0, evtRel |-> 0, evtBuf |-> 0,
              buf |-> 0, at |-> 0, opens |-> 0, got |-> <<>>, last |-> 0, taken |-> {}, lost |-> FALSE,
              gap |-> FALSE, fails |-> 0, odd |-> {}, gotAtMark |-> -1]

FromServers == NextServers /\ UNCHANGED rev

-----------------------------------------------------------------------------
(* The server answers a request; before it has data it sends dummies. *)

Serves == Running /\ IsRemote /\ server.up /\ server.owed > 0 /\ UNCHANGED <<rd, client, rev>>
Send(item) == [server EXCEPT !.chan = Append(@, item)]

SendInfo == Serves /\ rev.pc = "info" /\ server' = [Send(Info) EXCEPT !.owed = @ - 1]

SendDummy ==
    /\ Serves /\ rev.pc = "wait" /\ server.idle < MaxIdle
    /\ server' = [Send(Dummy) EXCEPT !.idle = @ + 1]

SendEvents ==
    /\ Serves /\ rev.pc = "wait"
    /\ \E n \in server.next..Len(file) :
          server' = [Send(n) EXCEPT !.owed = @ - 1, !.next = n + 1, !.skipped = @ \/ n > server.next]

SendClosing == Serves /\ rev.pc = "wait" /\ server' = [Send(Closing) EXCEPT !.up = FALSE, !.owed = @ - 1]

LeaveClient ==
    /\ Running /\ IsRemote /\ server.up /\ rev.socket
    /\ server' = [server EXCEPT !.up = FALSE]
    /\ UNCHANGED <<rd, client, rev>>

-----------------------------------------------------------------------------
Calls == Running /\ IsRemote /\ UNCHANGED <<rd, client>>

\* RevOpen: a connection that is open is used on, and so is the buffer that is there.
\* Otherwise a server, perhaps a new one, has nothing under way for it.
RevOpen ==
    /\ Calls /\ rev.pc = "closed" /\ rev.opens < MaxOpens
    /\ IF rev.socket
       THEN rev' = [rev EXCEPT !.pc = "idle", !.evtNo = 0, !.opens = @ + 1] /\ UNCHANGED server
       ELSE /\ server' = [server EXCEPT !.up = TRUE, !.owed = 0, !.chan = <<>>]
            /\ rev' = [rev EXCEPT !.pc = "idle", !.evtNo = -1, !.opens = @ + 1, !.socket = TRUE,
                                  !.marked = FALSE, !.gotAtMark = -1, !.fails = 0,
                                  !.taken = {}, !.lost = @ \/ rev.opens > 0]

\* gEndGet of RevGet after an error or a SIGINT.
EndGet(r) == [r EXCEPT !.pc = "idle", !.socket = FALSE, !.marked = FALSE, !.fails = @ + 1]

\* The program calls RevGet, a few times even after a failure (bound: MaxFails).
Gets == rev.pc = "idle" /\ rev.fails < MaxFails

\* RevGet for the first time asks for the info buffer.
GetFirst ==
    /\ Calls /\ Gets /\ rev.evtNo = -1
    /\ IF rev.socket THEN rev' = [rev EXCEPT !.pc = "info"] /\ server' = [server EXCEPT !.owed = @ + 1]
                     ELSE rev' = EndGet(rev) /\ UNCHANGED server

TakeInfo ==
    /\ Calls /\ rev.pc = "info" /\ server.chan # <<>>
    /\ server' = [server EXCEPT !.chan = Tail(@)]
    /\ rev' = [rev EXCEPT !.pc = "ask", !.evtNo = 0]

\* The elements of the buffer that are not whole events, as the code counts them.
Fragments == IF rev.buf = 0 THEN 0 ELSE file[rev.buf].hBegin + file[rev.buf].hEnd
Exhausted == rev.evtRel + Fragments >= rev.evtBuf
AllGot == EvtMax > 0 /\ rev.evtNo >= EvtMax

\* All events that were asked for have been got.
GetNoMore ==
    /\ Calls /\ Gets /\ AllGot /\ rev.marked
    /\ rev' = EndGet(rev) /\ UNCHANGED server

GetNext ==
    /\ Calls /\ Gets /\ rev.evtNo >= 0 /\ ~AllGot /\ ~Exhausted
    /\ rev' = [rev EXCEPT !.pc = "have", !.evtRel = @ + 1, !.at = @ + 1]
    /\ UNCHANGED server

\* The request for a buffer, or that no more are needed after a SIGINT.
AskBuffer ==
    /\ Calls
    /\ \/ rev.pc = "ask"
       \/ Gets /\ rev.evtNo >= 0 /\ ~AllGot /\ Exhausted
    /\ LET asked == [rev EXCEPT !.evtRel = 0]
       IN  IF rev.socket /\ ~rev.marked
           THEN rev' = [asked EXCEPT !.pc = "wait"] /\ server' = [server EXCEPT !.owed = @ + 1]
           ELSE rev' = EndGet(asked) /\ UNCHANGED server

\* What was sent is received; a dummy is not, and the client waits on.
TakeBuffer ==
    /\ Calls /\ rev.pc = "wait" /\ server.chan # <<>>
    /\ server' = [server EXCEPT !.chan = Tail(@)]
    /\ LET n == Head(server.chan)
       IN  rev' = IF n = Closing \/ rev.marked THEN EndGet(rev)
                  ELSE IF n = Dummy THEN [rev EXCEPT !.evtBuf = 0]
                  ELSE [rev EXCEPT !.pc = "have", !.buf = n, !.evtBuf = file[n].evt, !.evtRel = 1,
                                   !.at = 1 + file[n].hEnd, !.last = n, !.taken = @ \cup {n},
                                   !.lost = @ \/ n # rev.last + 1 \/ file[n].hEnd = 1,
                                   !.gap = @ \/ n # rev.last + 1]

ConnectionEnds ==
    /\ Calls /\ rev.pc \in {"info", "wait"} /\ server.chan = <<>> /\ ~server.up
    /\ rev' = EndGet(rev) /\ UNCHANGED server

\* The name of the element piNextEvt points to, or 0 if it is no event.
ElementAt ==
    LET frags == file[rev.buf].frags
    IN  IF rev.at \in DOMAIN frags /\ frags[rev.at].len = written[frags[rev.at].id] THEN frags[rev.at].id ELSE 0

\* The end of RevGet.
GiveEvent ==
    /\ Calls /\ rev.pc = "have" /\ UNCHANGED server
    /\ LET counted == [rev EXCEPT !.evtNo = IF EvtMax > 0 THEN @ + 1 ELSE @]
       IN  IF rev.marked THEN rev' = EndGet([counted EXCEPT !.lost = TRUE])
           ELSE rev' = [counted EXCEPT !.pc = "idle", !.got = Append(@, ElementAt),
                                       !.lost = @ /\ ElementAt = 0,
                                       !.odd = IF ElementAt = 0 /\ rev.fails = 0 THEN @ \cup {rev.buf} ELSE @]

\* RevClose: after a SIGINT it relies on RevGet to have closed the connection.
RevClose ==
    /\ Calls /\ rev.pc = "idle" /\ UNCHANGED server
    /\ rev' = IF rev.marked \/ ~rev.socket THEN [rev EXCEPT !.pc = "closed"]
              ELSE [rev EXCEPT !.pc = "closed", !.socket = FALSE]

\* exitCli, once per connection.
exitCli ==
    /\ Calls /\ setup.exitCli /\ rev.opens > 0 /\ rev.gotAtMark = -1 /\ UNCHANGED server
    /\ rev' = [rev EXCEPT !.marked = TRUE, !.gotAtMark = Len(rev.got)]

NextRemote ==
    \/ FromServers
    \/ SendInfo \/ SendDummy \/ SendEvents \/ SendClosing \/ LeaveClient
    \/ RevOpen \/ GetFirst \/ TakeInfo \/ GetNoMore \/ GetNext \/ AskBuffer \/ TakeBuffer
    \/ ConnectionEnds \/ GiveEvent \/ RevClose \/ exitCli

SpecRemote == InitRemote /\ [][NextRemote]_remoteVars

-----------------------------------------------------------------------------
\* What RevGet and RevClose promise, SIGINT or not:
\* - RevGet never waits for an answer to a request it has not sent;
\* - once SIGINT is marked nothing is given until a call has returned nothing;
\* - RevClose leaves no connection open, unless SIGINT came after the last RevGet;
\* - buffers are missed only if the server skipped them or the program reconnected;
\* - what is given is an event, but for a buffer without a whole event and for what
\*   is asked for after a call has failed;
\* - the next buffer is asked for when all whole events of those before were given.
WholeIn(n) == {f.id : f \in {g \in ToSet(file[n].frags) : g.len = written[g.id]}}
RemoteRight ==
    IsRemote =>
        /\ rev.pc \in {"info", "wait"} /\ server.up /\ server.chan = <<>> => server.owed > 0
        /\ rev.gotAtMark # -1 /\ rev.fails = 0 => Len(rev.got) = rev.gotAtMark
        /\ rev.pc = "closed" /\ ~rev.marked => ~rev.socket
        /\ rev.gap => server.skipped \/ rev.opens > 1
        /\ \A n \in rev.odd : WholeIn(n) = {}
        /\ rev.pc = "wait" /\ rev.fails = 0 => \A n \in rev.taken : WholeIn(n) \subseteq ToSet(rev.got)

\* Nothing is lost of what was put in a file or arrived over a connection but what the
\* code gives up by design: the end of a file that was not closed, an event a call
\* failed in, and, with MRevBuffer, events in more than one buffer.
AllReadBack == NothingLost /\ LmdReadBack /\ NeverBothWait /\ ArrivedIsGot /\ RemoteRight

\* What is read of a file of either kind, or from a server of any of the three kinds, are
\* the events that were put, whole, in their order and each once, whatever happened to
\* the writer, the server or the connection (f_evt_get_event, fLmdGetElement, RevGet).
EventPromise == INSTANCE EventFile WITH
    written <- IF IsLmd THEN [n \in DOMAIN lmd.put |-> n] ELSE Written,
    got <- CASE IsLmd -> get.got
             [] IsRemote -> SelectSeq(rev.got, LAMBDA id : id # 0)
             [] IsConnection -> SelectSeq(Got, LAMBDA id : id # 0)
             [] OTHER -> Got,
    skipping <- CASE IsLmd -> FALSE [] IsRemote -> rev.lost [] IsConnection -> client.lost [] OTHER -> rd.asked
FilesKeepPromise == EventPromise!Spec
=============================================================================
