----------------------------- MODULE MCMbsFiles -----------------------------
(***************************************************************************)
(* Files in buffers of twelve units, half of it header, in streams of      *)
(* three: events that fit a buffer in many ways, fill it, span two buffers *)
(* or more than the stream; and a reader that skips buffers between events *)
(* that span at most two.                                                  *)
(*                                                                         *)
(* Files of fLmd.c, with and without a buffer of the writer's, with and    *)
(* without a table that must grow, small offsets and a disk that is full   *)
(* after any number of units; read one by one with a buffer of any size,   *)
(* by number, and in buffers of the client's.                              *)
(*                                                                         *)
(* Tag files with all events or some, numbered without a gap from the      *)
(* first on or not, and files without one, read forward.                   *)
(*                                                                         *)
(* The same events from a stream, a transport and a remote event server,   *)
(* which may have nothing once, skip, shut down or die; two calls fail.    *)
(***************************************************************************)
EXTENDS MbsTags

Old(sizes, maxEvents, maxSkips) ==
    [format |-> "buffers", sizes |-> sizes, maxEvents |-> maxEvents, maxSkips |-> maxSkips]

Lmd(puts, buffer, index, wide, room, reader, getBuffer, clientBuffer, byIndex) ==
    [format |-> "fLmd", sizes |-> {2, 3, 5}, maxEvents |-> 3, maxSkips |-> 0, puts |-> puts,
     buffer |-> buffer, index |-> index, wide |-> wide, room |-> room, client |-> reader,
     getBuffer |-> getBuffer, clientBuffer |-> clientBuffer, byIndex |-> byIndex]

Conn(format, timeOut) ==
    [format |-> format, sizes |-> {3, 7}, maxEvents |-> 4, maxSkips |-> 0, timeOut |-> timeOut,
     maxFails |-> 2, maxIdle |-> 1]

Rev(sizes, maxEvents, evtMax, maxOpens, exit) ==
    [format |-> "events", sizes |-> sizes, maxEvents |-> maxEvents, maxSkips |-> 0, maxFails |-> 2, maxIdle |-> 1,
     evtMax |-> evtMax, maxOpens |-> maxOpens, exitCli |-> exit]

Tags(sizes, maxEvents, counts, filter, tagged) ==
    [format |-> "tags", sizes |-> sizes, maxEvents |-> maxEvents, maxSkips |-> 0, counts |-> counts,
     filter |-> filter, tagged |-> tagged]

\* A disk that does not fill up.
Plenty == 100

MCSetups ==
    {Old({2, 3, 5, 7, 9, 13}, 4, 0), Old({2, 5, 7}, 5, 2)}
    \cup {Lmd({"event"}, b, TRUE, TRUE, Plenty, "events", g, 0, FALSE) : b \in {0, 4, 6}, g \in {1, 4, 7}}
    \cup {Lmd({"event"}, b, i, TRUE, r, "events", 1, 0, FALSE) : b \in {0, 6}, i \in BOOLEAN, r \in {4, 8}}
    \cup {Lmd({"event", "buffer"}, 0, i, i, Plenty, "buffers", g, 5, i) : i \in BOOLEAN, g \in {6, 12}}
    \cup {[Lmd({"event", "buffer"}, 0, TRUE, w, r, "indexed", 1, 0, TRUE) EXCEPT !.sizes = {2, 5}] :
            w \in BOOLEAN, r \in {Plenty, 12}}
    \cup {Lmd({"event"}, 0, TRUE, FALSE, Plenty, "buffers", 1, c, TRUE) : c \in {5, 9}}
    \cup {Conn(f, t) : f \in {"stream", "transport"}, t \in BOOLEAN}
    \cup {Rev({2, 3, 7}, 3, 0, 1, FALSE), Rev({2, 7}, 4, 0, 1, TRUE), Rev({2, 7}, 3, 2, 2, TRUE)}
    \cup {Tags({2, 5, 13}, 4, <<2, 3, 4, 5>>, {}, TRUE), Tags({2, 5, 13}, 3, <<1, 2, 4>>, {}, TRUE),
          Tags({5, 13}, 4, <<1, 2, 3, 5>>, {2, 3}, TRUE), Tags({2, 13}, 4, <<1, 2, 3, 5>>, {2, 5}, TRUE)}
    \cup {Tags({2, 5, 13}, 3, <<2, 3, 5>>, {}, FALSE)}
=============================================================================
