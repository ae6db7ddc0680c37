------------------------------- MODULE MbsFiles -------------------------------
(***************************************************************************)
(* The files of f_evt.c: f_evt_put_open takes fLmd.c for a new file if the *)
(* stream has no buffers (l_stream is 0), and f_evt_get_open if the file   *)
(* begins as its files do; the other files are those of MbsBuffers.  What  *)
(* both kinds of files promise is the same, EventFile.                     *)
(*                                                                         *)
(* A file of fLmd.c is written by f_evt_put_event and f_evt_put_buffer and *)
(* read by f_evt_get_event, or by a client of fLmd.c itself, which asks    *)
(* for elements by their number or for a buffer of elements.               *)
(***************************************************************************)
EXTENDS MbsBuffers, LmdFile

VARIABLES lmd,      \* the writer of fLmd.c: [pc, w, f, put, calls]
          get       \* the reader: [open, r, got, indexed]

lmdVars == <<lmd, get>>
allVars == <<vars, lmd, get>>

IsLmd == setup.format = "fLmd"

InitFiles ==
    /\ Init
    /\ lmd = [pc |-> IF IsLmd THEN "open" ELSE "none", put |-> <<>>, calls |-> 0,
              w |-> IF IsLmd THEN PutOpen(setup.buffer, setup.index, setup.wide) ELSE <<>>,
              f |-> IF IsLmd THEN NewFile(setup.room) ELSE <<>>]
    /\ get = [open |-> FALSE, r |-> <<>>, got |-> <<>>, indexed |-> {}, ended |-> FALSE]

OldFormat == setup.format = "buffers" /\ Next /\ UNCHANGED lmdVars

\* The elements put so far, named by the numbers of those that were accepted.
Element(n, size) == [id |-> n, size |-> size]

Put(x, es) ==
    /\ lmd' = [lmd EXCEPT !.w = x.w, !.f = x.f, !.calls = @ + 1,
                          !.put = IF x.ok THEN @ \o [n \in DOMAIN es |-> es[n].size] ELSE @]
    /\ UNCHANGED <<vars, get>>

\* f_evt_put_event
LmdPutEvent(size) ==
    /\ lmd.pc = "open" /\ lmd.calls < MaxEvents /\ "event" \in setup.puts
    /\ LET e == Element(Len(lmd.put) + 1, size) IN Put(PutElement(lmd.w, lmd.f, e), <<e>>)

\* f_evt_put_buffer
LmdPutBuffer(sizes) ==
    /\ lmd.pc = "open" /\ lmd.calls < MaxEvents /\ "buffer" \in setup.puts
    /\ LET es == [n \in DOMAIN sizes |-> Element(Len(lmd.put) + n, sizes[n])]
       IN  Put(PutBuffer(lmd.w, lmd.f, es), es)

\* f_evt_put_close
LmdPutClose ==
    /\ lmd.pc = "open"
    /\ lmd' = [lmd EXCEPT !.pc = "closed", !.f = PutCloseFile(lmd.w, lmd.f)]
    /\ UNCHANGED <<vars, get>>

\* The writer ends without a close.
LmdCrash ==
    /\ lmd.pc = "open" /\ lmd' = [lmd EXCEPT !.pc = "crashed"]
    /\ UNCHANGED <<vars, get>>

\* f_evt_get_open, or fLmdGetOpen of a client.
LmdGetOpen ==
    /\ lmd.pc \in {"closed", "crashed"} /\ ~get.open
    /\ get' = [get EXCEPT !.open = TRUE, !.r = GetOpen(lmd.f, setup.getBuffer, setup.byIndex)]
    /\ UNCHANGED <<vars, lmd>>

\* The elements that units are, if each is whole and they follow one another.
ElementsOf(units) ==
    LET starts == SelectSeq(units, LAMBDA u : u.k = 1)
        ids == [n \in DOMAIN starts |-> starts[n].id]
    IN  IF units = AllUnits([n \in DOMAIN ids |-> Element(ids[n], starts[n].size)]) THEN ids ELSE <<0>>

Receive(x) ==
    /\ ~get.ended
    /\ get' = [get EXCEPT !.r = x.r, !.ended = ~x.ok, !.got = @ \o ElementsOf(x.units)]
    /\ UNCHANGED <<vars, lmd>>

\* f_evt_get_event
LmdGetEvent == get.open /\ setup.client = "events" /\ Receive(GetElement(get.r, lmd.f))

\* fLmdGetBuffer
LmdGetBuffer == get.open /\ setup.client = "buffers" /\ Receive(GetBuffer(get.r, lmd.f, setup.clientBuffer))

\* fLmdGetElement of the n-th element.
LmdGetIndexed(n) ==
    /\ get.open /\ setup.client = "indexed"
    /\ get' = [get EXCEPT !.indexed = @ \cup {<<n, ElementsOf(GetIndexed(get.r, lmd.f, n))>>}]
    /\ UNCHANGED <<vars, lmd>>

NextFiles ==
    \/ OldFormat
    \/ \E size \in Sizes : LmdPutEvent(size) \/ \E other \in Sizes : LmdPutBuffer(<<size, other>>)
    \/ LmdPutClose \/ LmdCrash \/ LmdGetOpen \/ LmdGetEvent \/ LmdGetBuffer
    \/ \E n \in 1..(2 * MaxEvents) : LmdGetIndexed(n)

-----------------------------------------------------------------------------
\* A file that was closed has a table if one was asked for and the disk was not full, and
\* the table has the place of every element; so an element that is asked for by its
\* number is that one (fLmdOffsetSet, fLmdOffsetWrite, fLmdGetElement).
TableRight ==
    IsLmd /\ lmd.pc = "closed" =>
        /\ lmd.f.room > 0 /\ setup.index => lmd.f.head.table # 0
        /\ lmd.f.head.table # 0 => \A n \in DOMAIN lmd.put :
              LET at == lmd.f.table[n] - FileHead
              IN  lmd.f.units[at + 1].id = n /\ lmd.f.units[at + 1].k = 1
        /\ \A x \in get.indexed : IF x[1] \in DOMAIN lmd.put /\ get.r.table # <<>>
                                  THEN x[2] = <<x[1]>> ELSE x[2] = <<>>

\* At its end a reader has got every element that is whole in a file that was closed:
\* all of them, unless the disk was full.  A file that was not closed counts no
\* elements in its header, and nothing is read of it.
Whole(n) == \E u \in ToSet(lmd.f.units) : u.id = n /\ u.k = u.size
LmdReadBack ==
    IsLmd /\ get.ended =>
        IF lmd.pc = "crashed" THEN get.got = <<>>
        ELSE /\ \A n \in DOMAIN lmd.put : Whole(n) => n \in ToSet(get.got)
             /\ lmd.f.room > 0 => Len(get.got) = Len(lmd.put)

\* Files of both kinds describe themselves: buffers by their headers, elements by the
\* table of their places.
FilesRight == BuffersRight /\ TableRight
=============================================================================
