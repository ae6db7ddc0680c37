------------------------------- MODULE LmdFile -------------------------------
(***************************************************************************)
(* The LMD files of fLmd.c: a file header, the elements (events) one after *)
(* another, and, if the writer was asked for it, a table of the places     *)
(* where the elements begin.  Elements need not fit any buffer of the      *)
(* reader's, which moves the rest of one to the front and reads on.        *)
(*                                                                         *)
(* Lengths are counted in longwords, as offsets in the table are.  A file  *)
(* is a record [head, units, table, room], room what the disk still takes; *)
(* a unit [id, k, size] is the k-th longword of an element, or of the      *)
(* table if id is 0.  An operator is a function of the library.  External: *)
(* the file of stdio, and the elements, which have a header in front.      *)
(***************************************************************************)
EXTENDS Integers, Sequences, SequencesExt, FiniteSetsExt

CONSTANTS FileHead,  \* size of sMbsFileHeader
          MbsHead,   \* size of sMbsHeader, in front of every element
          TableHead, \* size of the header of the table
          MaxOffset, \* the largest offset of four bytes, 0xffffffff
          Entries    \* OFFSET__ENTRIES

ASSUME LmdAssumption == {FileHead, MbsHead, TableHead, MaxOffset, Entries} \subseteq Nat \ {0}

Units(e) == [k \in 1..e.size |-> [id |-> e.id, k |-> k, size |-> e.size]]
AllUnits(es) == FlattenSeq([n \in DOMAIN es |-> Units(es[n])])

\* fLmdWriteBuffer: how much of it was written, and the file then.
Taken(f, units) == Min({Len(units), f.room})
Write(f, units) == [f EXCEPT !.units = @ \o SubSeq(units, 1, Taken(f, units)),
                             !.room = @ - Taken(f, units)]

-----------------------------------------------------------------------------
(* The writer: [size, buffer, elements, bytes, max, counted, offsets, wide], *)
(* with counted and max the iElements and iMaxWords of the file header.      *)

\* Mutant: the old table is not copied into the longer one.
OffsetResizeAnew(offsets, first) == <<first>> \o [n \in 1..(Len(offsets) + Entries - 1) |-> 0]

\* fLmdOffsetResize
OffsetResize(offsets, first) ==
    IF offsets = <<>> THEN <<first>> \o [n \in 1..(Entries - 1) |-> 0]
                      ELSE offsets \o [n \in 1..Entries |-> 0]

\* fLmdPutOpen
PutOpen(size, index, wide) ==
    [size |-> size, buffer |-> <<>>, elements |-> 0, bytes |-> FileHead, max |-> 0, counted |-> 0,
     offsets |-> IF index THEN OffsetResize(<<>>, FileHead) ELSE <<>>, wide |-> wide]

\* The file after fLmdPutOpen; its header counts no elements yet.
NewFile(room) == [head |-> [elements |-> 0, max |-> 0, table |-> 0],
                  units |-> <<>>, table |-> <<>>, room |-> room]

\* The table has no entry for the element that was counted last.
TableFull(w) == w.elements >= Len(w.offsets)

\* fLmdOffsetSet, when the element has been counted: where the next one begins.
OffsetSet(w, size) ==
    IF w.offsets = <<>> THEN w
    ELSE LET longer == IF TableFull(w) THEN OffsetResize(w.offsets, 0) ELSE w.offsets
             next == longer[w.elements] + size
         IN  [w EXCEPT !.offsets = [longer EXCEPT ![w.elements + 1] =
                                       IF w.wide THEN next ELSE next % (MaxOffset + 1)]]

\* The elements and their table do not fit in a file with small offsets.
Exceeds(w, size, entries) ==
    w.offsets # <<>> /\ ~w.wide /\ size > MaxOffset - w.bytes - (TableHead + w.elements + entries)

Larger(w, size) == [w EXCEPT !.max = Max({@, size})]
Count(w, size) == OffsetSet([w EXCEPT !.elements = @ + 1], size)

Result(w, f, ok) == [w |-> w, f |-> f, ok |-> ok]

\* The buffer is written to the file, and is empty if all of it was.
Flush(w, f) ==
    LET n == Taken(f, w.buffer)
        whole == n = Len(w.buffer)
    IN  Result([w EXCEPT !.bytes = @ + n, !.buffer = IF whole THEN <<>> ELSE @], Write(f, w.buffer), whole)

\* fLmdPutElement without a buffer.
PutDirectly(w, f, e) ==
    LET n == Taken(f, Units(e))
        more == [w EXCEPT !.bytes = @ + n]
    IN  IF n = e.size THEN Result(Count([more EXCEPT !.counted = @ + 1], e.size), Write(f, Units(e)), TRUE)
                      ELSE Result(more, Write(f, Units(e)), FALSE)

\* fLmdPutElement with a buffer, which is written when the element does not fit.
PutBuffered(w, f, e) ==
    LET x == IF e.size > w.size - Len(w.buffer) THEN Flush(w, f) ELSE Result(w, f, TRUE)
    IN  IF ~x.ok \/ e.size > w.size - Len(x.w.buffer) THEN Result(x.w, x.f, FALSE)
        ELSE Result(Count([x.w EXCEPT !.counted = @ + 1, !.buffer = @ \o Units(e)], e.size), x.f, TRUE)

PutElement(w, f, e) ==
    IF Exceeds(w, e.size, 2) THEN Result(w, f, FALSE)
    ELSE IF w.size = 0 THEN PutDirectly(Larger(w, e.size), f, e)
                       ELSE PutBuffered(Larger(w, e.size), f, e)

\* fLmdPutBuffer: elements that are in a buffer of the caller's already.
PutBuffer(w, f, es) ==
    LET units == AllUnits(es)
        n == Taken(f, units)
        ok == n = Len(units)
        all == FoldLeft(LAMBDA v, e : Larger(Count(v, e.size), e.size), w, es)
    IN  IF Exceeds(w, Len(units), Len(es) + 2) THEN Result(w, f, FALSE)
        ELSE Result([all EXCEPT !.bytes = @ + n, !.counted = IF ok THEN @ + Len(es) ELSE @], Write(f, units), ok)

\* The header of the file, written again by fLmdPutClose.
Header(w, f, table) == [f EXCEPT !.head = [elements |-> w.counted, max |-> w.max, table |-> table]]

\* fLmdOffsetWrite, which fails if the table is not where its last entry says.
OffsetWrite(w, f) ==
    LET size == TableHead + (w.elements + 1) * (IF w.wide THEN 2 ELSE 1)
        units == Units([id |-> 0, size |-> size])
        ok == FileHead + Len(f.units) = w.offsets[w.elements + 1] /\ Taken(f, units) = size
    IN  Result(w, [Write(f, units) EXCEPT !.table = SubSeq(w.offsets, 1, w.elements + 1)], ok)

\* fLmdPutClose
PutCloseFile(w, f) ==
    LET x == Flush(w, f)
        y == OffsetWrite(x.w, x.f)
    IN  IF ~x.ok \/ w.offsets = <<>> THEN Header(x.w, x.f, 0)
        ELSE Header(y.w, y.f, IF y.ok THEN w.offsets[w.elements + 1] ELSE 0)

-----------------------------------------------------------------------------
(* The reader: [at, left, first, size, remaining, elements, table].  What is *)
(* in its buffer are the last units that were read.                          *)

\* fLmdOffsetRead: the table, if the file has one at the place its header names.
OffsetRead(f) ==
    IF f.head.table > 0 /\ f.units[f.head.table - FileHead + 1].id = 0
    THEN SubSeq(f.table, 1, f.head.elements + 1) ELSE <<>>

\* fLmdGetOpen: the buffer takes the largest element.
GetOpen(f, size, index) ==
    [at |-> 0, left |-> 0, first |-> TRUE, size |-> Max({size, f.head.max}),
     remaining |-> f.head.elements, elements |-> 0,
     table |-> IF index THEN OffsetRead(f) ELSE <<>>]

\* iWords of a header in the file; of something else, any number would do.
SizeAt(f, p) == IF f.units[p].k = 1 THEN f.units[p].size ELSE MbsHead
HeadSize(r, f) == SizeAt(f, r.at - r.left + 1)

\* The rest of the buffer is not an element.
NeedsMore(r, f) == r.first \/ r.left < MbsHead \/ HeadSize(r, f) > r.left

\* Mutant: the rest of the buffer is dropped.
FillAnew(r, f, size) ==
    LET n == Min({size, Len(f.units) - r.at})
    IN  [r EXCEPT !.at = @ + n, !.left = n]

\* fLmdReadBuffer, behind the rest of the buffer.
Fill(r, f, size) ==
    LET n == Min({size - r.left, Len(f.units) - r.at})
    IN  [r EXCEPT !.at = @ + n, !.left = @ + n]

\* A function of the reader's that gives an error or the end, after which it is closed.
Stopped(r) == [r |-> r, units |-> <<>>, ok |-> FALSE]

\* fLmdGetElement of the next element: the reader, the units and if it is one.
GetElement(r, f) ==
    LET x == IF NeedsMore(r, f) THEN [Fill(r, f, r.size) EXCEPT !.first = FALSE] ELSE r
        size == HeadSize(x, f)
        start == x.at - x.left
    IN  IF r.remaining = 0 \/ (NeedsMore(r, f) /\ x.at = r.at) \/ size > x.left
        THEN Stopped(r)
        ELSE [r |-> [x EXCEPT !.remaining = @ - 1, !.left = @ - size, !.elements = @ + 1],
              units |-> SubSeq(f.units, start + 1, start + size), ok |-> TRUE]

\* fLmdGetElement of the n-th element, by the table.
GetIndexed(r, f, n) ==
    IF n >= Len(r.table) THEN <<>>
    ELSE SubSeq(f.units, r.table[n] - FileHead + 1, r.table[n + 1] - FileHead)

\* fLmdOffsetElements: how many of the next elements fit in the caller's buffer.
OffsetElements(r, size) ==
    Max({n \in 0..(Len(r.table) - 1 - r.elements) :
            r.table[r.elements + n + 1] - r.table[r.elements + 1] <= size})

\* The whole elements at the front of what is in the buffer.
WholeElements(f, from, left) ==
    Max({0} \cup {n \in 1..left : LET u == f.units[from + n] IN u.id # 0 /\ u.k = u.size})

NumElements(units) == Len(SelectSeq(units, LAMBDA u : u.k = 1))

\* fLmdGetBuffer: as many elements as are whole in the caller's buffer; the rest is
\* kept in the reader's own buffer, which may be too small for it.
GetBuffer(r, f, size) ==
    LET fits == OffsetElements(r, size)
        x == IF r.table # <<>>
             THEN [r EXCEPT !.at = @ + r.table[r.elements + fits + 1] - r.table[r.elements + 1]]
             ELSE Fill(r, f, size)
        from == r.at - r.left
        used == IF r.table # <<>> THEN x.at - r.at ELSE WholeElements(f, from, x.left)
        units == SubSeq(f.units, from + 1, from + used)
        left == IF r.table # <<>> THEN 0 ELSE x.left - used
        more == [x EXCEPT !.left = left, !.elements = @ + NumElements(units)]
    IN  IF \/ 2 * size < f.head.max \/ r.elements = f.head.elements \/ r.left > size
           \/ (x.at = r.at /\ r.left = 0) \/ left > r.size
        THEN Stopped(r)
        ELSE [r |-> more, units |-> units, ok |-> TRUE]
=============================================================================
