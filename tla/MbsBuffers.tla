----------------------------- MODULE MbsBuffers -----------------------------
(***************************************************************************)
(* The buffers of an LMD file of the old format (f_evt.c).  f_evt_put_event *)
(* packs events into a stream of buffers of one size; an event that does   *)
(* not fit in the rest of a buffer goes on in the next, behind a header of *)
(* its own.  f_evt_get_event puts the fragments together again.            *)
(*                                                                         *)
(* Lengths are counted in units of eight bytes.  A fragment                *)
(* [id, from, len, at] stands for the units from + 1 to from + len of      *)
(* event id; it is spanned if from is not zero, and then has an event      *)
(* header in front.  It begins at unit at of its buffer.                   *)
(***************************************************************************)
EXTENDS Integers, Sequences, FiniteSets, SequencesExt, FiniteSetsExt

CONSTANTS BufSize,  \* l_buf_size
          Bufs,     \* l_bufs_in_stream
          BufHead, EvHead, VeHead, \* sizes of s_bufhe, s_evhe and s_ve10_1
          Setups    \* writers and readers considered

ASSUME SizeAssumption ==
    /\ {BufSize, Bufs, BufHead, EvHead, VeHead} \subseteq Nat \ {0}
    /\ BufHead + EvHead + VeHead < BufSize
    /\ \A s \in Setups : s.sizes \subseteq Nat /\ \A size \in s.sizes : size >= VeHead

VARIABLES setup,   \* the writer and the reader of this file
          pc,      \* what the writer does
          bufs,    \* the stream in pc_io_buf: bufs[b], b \in 0..(Bufs - 1)
          posi,    \* l_io_buf_posi
          bufNo,   \* l_buf_no
          event,   \* the event that is put: [id, size, done]
          calls,   \* calls of f_evt_put_event
          written, \* sizes of the events put with success
          file,    \* the buffers in the file
          rd       \* the reader

vars == <<setup, pc, bufs, posi, bufNo, event, calls, written, file, rd>>
writer == <<setup, pc, bufs, posi, bufNo, event, calls, written, file>>

Sizes == setup.sizes         \* sizes of events
MaxEvents == setup.maxEvents \* bound: calls of f_evt_put_event
MaxSkips == setup.maxSkips   \* bound: calls of f_evt_skip_buffer

StreamSize == Bufs * BufSize
Stream == 0..(Bufs - 1)

\* free is l_free[1], the size of the last event in a buffer that was filled.
EmptyBuffer(no) ==
    [no |-> no, evt |-> 0, hBegin |-> 0, hEnd |-> 0, used |-> 0, free |-> 0, frags |-> <<>>]

Init ==
    /\ setup \in Setups
    /\ pc = "idle"
    /\ bufs = [b \in Stream |-> EmptyBuffer(0)] /\ posi = 0 /\ bufNo = 1
    /\ event = [id |-> 0, size |-> 0, done |-> 0]
    /\ calls = 0 /\ written = <<>> /\ file = <<>>
    /\ rd = [at |-> 0, cur |-> 0, k |-> 0, first |-> TRUE, no |-> 0, prevOk |-> TRUE,
             part |-> <<>>, got |-> <<>>, skips |-> 0, asked |-> FALSE]

-----------------------------------------------------------------------------
(* f_evt_put_event. *)

\* l_buf_remain_size: room in the stream behind p, without the headers.
Remaining(p) == StreamSize - p - ((StreamSize - p) \div BufSize) * (BufHead + EvHead)

\* The last buffer of a stream that is written: it ends with the end of an event.
LastBuffer(b) == [bufs[b] EXCEPT !.hBegin = 0, !.hEnd = IF b = 0 THEN 0 ELSE bufs[b - 1].hBegin]

\* Start of the buffer p is in, or of the one that ends at p.
BufferOf(p) == IF p % BufSize = 0 THEN (p \div BufSize) - 1 ELSE p \div BufSize

\* The buffers of the stream that are not empty, in the order they are written.
NotEmpty(stream) == SelectSeq([b \in 1..Bufs |-> stream[b - 1]], LAMBDA buf : buf.evt > 0)

\* f_evt_ini_bufhe, when a stream is begun.
NewStream(no) == [b \in Stream |-> EmptyBuffer(no + b)]

\* The event fits in the stream.
PutFits(size) ==
    /\ size <= Remaining(posi)
    /\ pc' = "write" /\ event' = [id |-> Len(written) + 1, size |-> size, done |-> 0]
    /\ IF posi = 0 THEN bufs' = NewStream(bufNo) /\ bufNo' = bufNo + Bufs
                   ELSE UNCHANGED <<bufs, bufNo>>
    /\ UNCHANGED <<posi, file>>

\* The stream with its last buffer made ready.
Flushed == LET last == BufferOf(posi) IN [bufs EXCEPT ![last] = LastBuffer(last)]

\* The stream is written first; the event must then fit in a new one.
PutFlushes(size) ==
    /\ size > Remaining(posi) /\ posi # 0
    /\ LET next == bufNo - (Bufs - Len(NotEmpty(Flushed)))
       IN  /\ file' = file \o NotEmpty(Flushed)
           /\ posi' = 0
           /\ IF size > Remaining(0) + EvHead
              THEN /\ pc' = "idle" /\ bufs' = Flushed /\ bufNo' = next
                   /\ UNCHANGED event
              ELSE /\ pc' = "write" /\ bufs' = NewStream(next) /\ bufNo' = next + Bufs
                   /\ event' = [id |-> Len(written) + 1, size |-> size, done |-> 0]

\* The same with nothing in the stream: the code takes the buffer before the
\* first for the last one and sets its header.
PutNothingToFlush(size) ==
    /\ size > Remaining(posi) /\ posi = 0
    /\ pc' = "overrun"
    /\ UNCHANGED <<bufs, posi, bufNo, event, file>>

PutEvent(size) ==
    /\ pc = "idle" /\ calls < MaxEvents /\ calls' = calls + 1
    /\ PutFits(size) \/ PutFlushes(size) \/ PutNothingToFlush(size)
    /\ UNCHANGED <<setup, written, rd>>

\* A rest of a buffer that cannot hold a header is left free.
Padded(p) == LET free == (BufSize - (p % BufSize)) % BufSize
             IN  IF free < VeHead THEN p + free ELSE p

\* The event goes on in the next buffer.
GoesOn(done) == done < event.size

\* One turn of the loop: as much of the event as the buffer takes.
WriteFragment ==
    /\ pc = "write"
    /\ LET newBuf == posi % BufSize = 0
           spanned == newBuf /\ event.done # 0
           from == posi + (IF newBuf THEN BufHead ELSE 0) + (IF spanned THEN EvHead ELSE 0)
           b == from \div BufSize
           at == (from % BufSize) - (IF spanned THEN EvHead ELSE 0)
           len == Min({BufSize - (from % BufSize), event.size - event.done})
           to == Padded(from + len)
           done == event.done + len
           full == to % BufSize = 0
       IN  /\ posi' = to
           /\ event' = [event EXCEPT !.done = done]
           /\ bufs' = [bufs EXCEPT ![b] =
                 [@ EXCEPT !.evt = @ + 1,
                           !.used = @ + len + (IF spanned THEN EvHead ELSE 0),
                           !.frags = Append(@, [id |-> event.id, from |-> event.done, len |-> len, at |-> at]),
                           !.hBegin = IF full /\ GoesOn(done) THEN 1 ELSE @,
                           !.hEnd = IF full /\ b > 0 THEN bufs[b - 1].hBegin ELSE @,
                           !.free = IF full THEN event.size ELSE @]]
           /\ IF done = event.size THEN pc' = "idle" /\ written' = Append(written, event.size)
                                   ELSE UNCHANGED <<pc, written>>
    /\ UNCHANGED <<setup, bufNo, calls, file, rd>>

\* Mutant: the last buffer is written only if it is full.
RestFull == [b \in 1..(posi \div BufSize) |-> bufs[b - 1]]

\* What f_evt_put_close writes: nothing, if the stream is full.
Rest ==
    IF posi = StreamSize THEN <<>>
    ELSE LET last == BufferOf(posi)
             stream == IF posi % BufSize = 0 THEN bufs ELSE [bufs EXCEPT ![last] = LastBuffer(last)]
         IN  [b \in 1..(IF posi = 0 THEN 0 ELSE last + 1) |-> stream[b - 1]]

PutClose ==
    /\ pc = "idle" /\ pc' = "closed"
    /\ file' = file \o Rest
    /\ UNCHANGED <<setup, bufs, posi, bufNo, event, calls, written, rd>>

\* The writer ends without a close.
Crash ==
    /\ pc \in {"idle", "write"} /\ pc' = "crashed"
    /\ UNCHANGED <<setup, bufs, posi, bufNo, event, calls, written, file, rd>>

\* The writer ends while it writes its stream, to put an event or to close the file.
CrashWriting ==
    /\ pc = "idle" /\ posi # 0 /\ pc' = "crashed"
    /\ \E out \in {Rest, NotEmpty(Flushed)} :
          /\ out = Rest \/ (calls < MaxEvents /\ \E size \in Sizes : size > Remaining(posi))
          /\ \E k \in 1..(Len(out) - 1) : file' = file \o SubSeq(out, 1, k)
    /\ UNCHANGED <<setup, bufs, posi, bufNo, event, calls, written, rd>>

-----------------------------------------------------------------------------
(* f_evt_get_event, a turn of its loop for an action. *)

Buffer == file[rd.cur]
Frag == Buffer.frags[rd.k + 1]
More == rd.cur # 0 /\ rd.k < Len(Buffer.frags)
IsLast == rd.k + 1 = Len(Buffer.frags)
Reading == pc \in {"closed", "crashed"} /\ UNCHANGED writer

\* The reader at the head of the n-th buffer.
Load(n) == [rd EXCEPT !.cur = n, !.k = 0, !.prevOk = rd.no = file[n].no - 1, !.no = file[n].no]

\* f_evt_get_newbuf of a file.
NewBuffer ==
    /\ Reading /\ ~More /\ rd.at < Len(file)
    /\ rd' = [Load(rd.at + 1) EXCEPT !.at = @ + 1]

\* The code takes the fragment for a part of an event, not for its start.
AsPart == rd.part # <<>> \/ (Buffer.hEnd = 1 /\ rd.first)

\* What the reader copies: the fragment with its own header, or without.
Copied == [frag |-> Frag, head |-> ~AsPart]

\* A part of an event whose start was not read.
Skipped == Buffer.hEnd = 1 /\ (rd.first \/ ~rd.prevOk)

SkipFragment ==
    /\ Reading /\ More /\ Skipped
    /\ rd' = [rd EXCEPT !.k = @ + 1, !.first = FALSE, !.prevOk = TRUE, !.part = <<>>]

\* The event is in this buffer as a whole.
InOneBuffer == rd.part = <<>> /\ (Buffer.hBegin = 0 \/ ~IsLast)

\* The event goes on in the next buffer.
PartGoesOn == Buffer.hBegin = 1 /\ IsLast

Return(pieces) ==
    rd' = [rd EXCEPT !.k = @ + 1, !.first = FALSE, !.prevOk = TRUE,
                     !.part = <<>>, !.got = Append(@, pieces), !.asked = FALSE]

GetEvent ==
    /\ Reading /\ More /\ ~Skipped /\ (InOneBuffer \/ ~PartGoesOn)
    /\ Return(IF InOneBuffer THEN <<Copied>> ELSE Append(rd.part, Copied))

TakeFragment ==
    /\ Reading /\ More /\ ~Skipped /\ ~InOneBuffer /\ PartGoesOn
    /\ rd' = [rd EXCEPT !.k = @ + 1, !.first = FALSE, !.part = Append(@, Copied)]

\* f_evt_skip_buffer between two calls of f_evt_get_event.
SkipBuffer ==
    /\ Reading /\ rd.part = <<>> /\ rd.skips < MaxSkips
    /\ rd' = [rd EXCEPT !.at = @ + 1, !.cur = 0, !.k = 0, !.first = TRUE, !.skips = @ + 1,
                        !.asked = TRUE]

Pack == (\E size \in Sizes : PutEvent(size)) \/ WriteFragment \/ PutClose
Unpack == SkipFragment \/ GetEvent \/ TakeFragment

Next == Pack \/ Crash \/ CrashWriting \/ NewBuffer \/ Unpack \/ SkipBuffer

Spec == Init /\ [][Next]_vars

-----------------------------------------------------------------------------
\* Every variable has its type.
TypeOK ==
    /\ pc \in {"idle", "write", "overrun", "closed", "crashed"}
    /\ posi \in 0..StreamSize /\ calls \in 0..MaxEvents /\ bufNo \in Nat
    /\ DOMAIN bufs = Stream
    /\ \A b \in Stream : bufs[b].hBegin \in 0..1 /\ bufs[b].hEnd \in 0..1
    /\ \A b \in Stream : bufs[b].used <= BufSize - BufHead
    /\ event.done \in 0..event.size
    /\ rd.at \in Nat /\ rd.cur \in 0..Len(file) /\ rd.skips \in 0..MaxSkips

\* What the header of a buffer in the file says is true of its contents, and
\* the buffers are numbered without a gap, empty ones of a stream or not.
IsSpanned(frag) == frag.from # 0
IsEnd(frag) == frag.from + frag.len = written[frag.id]
TrueHeader(buf) ==
    /\ buf.frags # <<>> /\ buf.evt = Len(buf.frags)
    /\ buf.hEnd = (IF IsSpanned(Head(buf.frags)) THEN 1 ELSE 0)
    /\ buf.hBegin = (IF IsEnd(Last(buf.frags)) THEN 0 ELSE 1)
    /\ buf.used = FoldLeft(LAMBDA n, f : n + f.len + (IF IsSpanned(f) THEN EvHead ELSE 0), 0, buf.frags)
HeadersTrue ==
    /\ \A n \in DOMAIN file : TrueHeader(file[n])
    /\ \A n \in DOMAIN file : file[n].no = n

\* The name of an event that was got whole, or 0: its first piece has the
\* header of the event, the others are the data that follow.
EventOf(pieces) ==
    LET id == Head(pieces).frag.id
        ends == [j \in DOMAIN pieces |-> pieces[j].frag.from + pieces[j].frag.len]
        whole == /\ \A j \in DOMAIN pieces : pieces[j].frag.id = id /\ (pieces[j].head <=> j = 1)
                 /\ Head(pieces).frag.from = 0 /\ ends[Len(pieces)] = written[id]
                 /\ \A j \in DOMAIN pieces : j > 1 => pieces[j].frag.from = ends[j - 1]
    IN  IF whole THEN id ELSE 0
Got == [n \in DOMAIN rd.got |-> EventOf(rd.got[n])]
Written == [n \in DOMAIN written |-> n]

\* At the end of a file that was closed all its events have been read, if the
\* last one did not fill the stream.
AtEndOfFile == rd.at = Len(file) /\ ~More /\ rd.skips = 0
ReadsAll == pc = "closed" /\ AtEndOfFile /\ posi # StreamSize => Got = Written

\* A writer that ends without a close loses only what is in its stream: all
\* events are read that are whole in the file.
InFile == {f.id : f \in UNION {ToSet(file[n].frags) : n \in DOMAIN file}}
WholeInFile == {f.id : f \in {g \in UNION {ToSet(file[n].frags) : n \in DOMAIN file} : IsEnd(g)}}
InStream == {f.id : f \in UNION {ToSet(bufs[b].frags) : b \in Stream}}
LosesOnlyStream ==
    /\ DOMAIN written \subseteq InFile \cup InStream
    /\ pc = "crashed" /\ AtEndOfFile => ToSet(Got) = WholeInFile

\* Nothing that was put is lost, but for what is in the stream of a writer that does not
\* close the file.
NothingLost == ReadsAll /\ LosesOnlyStream

\* Every buffer of the file describes itself.
BuffersRight == TypeOK /\ HeadersTrue
=============================================================================
