------------------------------- MODULE MbsTags -------------------------------
(***************************************************************************)
(* The tag files of f_evt.c.  f_evt_cre_tagfile notes the number and the   *)
(* place of every event of a file that a filter takes; f_evt_get_tagevent  *)
(* then reads an event by its number or its index among the tags, and      *)
(* f_evt_get_tagnext the next one.  Without a tag file they read forward.  *)
(*                                                                         *)
(* Event numbers (l_count) are given by the setup, from 1 on.  External:   *)
(* the filter, here a set of numbers, and the program that asks.           *)
(***************************************************************************)
EXTENDS RemoteEvents

VARIABLE tag  \* the tag file, the channel opened by f_evt_get_tagopen, with posi its
              \* l_io_buf_posi, and history: the last call, and the event it asked for (here)

tagVars == <<remoteVars, tag>>
restVars == <<writer, lmdVars, serverVars, rev>>

HasTags == setup.format = "tags"
Number(id) == setup.counts[id]                             \* l_count of an event
Filters == setup.filter # {}                               \* e_filter is not NULL
Takes(number) == ~Filters \/ number \in setup.filter       \* what e_filter says of it

None == -1    \* a call that returned no event
NoEvent == 0  \* one that returned something else, as EventOf has it

InitTags ==
    /\ InitRemote
    /\ tag = [pc |-> "none", tags |-> <<>>, head |-> <<>>, posi |-> 0, here |-> 0, left |-> 0, last |-> <<>>]

Others == NextRemote /\ UNCHANGED tag
WriteTagged == HasTags /\ (Pack \/ Crash \/ CrashWriting) /\ UNCHANGED <<lmdVars, serverVars, rev, tag>>

-----------------------------------------------------------------------------
(* f_evt_cre_tagfile.  A place is counted from the start of the file, whose *)
(* header is as long as a buffer; that of an event which goes on in the     *)
(* next buffer is negative.                                                 *)

\* Mutant: the header of a spanned fragment is forgotten.
LengthOfData(frag) == frag.len

\* Length of a fragment with its header.
Length(frag) == frag.len + (IF IsSpanned(frag) THEN EvHead ELSE 0)

\* l_file_pos of the j-th fragment of the n-th buffer, found by going from one to the next.
Place(n, j) ==
    n * BufSize + BufHead + FoldLeft(LAMBDA p, f : p + Length(f), 0, SubSeq(file[n].frags, 1, j - 1))

TagOf(n, j) ==
    [event |-> Number(file[n].frags[j].id),
     offset |-> IF file[n].hBegin = 1 /\ j = file[n].evt THEN -Place(n, j) ELSE Place(n, j)]

\* Tags of the events that begin in the n-th buffer: its first fragment may be an end.
TagsIn(n) == SubSeq([j \in 1..file[n].evt |-> TagOf(n, j)], 1 + file[n].hEnd, file[n].evt)

\* The fragments of an event whose first one is in the n-th buffer: one of each buffer
\* that follows, until they make up l_free[1]; none if the file ends before.
Spanning(n, first) ==
    LET frags == <<first>> \o [m \in 1..(Len(file) - n) |-> Head(file[n + m].frags)]
        size == [m \in DOMAIN frags |-> FoldLeft(LAMBDA sum, f : sum + f.len, 0, SubSeq(frags, 1, m))]
        enough == {m \in DOMAIN frags : size[m] >= file[n].free}
    IN  IF enough = {} THEN <<>> ELSE SubSeq(frags, 1, Min(enough))

BufferAt(offset) == IF offset < 0 THEN (-offset) \div BufSize ELSE offset \div BufSize
IsCut(t) ==
    LET n == BufferAt(t.offset) IN t.offset < 0 /\ Spanning(n, Last(file[n].frags)) = <<>>

\* A filter is given whole events: at one that is cut short nothing more is taken.
Shown ==
    LET all == FlattenSeq([n \in DOMAIN file |-> TagsIn(n)])
        cut == SelectInSeq(all, IsCut)
    IN  IF Filters /\ cut # 0 THEN SubSeq(all, 1, cut - 1) ELSE all

\* Where the numbers do not go on by one; they begin with 0.
Breaks(tags) ==
    {n \in DOMAIN tags : tags[n].event # (IF n = 1 THEN 0 ELSE tags[n - 1].event + 1)}

HeadOf(tags) ==
    [events |-> Len(tags), linear |-> Cardinality(Breaks(tags)) = 1,
     first |-> IF Breaks(tags) = {} THEN 0 ELSE tags[Min(Breaks(tags))].event]

Idle == HasTags /\ pc \in {"closed", "crashed"} /\ UNCHANGED restVars

\* A file without buffers is not one of the format.
f_evt_cre_tagfile ==
    /\ Idle /\ setup.tagged /\ file # <<>> /\ tag.pc = "none" /\ UNCHANGED rd
    /\ LET tags == SelectSeq(Shown, LAMBDA t : Takes(t.event))
       IN  tag' = [tag EXCEPT !.pc = "made", !.tags = tags, !.head = HeadOf(tags)]

\* f_evt_get_tagopen opens the file alone if there is no tag file.
f_evt_get_tagopen ==
    /\ Idle /\ UNCHANGED rd
    /\ IF tag.pc = "made" THEN tag' = [tag EXCEPT !.pc = "open"]
       ELSE tag.pc = "none" /\ (setup.tagged => file = <<>>) /\ tag' = [tag EXCEPT !.pc = "forward"]

-----------------------------------------------------------------------------
(* f_evt_get_tagevent and f_evt_get_tagnext by tags. *)

\* The fragment at a place, if one begins there, and what is read of an event there.
FragmentAt(place) == {f \in ToSet(file[place \div BufSize].frags) : f.at = place % BufSize}
ReadAt(offset) ==
    LET found == FragmentAt(IF offset < 0 THEN -offset ELSE offset)
        first == CHOOSE f \in found : TRUE
        frags == IF offset > 0 THEN <<first>> ELSE Spanning(BufferAt(offset), first)
    IN  IF found = {} THEN NoEvent
        ELSE IF frags = <<>> THEN None
        ELSE EventOf([m \in DOMAIN frags |-> [frag |-> frags[m], head |-> m = 1]])

\* The events that begin in the file and are wanted, in order; with a filter all are whole.
WantedIds ==
    LET ids == IF tag.pc \in {"forward", "search", "closed"} THEN WholeInFile
               ELSE IF Filters THEN {id \in WholeInFile : Takes(Number(id))} ELSE InFile
    IN  SetToSortSeq(ids, <)

\* History: which of them a call asks for.  Without a tag file it is one further on.
Position(call) ==
    LET from == IF tag.pc = "open" /\ call.by # "next" THEN 0 ELSE call.here
    IN  CASE call.by = "index" -> from + Max({call.value, 1})
          [] call.by = "next" -> from + call.value + 1
          [] OTHER -> SelectInSubSeq(WantedIds, from + 1, Len(WantedIds), LAMBDA id : Number(id) = call.value)

Asked(by, value) == [by |-> by, value |-> value, here |-> tag.here, got |-> None]
Answered(call, id) == [call EXCEPT !.got = id]

\* The tag of an index is read from the file, 0 meaning 1, unless the file ends before;
\* the index is kept even if the event cannot be read.
GetIndex(call, value) ==
    LET n == IF value = 0 THEN 1 ELSE value
    IN  tag' = IF n \notin DOMAIN tag.tags THEN [tag EXCEPT !.last = call]
               ELSE [tag EXCEPT !.posi = n, !.here = Position(call),
                                    !.last = Answered(call, ReadAt(tag.tags[n].offset))]

ByTag == Idle /\ tag.pc = "open" /\ UNCHANGED rd

GetTagIndex(value) == ByTag /\ GetIndex(Asked("index", value), value)

f_evt_get_tagnext(skip) == ByTag /\ GetIndex(Asked("next", skip), tag.posi + skip + 1)

\* An index is found from a number if the file is linear.  (Numbers before the first
\* are not asked for: their index is not positive and reads no tag.)
GetTagNumber(number) ==
    /\ ByTag /\ tag.head.linear /\ number >= tag.head.first
    /\ GetIndex(Asked("number", number), number - tag.head.first + 1)

\* Otherwise the tags are searched in memory, for which get_tagopen has a null pointer
\* if there are any.  (If there are none, memory that is not set is compared with the
\* number, which is not asked for.)
SearchTags ==
    /\ ByTag /\ ~tag.head.linear /\ tag.head.events > 0
    /\ tag' = [tag EXCEPT !.pc = "fault"]

f_evt_get_tagclose ==
    /\ Idle /\ UNCHANGED rd
    /\ \/ tag.pc = "open" /\ tag' = [tag EXCEPT !.pc = "made", !.posi = 0, !.here = 0, !.last = <<>>]
       \/ tag.pc = "forward" /\ tag' = [tag EXCEPT !.pc = "closed"]

-----------------------------------------------------------------------------
(* The same without a tag file, by calls of f_evt_get_event. *)

Forward(pcNow) == Idle /\ tag.pc = pcNow

\* A call that is to read so many events, or up to a number.
Search(by, value, left) ==
    /\ Forward("forward") /\ UNCHANGED rd
    /\ tag' = [tag EXCEPT !.pc = "search", !.left = left, !.last = Asked(by, value)]

SearchIndex(value) == Search("index", value, Max({value, 1}))
SearchNumber(number) == Search("number", number, 0)
SearchNext(skip) == Search("next", skip, skip + 1)

SearchOn == Forward("search") /\ (NewBuffer \/ SkipFragment \/ TakeFragment) /\ UNCHANGED tag

Found(id) == IF tag.last.by = "number" THEN id > 0 /\ Number(id) = tag.last.value ELSE tag.left = 1

SearchGets ==
    /\ Forward("search") /\ GetEvent
    /\ LET id == EventOf(Last(rd'.got))
       IN  tag' = IF Found(id) THEN [tag EXCEPT !.pc = "forward", !.here = Len(rd'.got), !.last = Answered(@, id)]
                               ELSE [tag EXCEPT !.left = Max({@ - 1, 0})]

SearchEnds ==
    /\ Forward("search") /\ ~More /\ rd.at = Len(file)
    /\ tag' = [tag EXCEPT !.pc = "forward", !.here = Len(rd.got)] /\ rd' = [rd EXCEPT !.part = <<>>]

-----------------------------------------------------------------------------
\* What the program asks for.
Indices == 0..(MaxEvents + 1)
Numbers == IF HasTags THEN 1..(Max(ToSet(setup.counts)) + 1) ELSE {}
Skips == 0..1

NextTags ==
    \/ Others \/ WriteTagged
    \/ f_evt_cre_tagfile \/ f_evt_get_tagopen \/ f_evt_get_tagclose \/ SearchTags
    \/ \E n \in Indices : GetTagIndex(n) \/ SearchIndex(n)
    \/ \E n \in Numbers : GetTagNumber(n) \/ SearchNumber(n)
    \/ \E n \in Skips : f_evt_get_tagnext(n) \/ SearchNext(n)
    \/ SearchOn \/ SearchGets \/ SearchEnds

SpecTags == InitTags /\ [][NextTags]_tagVars

-----------------------------------------------------------------------------
\* What a call ought to return, if it is whole in the file.
Due(call) ==
    LET at == Position(call)
    IN  IF at \in DOMAIN WantedIds /\ WantedIds[at] \in WholeInFile THEN WantedIds[at] ELSE None

\* A tag file names the events its filter takes, in order, and is linear only if their
\* numbers go on by one.  An event that is asked for by index or number, or as the next
\* one, is that one and whole, with or without a tag file; nothing else is returned,
\* not even of a file whose writer died while an event was half written.
TagsRight ==
    HasTags =>
        /\ tag.pc = "made" \/ tag.pc = "open" =>
              /\ [n \in DOMAIN tag.tags |-> tag.tags[n].event] = [n \in DOMAIN WantedIds |-> Number(WantedIds[n])]
              /\ tag.head.linear => \A n \in DOMAIN tag.tags : tag.tags[n].event = tag.head.first + n - 1
        /\ tag.pc \in {"open", "forward"} /\ tag.last # <<>> => tag.last.got = Due(tag.last)

\* Files of all kinds describe themselves: buffers by their headers, elements by the
\* table of their places, and events by a tag file.
FilesDescribed == FilesRight /\ TagsRight
=============================================================================
