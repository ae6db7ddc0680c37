------------------------- MODULE FairWriteoutBuffer -------------------------
(***************************************************************************)
(* fairroot/base/steer/FairWriteoutBuffer with the search buffer of        *)
(* FairTestDetectorDigiWriteoutBuffer (examples/advanced/Tutorial3): digis *)
(* wait under their start time until the event time has passed it, then    *)
(* under the time they stay active, then they go to the branch's array.    *)
(*                                                                         *)
(* A digi is the pad it was seen on, its start time, its timestamp, the    *)
(* time it is active until and its arrival number.  A multimap is the set  *)
(* of its entries, read by key and equal keys by arrival number; in the    *)
(* dead-time map the code has equal keys of different pads in the order of *)
(* insertion, a difference no property sees.  Buffering is active and      *)
(* Modify is the default one (a pad still active hides the new digi).  The *)
(* buffer and the array it writes to are one record, and each operation is *)
(* a function from such a record to the next.                              *)
(***************************************************************************)
EXTENDS Integers, Sequences, FiniteSets, FiniteSetsExt, SequencesExt

CONSTANTS Pads    \* detector elements

Digi == [id : Nat, pad : Pads, start : Nat, t : Nat, active : Int]
DeadEntry == [time : Nat, digi : Digi]

EmptyBuffer == [fStartTime_map |-> {}, fDeadTime_map |-> {},
                fData_map |-> [p \in Pads |-> -1],    \* -1: not in the map
                array |-> << >>]

\* Multimap order: by key, equal keys as they came.
StartOrder(d, e) == d.start < e.start \/ (d.start = e.start /\ d.id < e.id)
DeadOrder(x, y) == x.time < y.time \/ (x.time = y.time /\ x.digi.id < y.digi.id)
InOrder(S, before(_, _)) ==
    CHOOSE s \in [1 .. Cardinality(S) -> S] : \A i, j \in DOMAIN s : i < j => before(s[i], s[j])
InStartOrder(S) == InOrder(S, StartOrder)
InDeadOrder(S) == InOrder(S, DeadOrder)

FindTimeForData(b, pad) == b.fData_map[pad]

AddNewDataToTClonesArray(b, digi) == [b EXCEPT !.array = Append(@, digi)]

\* One entry in both the dead-time map and the search buffer.
StoreActive(b, digi, time) ==
    [b EXCEPT !.fDeadTime_map = @ \cup {[time |-> time, digi |-> digi]},
              !.fData_map[digi.pad] = time]

EraseActive(b, x) ==
    [b EXCEPT !.fDeadTime_map = @ \ {x}, !.fData_map[x.digi.pad] = -1]

FillNewData(b, digi) == [b EXCEPT !.fStartTime_map = @ \cup {digi}]

\* Mutant: a digi that starts when the old one ends is hidden by it.
FillDataToDeadTimeMapEqual(b, digi) ==
    LET oldTime == FindTimeForData(b, digi.pad)
        olds == {x \in b.fDeadTime_map : x.time = oldTime /\ x.digi.pad = digi.pad}
        old == CHOOSE x \in olds : \A y \in olds : x.digi.id <= y.digi.id
    IN  IF oldTime = -1 THEN StoreActive(b, digi, digi.active)
        ELSE IF oldTime >= digi.start THEN b
        ELSE StoreActive(AddNewDataToTClonesArray(EraseActive(b, old), old.digi),
                         digi, digi.active)

\* An old digi that is still active when the new one starts survives and hides it
\* (Modify returns the old data, which is filled in again); otherwise the old one
\* is written out and the new one takes its place.
FillDataToDeadTimeMap(b, digi) ==
    LET activeTime == IF digi.active < 0 THEN 0 ELSE digi.active
        oldTime == FindTimeForData(b, digi.pad)
        olds == {x \in b.fDeadTime_map : x.time = oldTime /\ x.digi.pad = digi.pad}
        old == CHOOSE x \in olds : \A y \in olds : x.digi.id <= y.digi.id
    IN  IF oldTime = -1 THEN StoreActive(b, digi, activeTime)
        ELSE IF olds = {} THEN b
        ELSE IF oldTime > digi.start
             THEN StoreActive(EraseActive(b, old), old.digi, oldTime)
             ELSE StoreActive(AddNewDataToTClonesArray(EraseActive(b, old), old.digi),
                              digi, activeTime)

MoveDataFromStartTimeMapToDeadTimeMap(b, time) ==
    LET begun == {d \in b.fStartTime_map : d.start < time}
        order == InStartOrder(begun)
        moved[k \in 0 .. Len(order)] ==
            IF k = 0 THEN b ELSE FillDataToDeadTimeMap(moved[k - 1], order[k])
    IN  [moved[Len(order)] EXCEPT !.fStartTime_map = @ \ begun]

\* GetRemoveOldData followed by the copy into the array.
WriteOutDataDeadTimeMap(b, time) ==
    LET over == {x \in b.fDeadTime_map : x.time < time}
        order == InDeadOrder(over)
    IN  [b EXCEPT !.fDeadTime_map = @ \ over,
                  !.fData_map = [p \in Pads |-> IF \E x \in over : x.digi.pad = p THEN -1 ELSE @[p]],
                  !.array = @ \o [k \in DOMAIN order |-> order[k].digi]]

WriteOutData(b, time) ==
    WriteOutDataDeadTimeMap(MoveDataFromStartTimeMapToDeadTimeMap(b, time), time)

LastStart(b) == Max({d.start : d \in b.fStartTime_map})
LastDead(b) == Max({x.time : x \in b.fDeadTime_map})

WriteOutAllData(b) ==
    LET begun == IF b.fStartTime_map # {} THEN LastStart(b) + 1 ELSE 0
        moved == IF b.fStartTime_map # {} THEN MoveDataFromStartTimeMapToDeadTimeMap(b, begun)
                                          ELSE b
        ultimateTime == IF moved.fDeadTime_map # {} /\ LastDead(moved) > begun
                        THEN LastDead(moved) + 1 ELSE begun
    IN  IF ultimateTime > 0 THEN WriteOutData(moved, ultimateTime) ELSE b

DeleteOldData(b) == [b EXCEPT !.array = << >>]

GetNData(b) == Cardinality(b.fDeadTime_map)
=============================================================================
