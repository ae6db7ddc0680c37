------------------------- MODULE TimeBasedRunProofs -------------------------
(***************************************************************************)
(* Theorems about TimeBasedRun for all setups, pads, times and digis: the  *)
(* write-out buffer records what a detector with dead time records, each   *)
(* digi once, whenever the event loop asks it for data; what is in it at   *)
(* the end of the run reaches the tree; and the sorter's branch of the     *)
(* tree has the same digis in the order of their times.                    *)
(***************************************************************************)
EXTENDS TimeBasedRun, SequenceLemmas

-----------------------------------------------------------------------------
(* The inductive invariant. *)

Buffer == [fStartTime_map : SUBSET Digi, fDeadTime_map : SUBSET DeadEntry,
           fData_map : [Pads -> Int], array : Seq(Digi)]

Held(b) == {x.digi : x \in b.fDeadTime_map}

\* The dead-time map has at most one digi of a pad, and the search buffer knows its time.
MapsRight(b) ==
    /\ \A x \in b.fDeadTime_map :
          x.time = x.digi.active /\ x.time \in Nat /\ b.fData_map[x.digi.pad] = x.time
    /\ \A p \in Pads : b.fData_map[p] # -1 => \E x \in b.fDeadTime_map : x.digi.pad = p
    /\ \A x, y \in b.fDeadTime_map : x.digi.pad = y.digi.pad => x = y

\* A digi is kept if none that is kept started before it and hides it.
Keeps(kept, digis) ==
    /\ kept \subseteq digis
    /\ \A d \in digis :
          d \in kept <=> \A k \in kept : k.pad = d.pad /\ StartOrder(k, d) => k.active <= d.start

\* Of the digis moved to the dead-time map so far, the buffer and its array and what is gone
\* from there are what a detector keeps; what is in the array or gone is over before a
\* later digi begins.
Detects(b, moved, gone, later) ==
    /\ b \in Buffer /\ IsFiniteSet(b.fDeadTime_map) /\ MapsRight(b)
    /\ moved \subseteq Digi /\ later \subseteq Digi
    /\ \A d \in moved \cup later : d.active \in Nat
    /\ Lists(b.array, ToSet(b.array))
    /\ gone \cap ToSet(b.array) = {} /\ Held(b) \cap (gone \cup ToSet(b.array)) = {}
    /\ Keeps(gone \cup ToSet(b.array) \cup Held(b), moved)
    /\ \A d \in later : /\ \A g \in moved : StartOrder(g, d)
                        /\ \A k \in gone \cup ToSet(b.array) : k.active <= d.start

Moved == filled \ buffer.fStartTime_map
Gone == ToSet(TreeDigis) \cup ToSet(vetoed)

\* The digis are numbered as they come.
DigisNumbered ==
    /\ IsFiniteSet(filled) /\ filled \subseteq Digi
    /\ \A d \in filled : d.active \in Nat /\ d.id \in 1 .. Cardinality(filled)
    /\ \A d, e \in filled : d.id = e.id => d = e

\* After an event was filled, and after the last fill, what is in the array is stored.
Stored == pc = "finishEvent" \/ (pc = "done" /\ fFillLastData)
Unstored == IF Stored THEN DeleteOldData(buffer) ELSE buffer

RunsOn ==
    /\ setup \in Setups /\ eventTime \in Nat /\ nEvents \in 0 .. MaxEvents
    /\ pc \in {"loop", "store", "digitize", "fill", "finishEvent", "drain", "finishTask",
               "lastFill", "done"}
    /\ fFillLastData \in BOOLEAN
    /\ (pc \in {"lastFill", "done"} /\ UseSorter) => fFillLastData

BufferInv ==
    /\ buffer.fStartTime_map \subseteq filled /\ ToSet(buffer.array) \subseteq filled
    /\ buffer \in Buffer
    /\ Detects(Unstored, Moved, Gone, buffer.fStartTime_map)

\* The input goes on at the event time, when all that was written out is over.
InputOpen == pc \in {"loop", "store", "digitize", "fill", "finishEvent", "drain"}
AllPassed ==
    InputOpen => /\ \A g \in Moved : g.start < eventTime
                 /\ \A k \in Gone \cup ToSet(buffer.array) : k.active <= eventTime

TreeInv ==
    /\ IsSeq(tree) /\ \A k \in DOMAIN tree : IsSeq(tree[k].digis)
    /\ Lists(TreeDigis, ToSet(TreeDigis)) /\ Lists(vetoed, ToSet(vetoed))
    /\ ToSet(TreeDigis) \cap ToSet(vetoed) = {}
    /\ Stored => ToSet(buffer.array) \subseteq Gone
    /\ pc = "done" /\ fFillLastData => ToSet(buffer.array) \subseteq ToSet(TreeDigis)

\* After the last write-out only a digi is left that was active until just then.
EndInv ==
    pc \in {"finishTask", "lastFill", "done"} =>
        /\ buffer.fStartTime_map = {}
        /\ \A x \in buffer.fDeadTime_map :
              x.digi.active = 0 \/ \E e \in filled : x.digi.active = e.start + 1

RunInv == RunsOn /\ DigisNumbered /\ BufferInv /\ AllPassed /\ TreeInv /\ EndInv

\* No digi is active until one tick after the start of another, and none until 0: the two
\* times at which WriteOutAllData stops too early.
NoTies == \A d, e \in filled : d.active # e.start + 1 /\ d.active > 0

-----------------------------------------------------------------------------
(* What a detector keeps. *)

LEMMA StartOrderIs ==
    ASSUME NEW d \in Digi, NEW e \in Digi
    PROVE ~(StartOrder(d, e) /\ StartOrder(e, d)) /\ ~StartOrder(d, d)
          /\ (StartOrder(d, e) => d.start <= e.start)
  BY DEF StartOrder, Digi

\* A digi that comes after all others is kept unless one that is kept hides it.
LEMMA KeepsNext ==
    ASSUME NEW K, NEW G \in SUBSET Digi, Keeps(K, G), NEW d \in Digi, \A g \in G : StartOrder(g, d)
    PROVE /\ (\E k \in K : k.pad = d.pad /\ k.active > d.start) => Keeps(K, G \cup {d})
          /\ (\A k \in K : k.pad = d.pad => k.active <= d.start) => Keeps(K \cup {d}, G \cup {d})
<1>1. d \notin G /\ \A g \in G : ~StartOrder(d, g) BY StartOrderIs
<1>2. K \subseteq G
      /\ \A e \in G : e \in K <=> \A k \in K : k.pad = e.pad /\ StartOrder(k, e) => k.active <= e.start
  BY DEF Keeps
<1>3. ASSUME NEW k \in K, k.pad = d.pad, k.active > d.start PROVE Keeps(K, G \cup {d})
  <2>1. k \in Digi /\ StartOrder(k, d) BY <1>2
  <2>2. ~(k.active <= d.start) BY <1>3, <2>1 DEF Digi
  <2>3. d \notin K BY <1>1, <1>2
  <2>4. ~ \A l \in K : l.pad = d.pad /\ StartOrder(l, d) => l.active <= d.start BY <1>3, <2>1, <2>2
  <2> QED BY <1>2, <2>3, <2>4 DEF Keeps
<1>4. ASSUME \A k \in K : k.pad = d.pad => k.active <= d.start PROVE Keeps(K \cup {d}, G \cup {d})
  <2>1. ~StartOrder(d, d) BY StartOrderIs
  <2>2. \A k \in K \cup {d} : k.pad = d.pad /\ StartOrder(k, d) => k.active <= d.start BY <1>4, <2>1
  <2>3. ASSUME NEW e \in G
        PROVE e \in K \cup {d} <=>
              \A k \in K \cup {d} : k.pad = e.pad /\ StartOrder(k, e) => k.active <= e.start
    BY <1>1, <1>2
  <2> QED BY <1>2, <2>2, <2>3 DEF Keeps
<1> QED BY <1>3, <1>4

\* There is one such set only.
LEMMA KeepsOne ==
    ASSUME NEW G \in SUBSET Digi, \A d, e \in G : d.id = e.id => d = e,
           NEW K, Keeps(K, G), NEW L, Keeps(L, G)
    PROVE K = L
<1> DEFINE key == [d \in G |-> d.start]
           num == [d \in G |-> d.id]
           Differ == {d \in G : ~(d \in K <=> d \in L)}
<1>1. K \subseteq G /\ L \subseteq G BY DEF Keeps
<1> SUFFICES ASSUME Differ # {} PROVE FALSE
  BY <1>1
<1>2. PICK d \in Differ : \A e \in Differ : e # d => Before(key, num, d, e)
  <2>1. key \in [G -> Nat] /\ num \in [G -> Nat] BY DEF Digi
  <2>2. \A x, y \in G : num[x] = num[y] => x = y OBVIOUS
  <2>3. Differ \in SUBSET G OBVIOUS
  <2> HIDE DEF key, num, Differ
  <2> QED BY <2>1, <2>2, <2>3, FirstInOrder
<1>3. ASSUME NEW e \in G, StartOrder(e, d) PROVE e \in K <=> e \in L
  <2>1. SUFFICES ASSUME e \in Differ PROVE FALSE OBVIOUS
  <2>2. d \in Digi /\ e \in Digi /\ e # d BY <1>3, StartOrderIs
  <2>3. Before(key, num, d, e) BY <1>2, <2>1, <2>2
  <2>4. StartOrder(d, e) BY <2>3 DEF Before, StartOrder
  <2> QED BY <1>3, <2>2, <2>4, StartOrderIs
<1>4. d \in K <=> d \in L BY <1>1, <1>3 DEF Keeps
<1> QED BY <1>2, <1>4

LEMMA RecordableIs ==
    ASSUME NEW G \in SUBSET Digi, \A d, e \in G : d.id = e.id => d = e, NEW K, Keeps(K, G)
    PROVE Recordable(G) = K
<1> DEFINE Kept(R) == \A d \in G : d \in R <=>
                         \A k \in R : k.pad = d.pad /\ StartOrder(k, d) => k.active <= d.start
<1>1. K \in SUBSET G /\ Kept(K) BY DEF Keeps
<1>2. Recordable(G) = CHOOSE R \in SUBSET G : Kept(R) BY DEF Recordable
<1>3. Recordable(G) \in SUBSET G /\ Kept(Recordable(G))
  <2> HIDE DEF Kept
  <2> QED BY <1>1, <1>2
<1>4. Keeps(Recordable(G), G) BY <1>3 DEF Keeps
<1> QED BY <1>4, KeepsOne

-----------------------------------------------------------------------------
(* The operations of the write-out buffer. *)

LEMMA ToSetLists == ASSUME NEW s, NEW S, Lists(s, S) PROVE ToSet(s) = S /\ Lists(s, ToSet(s))
  BY DEF Lists, ToSet

LEMMA SeqListed == ASSUME NEW S, NEW s \in Seq(S) PROVE IsSeq(s) /\ ToSet(s) \subseteq S
<1>1. IsSeq(s) BY DEF IsSeq
<1> QED BY <1>1 DEF ToSet

\* One step of the maps, field by field.
Record(S, D, M, A) == [fStartTime_map |-> S, fDeadTime_map |-> D, fData_map |-> M, array |-> A]
Put(M, p, v) == [M EXCEPT ![p] = v]
Without(D, x) == D \ {x}
With(D, d, v) == D \cup {[time |-> v, digi |-> d]}

LEMMA EraseIs ==
    ASSUME NEW S, NEW D, NEW M, NEW A, NEW b, b = Record(S, D, M, A), NEW x, NEW p, p = x.digi.pad
    PROVE EraseActive(b, x) = Record(S, Without(D, x), Put(M, p, -1), A)
<1>1. EraseActive(b, x) = [b EXCEPT !.fDeadTime_map = @ \ {x}, !.fData_map[p] = -1] BY DEF EraseActive
<1> QED BY <1>1 DEF Record, Put, Without

LEMMA StoreIs ==
    \A S, D, M, A, o, v : StoreActive(Record(S, D, M, A), o, v) = Record(S, With(D, o, v), Put(M, o.pad, v), A)
<1> TAKE S, D, M, A, o, v
<1>1. PICK b : b = Record(S, D, M, A) OBVIOUS
<1>2. PICK y : y = [time |-> v, digi |-> o] OBVIOUS
<1>3. StoreActive(b, o, v) = [b EXCEPT !.fDeadTime_map = @ \cup {y}, !.fData_map[o.pad] = v]
  BY <1>2 DEF StoreActive
<1> QED BY <1>1, <1>2, <1>3 DEF Record, Put, With

LEMMA AddIs ==
    ASSUME NEW S, NEW D, NEW M, NEW A, NEW b, b = Record(S, D, M, A), NEW o
    PROVE AddNewDataToTClonesArray(b, o) = Record(S, D, M, Append(A, o))
<1>1. AddNewDataToTClonesArray(b, o) = [b EXCEPT !.array = Append(@, o)] BY DEF AddNewDataToTClonesArray
<1> QED BY <1>1 DEF Record

\* No digi on the pad is active.
LEMMA FillsFreePad ==
    ASSUME NEW b, NEW moved, NEW gone, NEW later, Detects(b, moved, gone, later),
           NEW d \in later, \A e \in later \ {d} : StartOrder(d, e), b.fData_map[d.pad] = -1,
           NEW after, after = FillDataToDeadTimeMap(b, d)
    PROVE /\ Detects(after, moved \cup {d}, gone, later \ {d})
          /\ after.fStartTime_map = b.fStartTime_map
          /\ \A k \in ToSet(after.array) : k \in ToSet(b.array) \/ k.active <= d.start
<1> USE DEF Detects
<1> DEFINE x == [time |-> d.active, digi |-> d]
<1>1. d \in Digi /\ d.pad \in Pads /\ d.active \in Nat /\ x \in DeadEntry BY DEF Digi, DeadEntry
<1>2. after = [b EXCEPT !.fDeadTime_map = @ \cup {x}, !.fData_map[d.pad] = d.active]
  <2>1. ~(d.active < 0) BY <1>1
  <2> QED BY <2>1 DEF FillDataToDeadTimeMap, FindTimeForData, StoreActive
<1>3. b \in Buffer OBVIOUS
<1>4. /\ after \in Buffer /\ after.fStartTime_map = b.fStartTime_map /\ after.array = b.array
      /\ after.fDeadTime_map = b.fDeadTime_map \cup {x}
      /\ after.fData_map = [b.fData_map EXCEPT ![d.pad] = d.active]
  <2>1. PICK S \in SUBSET Digi, D \in SUBSET DeadEntry, M \in [Pads -> Int], A \in Seq(Digi) :
           b = [fStartTime_map |-> S, fDeadTime_map |-> D, fData_map |-> M, array |-> A]
    BY <1>3 DEF Buffer
  <2>2. PICK N : N = [M EXCEPT ![d.pad] = d.active] OBVIOUS
  <2>3. PICK E : E = D \cup {x} OBVIOUS
  <2>4. N \in [Pads -> Int] /\ E \in SUBSET DeadEntry BY <1>1, <2>2, <2>3
  <2> HIDE DEF x
  <2>5. after = [fStartTime_map |-> S, fDeadTime_map |-> E, fData_map |-> N, array |-> A]
    BY <1>2, <2>1, <2>2, <2>3
  <2>6. after \in Buffer BY <2>4, <2>5 DEF Buffer
  <2>7. b.fStartTime_map = S /\ b.fDeadTime_map = D /\ b.fData_map = M /\ b.array = A BY <2>1
  <2>8. /\ after.fStartTime_map = S /\ after.fDeadTime_map = E /\ after.fData_map = N
        /\ after.array = A
    BY <2>5
  <2> QED BY <2>2, <2>3, <2>6, <2>7, <2>8
<1>5. \A y \in b.fDeadTime_map : y.digi.pad # d.pad /\ y.digi \in Digi
  BY <1>1, <1>3 DEF MapsRight, Buffer, DeadEntry
<1>6. MapsRight(after)
  <2>1. x.time = d.active /\ x.digi = d OBVIOUS
  <2> HIDE DEF x
  <2>2. \A y \in after.fDeadTime_map :
           y.time = y.digi.active /\ y.time \in Nat /\ after.fData_map[y.digi.pad] = y.time
    <3> TAKE y \in after.fDeadTime_map
    <3>1. CASE y = x BY <1>1, <1>3, <1>4, <2>1, <3>1 DEF Buffer
    <3>2. CASE y # x
      <4>1. y \in b.fDeadTime_map BY <1>4, <3>2
      <4>2. y.digi.pad # d.pad /\ y.digi.pad \in Pads BY <1>5, <4>1 DEF Digi
      <4> QED BY <1>3, <1>4, <4>1, <4>2 DEF MapsRight, Buffer
    <3> QED BY <3>1, <3>2
  <2>3. \A p \in Pads : after.fData_map[p] # -1 => \E y \in after.fDeadTime_map : y.digi.pad = p
    BY <1>1, <1>3, <1>4, <2>1 DEF MapsRight, Buffer
  <2>4. \A y, z \in after.fDeadTime_map : y.digi.pad = z.digi.pad => y = z
    BY <1>4, <1>5, <2>1 DEF MapsRight
  <2> QED BY <2>2, <2>3, <2>4 DEF MapsRight
<1>7. Held(after) = Held(b) \cup {d}
  <2>1. x.digi = d OBVIOUS
  <2> HIDE DEF x
  <2> QED BY <1>4, <2>1 DEF Held
<1>8. IsFiniteSet(after.fDeadTime_map)
  <2>1. IsFiniteSet(b.fDeadTime_map \cup {x}) BY FS_AddElement
  <2> HIDE DEF x
  <2> QED BY <1>4, <2>1
<1>9. Keeps(gone \cup ToSet(b.array) \cup Held(b), moved) /\ \A g \in moved : StartOrder(g, d)
  OBVIOUS
<1>10. \A k \in gone \cup ToSet(b.array) \cup Held(b) : k.pad = d.pad => k.active <= d.start
  BY <1>5 DEF Held
<1>11. Keeps((gone \cup ToSet(b.array) \cup Held(b)) \cup {d}, moved \cup {d})
  BY <1>1, <1>9, <1>10, KeepsNext
<1>12. gone \cup ToSet(b.array) \cup Held(b) \subseteq moved BY <1>9 DEF Keeps
<1>13. d \notin moved BY <1>1, <1>9, StartOrderIs
<1>14. Keeps(gone \cup ToSet(after.array) \cup Held(after), moved \cup {d})
  <2>1. gone \cup ToSet(after.array) \cup Held(after) = (gone \cup ToSet(b.array) \cup Held(b)) \cup {d}
    BY <1>4, <1>7
  <2> QED BY <1>11, <2>1
<1>15. gone \cap ToSet(after.array) = {} /\ Held(after) \cap (gone \cup ToSet(after.array)) = {}
  BY <1>4, <1>7, <1>12, <1>13
<1> HIDE DEF x
<1> QED BY <1>1, <1>4, <1>6, <1>8, <1>14, <1>15

\* Another digi is still active on the pad.
LEMMA FillsHidden ==
    ASSUME NEW b, NEW moved, NEW gone, NEW later, Detects(b, moved, gone, later),
           NEW d \in later, \A e \in later \ {d} : StartOrder(d, e), b.fData_map[d.pad] # -1,
           b.fData_map[d.pad] > d.start,
           NEW after, after = FillDataToDeadTimeMap(b, d)
    PROVE /\ Detects(after, moved \cup {d}, gone, later \ {d})
          /\ after.fStartTime_map = b.fStartTime_map
          /\ \A k \in ToSet(after.array) : k \in ToSet(b.array) \/ k.active <= d.start
<1> USE DEF Detects
<1>1. d \in Digi /\ d.pad \in Pads /\ d.active \in Nat BY DEF Digi
<1>2. PICK S \in SUBSET Digi, D \in SUBSET DeadEntry, M \in [Pads -> Int], A \in Seq(Digi) :
         b = [fStartTime_map |-> S, fDeadTime_map |-> D, fData_map |-> M, array |-> A]
  BY DEF Buffer
<1>3. b.fStartTime_map = S /\ b.fDeadTime_map = D /\ b.fData_map = M /\ b.array = A BY <1>2
<1>4. PICK x \in D : x.digi.pad = d.pad BY <1>1, <1>3 DEF MapsRight
<1>5. /\ x.time = M[d.pad] /\ x.time = x.digi.active /\ x.digi \in Digi
      /\ x = [time |-> x.time, digi |-> x.digi]
  BY <1>3, <1>4 DEF MapsRight, DeadEntry
<1>6. {y \in D : y.time = M[d.pad] /\ y.digi.pad = d.pad} = {x} BY <1>3, <1>4, <1>5 DEF MapsRight
<1>7. \A y \in {x} : x.digi.id <= y.digi.id BY <1>5 DEF Digi
<1>8. (CHOOSE y \in {x} : \A z \in {x} : y.digi.id <= z.digi.id) = x BY <1>7
<1>9. after = StoreActive(EraseActive(b, x), x.digi, M[d.pad])
  BY <1>1, <1>3, <1>6, <1>8 DEF FillDataToDeadTimeMap, FindTimeForData
<1>10. after = b
  <2>1. PICK o : o = x.digi OBVIOUS
  <2>2. PICK p : p = d.pad /\ p = o.pad /\ p = x.digi.pad BY <1>4, <2>1
  <2>3. PICK time : time = M[p] OBVIOUS
  <2>4. b = Record(S, D, M, A) BY <1>2 DEF Record
  <2>5. PICK c : c = EraseActive(b, x) OBVIOUS
  <2>6. c = Record(S, Without(D, x), Put(M, p, -1), A) BY <2>2, <2>4, <2>5, EraseIs
  <2>7. StoreActive(c, o, time)
           = Record(S, With(Without(D, x), o, time), Put(Put(M, p, -1), p, time), A)
    <3>1. PICK W, Q : W = Without(D, x) /\ Q = Put(M, p, -1) OBVIOUS
    <3>2. c = Record(S, W, Q, A) BY <2>6, <3>1
    <3>3. StoreActive(Record(S, W, Q, A), o, time)
             = Record(S, With(W, o, time), Put(Q, o.pad, time), A)
      BY StoreIs
    <3> QED BY <2>2, <3>1, <3>2, <3>3
  <2>8. [time |-> time, digi |-> o] = x BY <1>5, <2>1, <2>2, <2>3
  <2>9. Put(Put(M, p, -1), p, time) = M BY <1>1, <2>2, <2>3 DEF Put
  <2>10. With(Without(D, x), o, time) = D BY <1>4, <2>8 DEF With, Without
  <2> QED BY <1>9, <2>1, <2>2, <2>3, <2>4, <2>5, <2>7, <2>9, <2>10
<1>11. Keeps(gone \cup ToSet(b.array) \cup Held(b), moved) /\ \A g \in moved : StartOrder(g, d)
  OBVIOUS
<1>12. x.digi \in Held(b) /\ x.digi.active > d.start BY <1>3, <1>4, <1>5 DEF Held
<1>13. Keeps(gone \cup ToSet(b.array) \cup Held(b), moved \cup {d})
  BY <1>1, <1>4, <1>11, <1>12, KeepsNext
<1> QED BY <1>1, <1>10, <1>13

\* The digi that was active on the pad is over.
LEMMA FillsNext ==
    ASSUME NEW b, NEW moved, NEW gone, NEW later, Detects(b, moved, gone, later),
           NEW d \in later, \A e \in later \ {d} : StartOrder(d, e), b.fData_map[d.pad] # -1,
           ~(b.fData_map[d.pad] > d.start),
           NEW after, after = FillDataToDeadTimeMap(b, d)
    PROVE /\ Detects(after, moved \cup {d}, gone, later \ {d})
          /\ after.fStartTime_map = b.fStartTime_map
          /\ \A k \in ToSet(after.array) : k \in ToSet(b.array) \/ k.active <= d.start
<1> USE DEF Detects
<1>1. d \in Digi /\ d.pad \in Pads /\ d.active \in Nat /\ d.start \in Nat BY DEF Digi
<1>2. PICK S \in SUBSET Digi, D \in SUBSET DeadEntry, M \in [Pads -> Int], A \in Seq(Digi) :
         b = [fStartTime_map |-> S, fDeadTime_map |-> D, fData_map |-> M, array |-> A]
  BY DEF Buffer
<1>3. b.fStartTime_map = S /\ b.fDeadTime_map = D /\ b.fData_map = M /\ b.array = A BY <1>2
<1>4. PICK x \in D : x.digi.pad = d.pad BY <1>1, <1>3 DEF MapsRight
<1>5. /\ x.time = M[d.pad] /\ x.time = x.digi.active /\ x.digi \in Digi /\ x.time \in Nat
      /\ x = [time |-> x.time, digi |-> x.digi]
  BY <1>3, <1>4 DEF MapsRight, DeadEntry
<1>6. {y \in D : y.time = M[d.pad] /\ y.digi.pad = d.pad} = {x} BY <1>3, <1>4, <1>5 DEF MapsRight
<1>7. \A y \in {x} : x.digi.id <= y.digi.id BY <1>5 DEF Digi
<1>8. (CHOOSE y \in {x} : \A z \in {x} : y.digi.id <= z.digi.id) = x BY <1>7
<1>9. after = StoreActive(AddNewDataToTClonesArray(EraseActive(b, x), x.digi), d, d.active)
  <2>1. FindTimeForData(b, d.pad) = M[d.pad] /\ M[d.pad] \in Int /\ M[d.pad] # -1
        /\ ~(M[d.pad] > d.start) /\ ~(d.active < 0)
    BY <1>1, <1>3 DEF FindTimeForData
  <2>2. {y \in b.fDeadTime_map : y.time = M[d.pad] /\ y.digi.pad = d.pad} = {x} BY <1>3, <1>6
  <2>3. {y \in b.fDeadTime_map : y.time = M[d.pad] /\ y.digi.pad = d.pad} # {} BY <2>2
  <2>4. after = StoreActive(AddNewDataToTClonesArray(EraseActive(b,
                    CHOOSE y \in {x} : \A z \in {x} : y.digi.id <= z.digi.id),
                    (CHOOSE y \in {x} : \A z \in {x} : y.digi.id <= z.digi.id).digi), d, d.active)
    BY <2>1, <2>2, <2>3 DEF FillDataToDeadTimeMap
  <2> QED BY <1>8, <2>4
<1>10. PICK o : o = x.digi OBVIOUS
<1>11. PICK n : n = [time |-> d.active, digi |-> d] OBVIOUS
<1>12. n \in DeadEntry /\ n.time = d.active /\ n.digi = d BY <1>1, <1>11 DEF DeadEntry
<1>13. PICK N : N = [M EXCEPT ![d.pad] = d.active] /\ N \in [Pads -> Int]
  <2>1. [M EXCEPT ![d.pad] = d.active] \in [Pads -> Int] BY <1>1
  <2> QED BY <2>1
<1>14. PICK E : E = (D \ {x}) \cup {n} OBVIOUS
<1>15. after = Record(S, E, N, Append(A, o))
  <2>1. PICK p : p = d.pad /\ p = o.pad /\ p = x.digi.pad BY <1>4, <1>10
  <2>2. b = Record(S, D, M, A) BY <1>2 DEF Record
  <2>3. PICK c : c = EraseActive(b, x) OBVIOUS
  <2>4. c = Record(S, Without(D, x), Put(M, p, -1), A) BY <2>1, <2>2, <2>3, EraseIs
  <2>5. PICK c2 : c2 = AddNewDataToTClonesArray(c, o) OBVIOUS
  <2>6. c2 = Record(S, Without(D, x), Put(M, p, -1), Append(A, o)) BY <2>4, <2>5, AddIs
  <2>7. StoreActive(c2, d, d.active)
           = Record(S, With(Without(D, x), d, d.active), Put(Put(M, p, -1), p, d.active), Append(A, o))
    <3>1. PICK W, Q : W = Without(D, x) /\ Q = Put(M, p, -1) OBVIOUS
    <3>2. c2 = Record(S, W, Q, Append(A, o)) BY <2>6, <3>1
    <3>3. StoreActive(Record(S, W, Q, Append(A, o)), d, d.active)
             = Record(S, With(W, d, d.active), Put(Q, d.pad, d.active), Append(A, o))
      BY StoreIs
    <3> QED BY <2>1, <3>1, <3>2, <3>3
  <2>8. Put(Put(M, p, -1), p, d.active) = N BY <1>1, <1>13, <2>1 DEF Put
  <2>9. With(Without(D, x), d, d.active) = E BY <1>11, <1>14 DEF With, Without
  <2> QED BY <1>9, <1>10, <1>14, <2>3, <2>5, <2>7, <2>8, <2>9
<1>16. /\ after.fStartTime_map = S /\ after.fDeadTime_map = E /\ after.fData_map = N
       /\ after.array = Append(A, o)
  BY <1>15 DEF Record
<1>17. o \in Digi /\ o \in Held(b) /\ o.active <= d.start /\ o.pad = d.pad
  BY <1>1, <1>3, <1>4, <1>5, <1>10 DEF Held
<1>18. Lists(A, ToSet(A)) /\ o \notin ToSet(A) /\ o \notin gone BY <1>3, <1>17
<1>19. Lists(Append(A, o), ToSet(A) \cup {o}) BY <1>18, ListsOneMore
<1>20. ToSet(Append(A, o)) = ToSet(A) \cup {o} /\ Lists(Append(A, o), ToSet(Append(A, o)))
  BY <1>19, ToSetLists
<1>21. after \in Buffer
  <2>1. E \in SUBSET DeadEntry /\ Append(A, o) \in Seq(Digi) BY <1>12, <1>14, <1>17
  <2> QED BY <1>13, <1>15, <2>1 DEF Buffer, Record
<1>22. IsFiniteSet(after.fDeadTime_map)
  <2>1. IsFiniteSet(D \ {x}) BY <1>3, FS_RemoveElement
  <2>2. IsFiniteSet((D \ {x}) \cup {n}) BY <2>1, FS_AddElement
  <2> QED BY <1>14, <1>16, <2>2
<1>23. \A y \in D \ {x} : y.digi.pad # d.pad /\ y.digi.pad \in Pads /\ y \in D
  BY <1>3, <1>4 DEF MapsRight, DeadEntry, Digi
<1>24. MapsRight(after)
  <2>1. ASSUME NEW y \in E
        PROVE y.time = y.digi.active /\ y.time \in Nat /\ N[y.digi.pad] = y.time
    <3>1. CASE y = n BY <1>1, <1>12, <1>13, <3>1
    <3>2. CASE y # n
      <4>1. y \in D \ {x} BY <1>14, <3>2
      <4> QED BY <1>3, <1>13, <1>23, <4>1 DEF MapsRight
    <3> QED BY <3>1, <3>2
  <2>2. ASSUME NEW p \in Pads, N[p] # -1 PROVE \E y \in E : y.digi.pad = p
    <3>1. CASE p = d.pad BY <1>12, <1>14, <3>1
    <3>2. CASE p # d.pad
      <4>1. M[p] # -1 BY <1>13, <2>2, <3>2
      <4>2. PICK y \in D : y.digi.pad = p BY <1>3, <4>1 DEF MapsRight
      <4>3. y \in E BY <1>4, <1>14, <3>2, <4>2
      <4> QED BY <4>2, <4>3
    <3> QED BY <3>1, <3>2
  <2>3. ASSUME NEW y \in E, NEW z \in E, y.digi.pad = z.digi.pad PROVE y = z
    BY <1>3, <1>12, <1>14, <1>23, <2>3 DEF MapsRight
  <2> QED BY <1>16, <2>1, <2>2, <2>3 DEF MapsRight
<1>25. Held(after) = (Held(b) \ {o}) \cup {d}
  <2>1. \A y \in D \ {x} : y.digi # o BY <1>17, <1>23
  <2>2. Held(b) \ {o} = {y.digi : y \in D \ {x}} BY <1>3, <1>4, <1>10, <2>1 DEF Held
  <2>3. Held(after) = {y.digi : y \in D \ {x}} \cup {d} BY <1>12, <1>14, <1>16 DEF Held
  <2> QED BY <2>2, <2>3
<1>26. Keeps(gone \cup ToSet(A) \cup Held(b), moved) /\ \A g \in moved : StartOrder(g, d)
  BY <1>3
<1>27. ASSUME NEW k \in gone \cup ToSet(A) \cup Held(b), k.pad = d.pad PROVE k.active <= d.start
  <2>1. CASE k \in gone \cup ToSet(A) BY <1>3, <2>1
  <2>2. CASE k \in Held(b)
    <3>1. k = o BY <1>3, <1>10, <1>23, <1>27, <2>2 DEF Held
    <3> QED BY <1>17, <3>1
  <2> QED BY <2>1, <2>2
<1>28. Keeps((gone \cup ToSet(A) \cup Held(b)) \cup {d}, moved \cup {d})
  BY <1>1, <1>26, <1>27, KeepsNext
<1>29. Keeps(gone \cup ToSet(after.array) \cup Held(after), moved \cup {d})
  <2>1. gone \cup ToSet(after.array) \cup Held(after) = (gone \cup ToSet(A) \cup Held(b)) \cup {d}
    BY <1>16, <1>17, <1>20, <1>25
  <2> QED BY <1>28, <2>1
<1>30. d \notin moved BY <1>1, <1>26, StartOrderIs
<1>31. gone \cap ToSet(after.array) = {} /\ Held(after) \cap (gone \cup ToSet(after.array)) = {}
  <2>1. gone \cup ToSet(A) \cup Held(b) \subseteq moved BY <1>26 DEF Keeps
  <2>2. gone \cap ToSet(A) = {} /\ Held(b) \cap (gone \cup ToSet(A)) = {} BY <1>3
  <2> QED BY <1>16, <1>17, <1>18, <1>20, <1>25, <1>30, <2>1, <2>2
<1>32. ASSUME NEW e \in later \ {d}
       PROVE /\ \A g \in moved \cup {d} : StartOrder(g, e)
             /\ \A k \in gone \cup ToSet(after.array) : k.active <= e.start
  <2>1. StartOrder(d, e) /\ e \in Digi OBVIOUS
  <2>2. d.start <= e.start /\ e.start \in Nat BY <1>1, <2>1, StartOrderIs DEF Digi
  <2>3. o.active <= e.start
    <3>1. o.active \in Int BY <1>17 DEF Digi
    <3> QED BY <1>1, <1>17, <2>2, <3>1
  <2> QED BY <1>3, <1>16, <1>20, <2>1, <2>3
<1>33. Lists(after.array, ToSet(after.array)) BY <1>16, <1>20
<1>34. moved \cup {d} \subseteq Digi /\ later \ {d} \subseteq Digi
       /\ \A e \in (moved \cup {d}) \cup (later \ {d}) : e.active \in Nat
  BY <1>1
<1>35. \A k \in ToSet(after.array) : k \in ToSet(b.array) \/ k.active <= d.start
  BY <1>3, <1>17, <1>20, <1>16
<1>36. Detects(after, moved \cup {d}, gone, later \ {d})
  BY <1>3, <1>16, <1>21, <1>22, <1>24, <1>29, <1>31, <1>32, <1>33, <1>34
<1> QED BY <1>3, <1>16, <1>35, <1>36

LEMMA FillsOne ==
    ASSUME NEW b, NEW moved, NEW gone, NEW later, Detects(b, moved, gone, later),
           NEW d \in later, \A e \in later \ {d} : StartOrder(d, e),
           NEW after, after = FillDataToDeadTimeMap(b, d)
    PROVE /\ Detects(after, moved \cup {d}, gone, later \ {d})
          /\ after.fStartTime_map = b.fStartTime_map
          /\ \A k \in ToSet(after.array) : k \in ToSet(b.array) \/ k.active <= d.start
<1>1. CASE b.fData_map[d.pad] = -1 BY <1>1, FillsFreePad
<1>2. CASE b.fData_map[d.pad] # -1 /\ b.fData_map[d.pad] > d.start BY <1>2, FillsHidden
<1>3. CASE b.fData_map[d.pad] # -1 /\ ~(b.fData_map[d.pad] > d.start) BY <1>3, FillsNext
<1> QED BY <1>1, <1>2, <1>3

\* Where nothing is asked of the start-time map, only the others count.
LEMMA DetectsSame ==
    ASSUME NEW b, NEW moved, NEW gone, NEW later, Detects(b, moved, gone, later),
           NEW c \in Buffer, c.fDeadTime_map = b.fDeadTime_map, c.fData_map = b.fData_map,
           c.array = b.array
    PROVE Detects(c, moved, gone, later)
<1>1. MapsRight(c) /\ Held(c) = Held(b) BY DEF Detects, MapsRight, Held
<1> QED BY <1>1 DEF Detects

\* No two digis have the same number.
Numbered(S) == \A x, y \in S : x.id = y.id => x = y

\* The digis in the order in which a map has them.
LEMMA StartOrders ==
    ASSUME NEW S \in SUBSET Digi, IsFiniteSet(S), \A x, y \in S : x.id = y.id => x = y,
           NEW s, s = InStartOrder(S)
    PROVE /\ Lists(s, S) /\ Len(s) \in Nat /\ DOMAIN s = 1 .. Len(s)
          /\ \A i, j \in 1 .. Len(s) : i < j => StartOrder(s[i], s[j])
<1> DEFINE key == [x \in S |-> x.start]
           num == [x \in S |-> x.id]
           n == Cardinality(S)
           Good(t) == \A i, j \in DOMAIN t : i < j => StartOrder(t[i], t[j])
<1>1. key \in [S -> Nat] /\ num \in [S -> Nat] BY DEF Digi
<1>2. \A x, y \in S : num[x] = num[y] => x = y OBVIOUS
<1>3. PICK r : InOrderOf(r, S, key, num)
  <2> HIDE DEF key, num
  <2> QED BY <1>1, <1>2, OrderExists
<1>4. r \in [1 .. n -> S] /\ \A i, j \in 1 .. n : i < j => Before(key, num, r[i], r[j])
  <2> HIDE DEF key, num
  <2> QED BY <1>3 DEF InOrderOf
<1>5. \A x, y \in S : Before(key, num, x, y) <=> StartOrder(x, y) BY DEF Before, StartOrder
<1>6. r \in [1 .. n -> S] /\ Good(r)
  <2> HIDE DEF key, num
  <2> QED BY <1>4, <1>5
<1>7. s = CHOOSE t \in [1 .. n -> S] : Good(t) BY DEF InStartOrder, InOrder
<1>8. s \in [1 .. n -> S] /\ Good(s)
  <2> HIDE DEF Good, n
  <2> QED BY <1>6, <1>7
<1>9. InOrderOf(s, S, key, num)
  <2> HIDE DEF key, num
  <2> QED BY <1>5, <1>8 DEF InOrderOf
<1>10. Lists(s, S) /\ Len(s) = n
  <2> HIDE DEF key, num
  <2> QED BY <1>1, <1>2, <1>9, OrderLists
<1>11. n \in Nat BY FS_CardinalityType
<1> HIDE DEF n
<1> QED BY <1>8, <1>10, <1>11

LEMMA DeadOrders ==
    ASSUME NEW S \in SUBSET DeadEntry, IsFiniteSet(S), \A x, y \in S : x.digi.id = y.digi.id => x = y,
           NEW s, s = InDeadOrder(S)
    PROVE Lists(s, S) /\ Len(s) \in Nat /\ DOMAIN s = 1 .. Len(s)
<1> DEFINE key == [x \in S |-> x.time]
           num == [x \in S |-> x.digi.id]
           n == Cardinality(S)
           Good(t) == \A i, j \in DOMAIN t : i < j => DeadOrder(t[i], t[j])
<1>1. key \in [S -> Nat] /\ num \in [S -> Nat] BY DEF DeadEntry, Digi
<1>2. \A x, y \in S : num[x] = num[y] => x = y OBVIOUS
<1>3. PICK r : InOrderOf(r, S, key, num)
  <2> HIDE DEF key, num
  <2> QED BY <1>1, <1>2, OrderExists
<1>4. r \in [1 .. n -> S] /\ \A i, j \in 1 .. n : i < j => Before(key, num, r[i], r[j])
  <2> HIDE DEF key, num
  <2> QED BY <1>3 DEF InOrderOf
<1>5. \A x, y \in S : Before(key, num, x, y) <=> DeadOrder(x, y) BY DEF Before, DeadOrder
<1>6. r \in [1 .. n -> S] /\ Good(r)
  <2> HIDE DEF key, num
  <2> QED BY <1>4, <1>5
<1>7. s = CHOOSE t \in [1 .. n -> S] : Good(t) BY DEF InDeadOrder, InOrder
<1>8. s \in [1 .. n -> S] /\ Good(s)
  <2> HIDE DEF Good, n
  <2> QED BY <1>6, <1>7
<1>9. InOrderOf(s, S, key, num)
  <2> HIDE DEF key, num
  <2> QED BY <1>5, <1>8 DEF InOrderOf
<1>10. Lists(s, S) /\ Len(s) = n
  <2> HIDE DEF key, num
  <2> QED BY <1>1, <1>2, <1>9, OrderLists
<1>11. n \in Nat BY FS_CardinalityType
<1> HIDE DEF n
<1> QED BY <1>8, <1>10, <1>11

-----------------------------------------------------------------------------
(* Moving digis to the dead-time map, one after another. *)

Fills(f, b, s, n) ==
    /\ f \in [0 .. n -> {f[i] : i \in 0 .. n}]
    /\ f[0] = b
    /\ \A i \in 1 .. n : f[i] = FillDataToDeadTimeMap(f[i - 1], s[i])

\* The digis that began, and what the buffer is without them.
Begun(b, time) == {d \in b.fStartTime_map : d.start < time}
Rest(c, begun) == [c EXCEPT !.fStartTime_map = @ \ begun]

LEMMA FillsExist == ASSUME NEW b, NEW s, NEW n \in Nat PROVE \E f : Fills(f, b, s, n)
<1> DEFINE S == {k \in 0 .. n : \E f : Fills(f, b, s, k)}
<1>1. 0 \in S
  <2> DEFINE f == [i \in 0 .. 0 |-> b]
  <2>1. f \in [0 .. 0 -> {f[i] : i \in 0 .. 0}] /\ f[0] = b OBVIOUS
  <2>2. 1 .. 0 = {} OBVIOUS
  <2> HIDE DEF f
  <2>3. Fills(f, b, s, 0) BY <2>1, <2>2 DEF Fills
  <2> QED BY <2>3
<1>2. ASSUME NEW k \in 0 .. n - 1, k \in S PROVE k + 1 \in S
  <2>1. PICK f : Fills(f, b, s, k) BY <1>2
  <2>2. PICK y : y = FillDataToDeadTimeMap(f[k], s[k + 1]) OBVIOUS
  <2> DEFINE g == [i \in 0 .. k + 1 |-> IF i = k + 1 THEN y ELSE f[i]]
  <2>3. g \in [0 .. k + 1 -> {g[i] : i \in 0 .. k + 1}] OBVIOUS
  <2>4. g[0] = b BY <2>1 DEF Fills
  <2>5. \A i \in 0 .. k : g[i] = f[i] OBVIOUS
  <2>6. g[k + 1] = y OBVIOUS
  <2> HIDE DEF g
  <2>7. ASSUME NEW i \in 1 .. k + 1 PROVE g[i] = FillDataToDeadTimeMap(g[i - 1], s[i])
    <3>1. CASE i = k + 1
      <4>1. i - 1 = k /\ k \in 0 .. k BY <3>1
      <4> QED BY <2>2, <2>5, <2>6, <3>1, <4>1
    <3>2. CASE i # k + 1
      <4>1. i \in 1 .. k /\ i \in 0 .. k /\ i - 1 \in 0 .. k BY <3>2
      <4>2. f[i] = FillDataToDeadTimeMap(f[i - 1], s[i]) BY <2>1, <4>1 DEF Fills
      <4> QED BY <2>5, <4>1, <4>2
    <3> QED BY <3>1, <3>2
  <2>8. Fills(g, b, s, k + 1) BY <2>3, <2>4, <2>7 DEF Fills
  <2> QED BY <2>8
<1>3. 0 .. n \subseteq S
  <2> HIDE DEF S
  <2> QED BY <1>1, <1>2, InductionUpTo
<1>4. n \in 0 .. n OBVIOUS
<1> QED BY <1>3, <1>4

LEMMA MoveIs ==
    ASSUME NEW b, NEW time, NEW begun, begun = Begun(b, time),
           NEW s, s = InStartOrder(begun), NEW n \in Nat, n = Len(s), NEW f, Fills(f, b, s, n)
    PROVE MoveDataFromStartTimeMapToDeadTimeMap(b, time) = Rest(f[n], begun)
<1> DEFINE Step(g, k) == IF k = 0 THEN b ELSE FillDataToDeadTimeMap(g[k - 1], s[k])
           Unfolds(g) == g = [k \in 0 .. n |-> Step(g, k)]
           Same(g) == {i \in 0 .. n : g[i] = f[i]}
<1>1. Unfolds(f)
  <2>1. \A i \in 0 .. n : f[i] = Step(f, i)
    <3> TAKE i \in 0 .. n
    <3>1. CASE i = 0 BY <3>1 DEF Fills
    <3>2. CASE i # 0
      <4>1. i \in 1 .. n BY <3>2
      <4>2. f[i] = FillDataToDeadTimeMap(f[i - 1], s[i]) BY <4>1 DEF Fills
      <4> QED BY <3>2, <4>2
    <3> QED BY <3>1, <3>2
  <2> HIDE DEF Step
  <2> QED BY <2>1 DEF Fills
<1>2. MoveDataFromStartTimeMapToDeadTimeMap(b, time)
         = Rest((CHOOSE g : Unfolds(g))[n], begun)
  BY DEF MoveDataFromStartTimeMapToDeadTimeMap, Begun, Rest
<1>3. PICK g : Unfolds(g) /\ g = CHOOSE h : Unfolds(h)
  <2> HIDE DEF Unfolds
  <2> QED BY <1>1
<1>4. \A i \in 0 .. n : g[i] = Step(g, i)
  <2> HIDE DEF Step
  <2> QED BY <1>3
<1>5. g[0] = f[0] BY <1>4 DEF Fills
<1>6. \A i \in 0 .. n - 1 : g[i] = f[i] => g[i + 1] = f[i + 1]
  <2> TAKE i \in 0 .. n - 1
  <2>1. i + 1 \in 1 .. n /\ i + 1 \in 0 .. n /\ (i + 1) - 1 = i OBVIOUS
  <2>2. g[i + 1] = FillDataToDeadTimeMap(g[i], s[i + 1])
    <3>1. g[i + 1] = Step(g, i + 1)
      <4> HIDE DEF Step
      <4> QED BY <1>4, <2>1
    <3>2. i + 1 # 0 OBVIOUS
    <3> QED BY <2>1, <3>1, <3>2
  <2>3. f[i + 1] = FillDataToDeadTimeMap(f[i], s[i + 1]) BY <2>1 DEF Fills
  <2> QED BY <2>2, <2>3
<1>7. 0 \in Same(g) /\ \A i \in 0 .. n - 1 : i \in Same(g) => i + 1 \in Same(g)
  BY <1>5, <1>6
<1>8. n \in Same(g)
  <2>1. 0 \in Int /\ 0 \in Nat /\ n \in Int /\ n \in 0 .. n OBVIOUS
  <2>2. PICK T : T = Same(g) OBVIOUS
  <2> HIDE DEF Same
  <2>3. 0 .. n \subseteq T BY <1>7, <2>1, <2>2, InductionUpTo
  <2> QED BY <2>1, <2>2, <2>3
<1>9. g[n] = f[n] BY <1>8
<1> HIDE DEF Unfolds
<1> QED BY <1>2, <1>3, <1>9

\* What moving makes of the buffer b: those that have begun are among the digis moved.
MovedRight(b, moved, gone, time, after) ==
    /\ Detects(after, moved \cup Begun(b, time), gone, after.fStartTime_map)
    /\ after.fStartTime_map = b.fStartTime_map \ Begun(b, time)
    /\ \A k \in ToSet(after.array) : k \in ToSet(b.array) \/ k.active <= time

LEMMA MoveDetects ==
    ASSUME NEW b, NEW moved, NEW gone, Detects(b, moved, gone, b.fStartTime_map),
           IsFiniteSet(b.fStartTime_map), Numbered(b.fStartTime_map),
           NEW time \in Nat, NEW after, after = MoveDataFromStartTimeMapToDeadTimeMap(b, time)
    PROVE MovedRight(b, moved, gone, time, after)
<1>0. PICK begun : begun = Begun(b, time) OBVIOUS
<1>1. PICK L : L = b.fStartTime_map OBVIOUS
<1>2. L \subseteq Digi /\ IsFiniteSet(L) /\ Numbered(L) /\ begun \subseteq L
      /\ Detects(b, moved, gone, L)
  BY <1>0, <1>1 DEF Detects, Begun
<1>3. begun \in SUBSET Digi /\ IsFiniteSet(begun) /\ \A x, y \in begun : x.id = y.id => x = y
  BY <1>2, FS_Subset DEF Numbered
<1>4. PICK s : s = InStartOrder(begun) OBVIOUS
<1>5. /\ Lists(s, begun) /\ Len(s) \in Nat /\ DOMAIN s = 1 .. Len(s)
      /\ \A i, j \in 1 .. Len(s) : i < j => StartOrder(s[i], s[j])
  BY <1>3, <1>4, StartOrders
<1>6. PICK n \in Nat : n = Len(s) BY <1>5
<1>7. begun = {s[i] : i \in 1 .. n} /\ \A i, j \in 1 .. n : s[i] = s[j] => i = j
  BY <1>5, <1>6 DEF Lists
<1>8. PICK f : Fills(f, b, s, n) BY FillsExist
<1>9. after = Rest(f[n], begun) BY <1>0, <1>4, <1>6, <1>8, MoveIs
<1> DEFINE First(i) == {s[j] : j \in 1 .. i}
           Good(i) == /\ Detects(f[i], moved \cup First(i), gone, L \ First(i))
                      /\ f[i].fStartTime_map = L
                      /\ \A k \in ToSet(f[i].array) : k \in ToSet(b.array) \/ k.active <= time
           S == {i \in 0 .. n : Good(i)}
<1>10. 0 \in S
  <2>1. First(0) = {} OBVIOUS
  <2>2. moved \cup First(0) = moved /\ L \ First(0) = L BY <2>1
  <2>3. f[0] = b BY <1>8 DEF Fills
  <2> HIDE DEF First
  <2>4. Good(0) BY <1>1, <1>2, <2>2, <2>3
  <2> QED BY <2>4
<1>11. ASSUME NEW i \in 0 .. n - 1, i \in S PROVE i + 1 \in S
  <2>1. i + 1 \in 1 .. n /\ i + 1 \in 0 .. n /\ (i + 1) - 1 = i OBVIOUS
  <2>2. PICK c, d, M, R : c = f[i] /\ d = s[i + 1] /\ M = moved \cup First(i) /\ R = L \ First(i) OBVIOUS
  <2>3. /\ Detects(c, M, gone, R) /\ c.fStartTime_map = L
        /\ \A k \in ToSet(c.array) : k \in ToSet(b.array) \/ k.active <= time
    <3> HIDE DEF First
    <3> QED BY <1>11, <2>2
  <2>4. f[i + 1] = FillDataToDeadTimeMap(c, d) BY <1>8, <2>1, <2>2 DEF Fills
  <2>5. d \in R
    <3>1. d \in L BY <1>2, <1>7, <2>1, <2>2
    <3>2. \A j \in 1 .. i : j \in 1 .. n /\ j # i + 1 OBVIOUS
    <3>3. d \notin First(i) BY <1>7, <2>1, <2>2, <3>2
    <3> HIDE DEF First
    <3> QED BY <2>2, <3>1, <3>3
  <2>6. ASSUME NEW e \in R \ {d} PROVE StartOrder(d, e)
    <3>1. e \in L /\ e # d /\ e \in Digi /\ d \in Digi /\ d \in begun /\ d.start < time
      BY <1>0, <1>2, <1>7, <2>1, <2>2, <2>5, <2>6 DEF Begun
    <3>2. CASE e \in begun
      <4>1. PICK j \in 1 .. n : e = s[j] BY <1>7, <3>2
      <4>2. j \notin 1 .. i BY <2>2, <4>1
      <4>3. j # i + 1 BY <2>2, <3>1, <4>1
      <4>4. i + 1 < j BY <4>2, <4>3
      <4> QED BY <1>5, <1>6, <2>1, <2>2, <4>1, <4>4
    <3>3. CASE e \notin begun
      <4>1. ~(e.start < time) BY <1>0, <1>1, <3>1, <3>3 DEF Begun
      <4>2. d.start < e.start BY <3>1, <4>1 DEF Digi
      <4> QED BY <4>2 DEF StartOrder
    <3> QED BY <3>2, <3>3
  <2>7. /\ Detects(f[i + 1], M \cup {d}, gone, R \ {d}) /\ f[i + 1].fStartTime_map = L
        /\ \A k \in ToSet(f[i + 1].array) : k \in ToSet(b.array) \/ k.active <= time
    <3>1. PICK g : g = FillDataToDeadTimeMap(c, d) OBVIOUS
    <3>2. /\ Detects(g, M \cup {d}, gone, R \ {d}) /\ g.fStartTime_map = c.fStartTime_map
          /\ \A k \in ToSet(g.array) : k \in ToSet(c.array) \/ k.active <= d.start
      BY <2>3, <2>5, <2>6, <3>1, FillsOne
    <3>3. d \in Digi /\ d.start < time BY <1>0, <1>3, <1>7, <2>1, <2>2 DEF Begun
    <3>4. ASSUME NEW k \in ToSet(g.array) PROVE k \in ToSet(b.array) \/ k.active <= time
      <4>1. CASE k \in ToSet(c.array) BY <2>3, <4>1
      <4>2. CASE k.active <= d.start
        <5>1. k \in Digi
          <6>1. g.array \in Seq(Digi) BY <3>2 DEF Detects, Buffer
          <6> QED BY <6>1, SeqListed
        <5> QED BY <3>3, <4>2, <5>1 DEF Digi
      <4> QED BY <3>2, <4>1, <4>2
    <3> QED BY <2>3, <2>4, <3>1, <3>2, <3>4
  <2>8. First(i + 1) = First(i) \cup {d}
    <3>1. 1 .. i + 1 = (1 .. i) \cup {i + 1} OBVIOUS
    <3> QED BY <2>2, <3>1
  <2>9. moved \cup First(i + 1) = M \cup {d} /\ L \ First(i + 1) = R \ {d}
    <3> HIDE DEF First
    <3> QED BY <2>2, <2>8
  <2> HIDE DEF First
  <2>10. Good(i + 1) BY <2>7, <2>9
  <2> QED BY <2>1, <2>10
<1>12. n \in S
  <2>1. 0 \in Int /\ 0 \in Nat /\ n \in Int /\ n \in 0 .. n OBVIOUS
  <2> HIDE DEF S
  <2>2. 0 .. n \subseteq S BY <1>10, <1>11, <2>1, InductionUpTo
  <2> QED BY <2>1, <2>2
<1>13. PICK c : c = f[n] OBVIOUS
<1>14. /\ Detects(c, moved \cup begun, gone, L \ begun) /\ c.fStartTime_map = L
       /\ \A k \in ToSet(c.array) : k \in ToSet(b.array) \/ k.active <= time
  <2>1. First(n) = begun BY <1>7
  <2> HIDE DEF First
  <2> QED BY <1>12, <1>13, <2>1
<1>15. /\ after \in Buffer /\ after.fStartTime_map = L \ begun
       /\ after.fDeadTime_map = c.fDeadTime_map /\ after.fData_map = c.fData_map
       /\ after.array = c.array
  <2>1. c \in Buffer BY <1>14 DEF Detects
  <2>2. PICK D \in SUBSET DeadEntry, M \in [Pads -> Int], A \in Seq(Digi) :
           c = [fStartTime_map |-> L, fDeadTime_map |-> D, fData_map |-> M, array |-> A]
    BY <1>14, <2>1 DEF Buffer
  <2>3. after = [c EXCEPT !.fStartTime_map = @ \ begun] BY <1>9, <1>13 DEF Rest
  <2>4. PICK T : T = L \ begun OBVIOUS
  <2>5. after = [fStartTime_map |-> T, fDeadTime_map |-> D, fData_map |-> M, array |-> A]
    BY <2>2, <2>3, <2>4
  <2>6. T \in SUBSET Digi BY <1>2, <2>4
  <2> QED BY <2>2, <2>4, <2>5, <2>6 DEF Buffer
<1>16. Detects(after, moved \cup begun, gone, L \ begun) BY <1>14, <1>15, DetectsSame
<1> QED BY <1>0, <1>1, <1>14, <1>15, <1>16 DEF MovedRight

-----------------------------------------------------------------------------
(* Writing out. *)

\* The entries of the dead-time map whose time is over, and their digis in the order written.
Over(b, time) == {x \in b.fDeadTime_map : x.time < time}
DigisOf(s) == [k \in DOMAIN s |-> s[k].digi]
Freed(M, over) == [p \in Pads |-> IF \E x \in over : x.digi.pad = p THEN -1 ELSE M[p]]

LEMMA WriteOutIs ==
    ASSUME NEW S, NEW D, NEW M, NEW A, NEW b, b = Record(S, D, M, A), NEW time,
           NEW over, over = Over(b, time), NEW s, s = InDeadOrder(over)
    PROVE WriteOutDataDeadTimeMap(b, time) = Record(S, D \ over, Freed(M, over), A \o DigisOf(s))
<1>1. PICK O : O = {x \in b.fDeadTime_map : x.time < time} OBVIOUS
<1>2. O = over BY <1>1 DEF Over
<1>3. b.fStartTime_map = S /\ b.fDeadTime_map = D /\ b.fData_map = M /\ b.array = A BY DEF Record
<1>4. PICK E : E = b.fDeadTime_map \ O OBVIOUS
<1>5. PICK N : N = [p \in Pads |-> IF \E x \in O : x.digi.pad = p THEN -1 ELSE b.fData_map[p]] OBVIOUS
<1>6. PICK B : B = b.array \o [k \in DOMAIN InDeadOrder(O) |-> InDeadOrder(O)[k].digi] OBVIOUS
<1>7. WriteOutDataDeadTimeMap(b, time) = [b EXCEPT !.fDeadTime_map = E, !.fData_map = N, !.array = B]
  BY <1>1, <1>4, <1>5, <1>6 DEF WriteOutDataDeadTimeMap
<1>8. [b EXCEPT !.fDeadTime_map = E, !.fData_map = N, !.array = B] = Record(S, E, N, B)
  <2>1. b = [fStartTime_map |-> S, fDeadTime_map |-> D, fData_map |-> M, array |-> A] BY DEF Record
  <2>2. PICK c : c = [b EXCEPT !.fDeadTime_map = E] OBVIOUS
  <2>3. c = [fStartTime_map |-> S, fDeadTime_map |-> E, fData_map |-> M, array |-> A] BY <2>1, <2>2
  <2>4. PICK e : e = [c EXCEPT !.fData_map = N] OBVIOUS
  <2>5. e = [fStartTime_map |-> S, fDeadTime_map |-> E, fData_map |-> N, array |-> A] BY <2>3, <2>4
  <2>6. [e EXCEPT !.array = B] = [fStartTime_map |-> S, fDeadTime_map |-> E, fData_map |-> N, array |-> B]
    BY <2>5
  <2>7. [b EXCEPT !.fDeadTime_map = E, !.fData_map = N, !.array = B] = [e EXCEPT !.array = B]
    BY <2>1, <2>2, <2>4, SMT
  <2> QED BY <2>6, <2>7 DEF Record
<1>9. E = D \ over BY <1>2, <1>3, <1>4
<1>10. N = Freed(M, over) BY <1>2, <1>3, <1>5 DEF Freed
<1>11. B = A \o DigisOf(s) BY <1>2, <1>3, <1>6 DEF DigisOf
<1> QED BY <1>7, <1>8, <1>9, <1>10, <1>11

LEMMA WriteOutDetects ==
    ASSUME NEW b, NEW moved, NEW gone, Detects(b, moved, gone, b.fStartTime_map),
           Numbered(moved),
           NEW time \in Nat, \A d \in b.fStartTime_map : ~(d.start < time),
           NEW after, after = WriteOutDataDeadTimeMap(b, time)
    PROVE /\ Detects(after, moved, gone, after.fStartTime_map)
          /\ after.fStartTime_map = b.fStartTime_map
          /\ after.fDeadTime_map = b.fDeadTime_map \ Over(b, time)
          /\ ToSet(b.array) \subseteq ToSet(after.array)
          /\ \A k \in ToSet(after.array) : k \in ToSet(b.array) \/ k.active < time
<1> USE DEF Detects
<1>1. PICK S \in SUBSET Digi, D \in SUBSET DeadEntry, M \in [Pads -> Int], A \in Seq(Digi) :
         b = [fStartTime_map |-> S, fDeadTime_map |-> D, fData_map |-> M, array |-> A]
  BY DEF Buffer
<1>2. b.fStartTime_map = S /\ b.fDeadTime_map = D /\ b.fData_map = M /\ b.array = A BY <1>1
<1>3. PICK over : over = Over(b, time) OBVIOUS
<1>4. over \subseteq D /\ (\A x \in over : x.time < time) /\ \A x \in D \ over : ~(x.time < time)
  BY <1>2, <1>3 DEF Over
<1>5. \A x \in D : /\ x.digi \in Digi /\ x.digi \in moved /\ x.digi.pad \in Pads /\ x.digi \in Held(b)
                   /\ x.digi \notin ToSet(A) /\ x.digi \notin gone /\ x.time = x.digi.active
                   /\ x.time \in Nat /\ M[x.digi.pad] = x.time
  <2> TAKE x \in D
  <2>1. x.digi \in Held(b) BY <1>2 DEF Held
  <2>2. x.digi \in moved BY <2>1 DEF Keeps
  <2>3. x.digi \in Digi /\ x.digi.pad \in Pads BY <2>2 DEF Digi
  <2> QED BY <1>2, <2>1, <2>2, <2>3 DEF MapsRight
<1>6. \A x, y \in D : x.digi.pad = y.digi.pad => x = y BY <1>2 DEF MapsRight
<1>7. PICK s : s = InDeadOrder(over) OBVIOUS
<1>8. Lists(s, over) /\ Len(s) \in Nat /\ DOMAIN s = 1 .. Len(s)
  <2>1. over \in SUBSET DeadEntry BY <1>4
  <2>2. IsFiniteSet(over) BY <1>2, <1>4, FS_Subset
  <2>3. ASSUME NEW x \in over, NEW y \in over, x.digi.id = y.digi.id PROVE x = y
    <3>1. x.digi = y.digi BY <1>4, <1>5, <2>3 DEF Numbered
    <3> QED BY <1>4, <1>6, <3>1
  <2> QED BY <1>7, <2>1, <2>2, <2>3, DeadOrders
<1>9. PICK t : t = DigisOf(s) OBVIOUS
<1>10. PICK G : G = {x.digi : x \in over} OBVIOUS
<1>11. Lists(t, G)
  <2>1. PICK n \in Nat : n = Len(s) /\ DOMAIN s = 1 .. n BY <1>8
  <2>2. over = {s[i] : i \in 1 .. n} /\ \A i, j \in 1 .. n : s[i] = s[j] => i = j
    BY <1>8, <2>1 DEF Lists
  <2>3. t = [k \in 1 .. n |-> s[k].digi] BY <1>9, <2>1 DEF DigisOf
  <2>4. DOMAIN t = 1 .. n /\ \A k \in 1 .. n : t[k] = s[k].digi /\ s[k] \in over BY <2>2, <2>3
  <2>5. IsSeq(t)
    <3>1. t \in [1 .. n -> Digi] BY <1>4, <1>5, <2>3, <2>4
    <3>2. t \in Seq(Digi) BY <3>1
    <3> QED BY <3>2 DEF IsSeq
  <2>6. G = {t[i] : i \in DOMAIN t}
    <3>1. \A x \in over : \E i \in 1 .. n : x = s[i] BY <2>2
    <3>2. \A x \in over : \E i \in DOMAIN t : x.digi = t[i] BY <2>4, <3>1
    <3>3. \A i \in DOMAIN t : t[i] \in G BY <1>10, <2>4
    <3> QED BY <1>10, <3>2, <3>3
  <2>7. \A i, j \in DOMAIN t : t[i] = t[j] => i = j
    <3> TAKE i, j \in DOMAIN t
    <3> HAVE t[i] = t[j]
    <3>1. s[i] \in D /\ s[j] \in D /\ s[i].digi = s[j].digi BY <1>4, <2>4
    <3>2. s[i] = s[j] BY <1>6, <3>1
    <3> QED BY <2>2, <2>4, <3>2
  <2> QED BY <2>5, <2>6, <2>7 DEF Lists
<1>12. G \subseteq Held(b) /\ G \subseteq Digi /\ G \cap ToSet(A) = {} /\ G \cap gone = {}
       /\ \A g \in G : g.active < time
  BY <1>4, <1>5, <1>10
<1>13. PICK B : B = A \o t OBVIOUS
<1>14. Lists(B, ToSet(A) \cup G)
  <2>1. Lists(A, ToSet(A)) /\ ToSet(A) \cap G = {} BY <1>2, <1>12
  <2> QED BY <1>11, <1>13, <2>1, ListsBoth
<1>15. ToSet(B) = ToSet(A) \cup G /\ Lists(B, ToSet(B)) BY <1>14, ToSetLists
<1>16. PICK N : N = Freed(M, over) OBVIOUS
<1>17. PICK E : E = D \ over OBVIOUS
<1>18. N \in [Pads -> Int]
       /\ \A p \in Pads : N[p] = IF \E x \in over : x.digi.pad = p THEN -1 ELSE M[p]
  BY <1>16 DEF Freed
<1>19. after = Record(S, E, N, B)
  <2>1. b = Record(S, D, M, A) BY <1>1 DEF Record
  <2> QED BY <1>3, <1>7, <1>9, <1>13, <1>16, <1>17, <2>1, WriteOutIs
<1>20. /\ after.fStartTime_map = S /\ after.fDeadTime_map = E /\ after.fData_map = N /\ after.array = B
       /\ after = [fStartTime_map |-> S, fDeadTime_map |-> E, fData_map |-> N, array |-> B]
  BY <1>19 DEF Record
<1>21. after \in Buffer
  <2>1. B \in Seq(Digi)
    <3>1. t \in Seq(Digi)
      <4>1. IsSeq(t) /\ {t[i] : i \in DOMAIN t} \subseteq Digi BY <1>11, <1>12 DEF Lists
      <4>2. PICK T : t \in Seq(T) BY <4>1 DEF IsSeq
      <4> QED BY <4>1, <4>2
    <3> QED BY <1>13, <3>1
  <2>2. E \in SUBSET DeadEntry BY <1>17
  <2> QED BY <1>18, <1>20, <2>1, <2>2 DEF Buffer
<1>22. IsFiniteSet(E) BY <1>2, <1>17, FS_Subset
<1>23. \A y \in E : y \in D /\ N[y.digi.pad] = M[y.digi.pad]
  <2> TAKE y \in E
  <2>1. y \in D /\ y \notin over BY <1>17
  <2>2. ~ \E x \in over : x.digi.pad = y.digi.pad BY <1>4, <1>6, <2>1
  <2> QED BY <1>5, <1>18, <2>1, <2>2
<1>24. MapsRight(after)
  <2>1. \A y \in E : y.time = y.digi.active /\ y.time \in Nat /\ N[y.digi.pad] = y.time BY <1>5, <1>23
  <2>2. ASSUME NEW p \in Pads, N[p] # -1 PROVE \E y \in E : y.digi.pad = p
    <3>1. (~ \E x \in over : x.digi.pad = p) /\ M[p] # -1 BY <1>18, <2>2
    <3>2. PICK y \in D : y.digi.pad = p BY <1>2, <3>1 DEF MapsRight
    <3>3. y \in E BY <1>17, <3>1, <3>2
    <3> QED BY <3>2, <3>3
  <2>3. \A y, z \in E : y.digi.pad = z.digi.pad => y = z BY <1>6, <1>23
  <2> QED BY <1>20, <2>1, <2>2, <2>3 DEF MapsRight
<1>25. Held(after) = Held(b) \ G
  <2>1. Held(after) = {y.digi : y \in E} /\ Held(b) = {y.digi : y \in D} BY <1>2, <1>20 DEF Held
  <2>2. \A y \in E : y.digi \notin G
    <3> SUFFICES ASSUME NEW y \in E, NEW x \in over, y.digi = x.digi PROVE FALSE BY <1>10
    <3>1. y = x BY <1>4, <1>6, <1>17
    <3> QED BY <1>17, <3>1
  <2>3. \A y \in D : y \in E \/ y.digi \in G BY <1>10, <1>17
  <2> QED BY <1>17, <2>1, <2>2, <2>3
<1>26. gone \cup ToSet(B) \cup Held(after) = gone \cup ToSet(A) \cup Held(b)
  BY <1>12, <1>15, <1>25
<1>27. gone \cap ToSet(B) = {} /\ Held(after) \cap (gone \cup ToSet(B)) = {}
  BY <1>2, <1>12, <1>15, <1>25
<1>28. ASSUME NEW d \in S, NEW k \in gone \cup ToSet(B) PROVE k.active <= d.start
  <2>1. CASE k \in gone \cup ToSet(A) BY <1>2, <2>1
  <2>2. CASE k \in G
    <3>1. k.active < time /\ ~(d.start < time) /\ k.active \in Int /\ d.start \in Int
      BY <1>2, <1>12, <2>2 DEF Digi
    <3> QED BY <3>1
  <2> QED BY <1>15, <2>1, <2>2
<1>29. Keeps(gone \cup ToSet(after.array) \cup Held(after), moved) BY <1>2, <1>20, <1>26
<1>30. \A d \in S : \A g \in moved : StartOrder(g, d) BY <1>2
<1>31. Lists(after.array, ToSet(after.array)) BY <1>15, <1>20
<1>32. gone \cap ToSet(after.array) = {} /\ Held(after) \cap (gone \cup ToSet(after.array)) = {}
  BY <1>20, <1>27
<1>33. \A d \in S : \A k \in gone \cup ToSet(after.array) : k.active <= d.start BY <1>20, <1>28
<1>34. Detects(after, moved, gone, S)
  BY <1>2, <1>20, <1>21, <1>22, <1>24, <1>29, <1>30, <1>31, <1>32, <1>33
<1>35. \A k \in ToSet(after.array) : k \in ToSet(b.array) \/ k.active < time
  BY <1>2, <1>12, <1>15, <1>20
<1> QED BY <1>2, <1>3, <1>15, <1>17, <1>20, <1>34, <1>35

\* Nothing has begun: nothing is moved.
LEMMA MovesNothing ==
    ASSUME NEW b \in Buffer, NEW time
    PROVE Begun(b, time) = {} => MoveDataFromStartTimeMapToDeadTimeMap(b, time) = b
<1>1. PICK begun : begun = Begun(b, time) OBVIOUS
<1>2. ASSUME begun = {} PROVE MoveDataFromStartTimeMapToDeadTimeMap(b, time) = b
  <2>1. PICK s : s = InStartOrder(begun) OBVIOUS
  <2>2. Lists(s, {}) /\ Len(s) \in Nat /\ DOMAIN s = 1 .. Len(s)
    <3>1. {} \in SUBSET Digi /\ \A x, y \in {} : x.id = y.id => x = y OBVIOUS
    <3>2. IsFiniteSet({}) BY FS_EmptySet
    <3>3. s = InStartOrder({}) BY <1>2, <2>1
    <3> QED BY <3>1, <3>2, <3>3, StartOrders
  <2>3. PICK n \in Nat : n = Len(s) BY <2>2
  <2>4. PICK f : Fills(f, b, s, n) BY FillsExist
  <2>5. MoveDataFromStartTimeMapToDeadTimeMap(b, time) = Rest(f[n], begun)
    BY <1>1, <2>1, <2>3, <2>4, MoveIs
  <2>6. f[n] = b
    <3>1. DOMAIN s = {}
      <4>1. {s[i] : i \in DOMAIN s} = {} BY <2>2 DEF Lists
      <4> QED BY <4>1
    <3>2. n = 0 BY <2>2, <2>3, <3>1
    <3> QED BY <2>4, <3>2 DEF Fills
  <2>7. Rest(b, begun) = b
    <3>1. Rest(b, begun) = [b EXCEPT !.fStartTime_map = b.fStartTime_map \ begun] BY DEF Rest
    <3>2. b.fStartTime_map \ begun = b.fStartTime_map BY <1>2
    <3>3. [b EXCEPT !.fStartTime_map = b.fStartTime_map] = b BY DEF Buffer
    <3> QED BY <3>1, <3>2, <3>3
  <2> QED BY <2>5, <2>6, <2>7
<1> QED BY <1>1, <1>2

LEMMA WriteOutDataDetects ==
    ASSUME NEW b, NEW moved, NEW gone, Detects(b, moved, gone, b.fStartTime_map),
           IsFiniteSet(b.fStartTime_map), Numbered(moved \cup b.fStartTime_map),
           NEW time \in Nat, NEW after, after = WriteOutData(b, time)
    PROVE /\ MovedRight(b, moved, gone, time, after)
          /\ Begun(b, time) = {} => after.fDeadTime_map = b.fDeadTime_map \ Over(b, time)
<1>0. PICK begun : begun = Begun(b, time) OBVIOUS
<1>1. PICK c : c = MoveDataFromStartTimeMapToDeadTimeMap(b, time) OBVIOUS
<1>2. Numbered(b.fStartTime_map) BY DEF Numbered
<1>3. /\ Detects(c, moved \cup begun, gone, c.fStartTime_map)
      /\ c.fStartTime_map = b.fStartTime_map \ begun
      /\ \A k \in ToSet(c.array) : k \in ToSet(b.array) \/ k.active <= time
  <2>1. MovedRight(b, moved, gone, time, c) BY <1>1, <1>2, MoveDetects
  <2> QED BY <1>0, <2>1 DEF MovedRight
<1>4. begun \subseteq b.fStartTime_map /\ begun = {d \in b.fStartTime_map : d.start < time} BY <1>0 DEF Begun
<1>5. PICK M : M = moved \cup begun OBVIOUS
<1>6. Numbered(M) BY <1>4, <1>5 DEF Numbered
<1>7. \A d \in c.fStartTime_map : ~(d.start < time) BY <1>3, <1>4
<1>8. after = WriteOutDataDeadTimeMap(c, time) BY <1>1 DEF WriteOutData
<1>9. /\ Detects(after, M, gone, after.fStartTime_map)
      /\ after.fStartTime_map = c.fStartTime_map
      /\ after.fDeadTime_map = c.fDeadTime_map \ Over(c, time)
      /\ \A k \in ToSet(after.array) : k \in ToSet(c.array) \/ k.active < time
  <2>1. Detects(c, M, gone, c.fStartTime_map) BY <1>3, <1>5
  <2> QED BY <1>6, <1>7, <1>8, <2>1, WriteOutDetects
<1>10. ASSUME NEW k \in ToSet(after.array) PROVE k \in ToSet(b.array) \/ k.active <= time
  <2>1. k \in Digi
    <3>1. after.array \in Seq(Digi) BY <1>9 DEF Detects, Buffer
    <3> QED BY <3>1, SeqListed
  <2>2. k.active < time => k.active <= time BY <2>1 DEF Digi
  <2> QED BY <1>3, <1>9, <2>2
<1>11. ASSUME begun = {} PROVE after.fDeadTime_map = b.fDeadTime_map \ Over(b, time)
  <2>1. b \in Buffer BY DEF Detects
  <2>2. c = b BY <1>0, <1>1, <1>11, <2>1, MovesNothing
  <2> QED BY <1>9, <2>2
<1>12. MovedRight(b, moved, gone, time, after) BY <1>0, <1>3, <1>5, <1>9, <1>10 DEF MovedRight
<1> QED BY <1>0, <1>11, <1>12

LEMMA LastStartIs ==
    ASSUME NEW b, IsFiniteSet(b.fStartTime_map), b.fStartTime_map \subseteq Digi, b.fStartTime_map # {}
    PROVE /\ LastStart(b) \in Nat /\ \A d \in b.fStartTime_map : d.start <= LastStart(b)
          /\ \E d \in b.fStartTime_map : d.start = LastStart(b)
<1> DEFINE T == {d.start : d \in b.fStartTime_map}
<1>1. T \in SUBSET Nat /\ T # {} BY DEF Digi
<1>2. IsFiniteSet(T)
  <2> DEFINE f == [d \in b.fStartTime_map |-> d.start]
  <2>1. f \in Surjection(b.fStartTime_map, T) BY DEF Surjection
  <2> HIDE DEF f, T
  <2> QED BY <2>1, FS_Surjection
<1>3. LastStart(b) \in T /\ \A k \in T : k <= LastStart(b)
  <2>1. LastStart(b) = Max(T) BY DEF LastStart
  <2> HIDE DEF T
  <2> QED BY <1>1, <1>2, <2>1, LargestIs
<1> QED BY <1>1, <1>3

LEMMA LastDeadIs ==
    ASSUME NEW b, IsFiniteSet(b.fDeadTime_map), b.fDeadTime_map \subseteq DeadEntry, b.fDeadTime_map # {}
    PROVE LastDead(b) \in Nat /\ \A x \in b.fDeadTime_map : x.time <= LastDead(b)
<1> DEFINE T == {x.time : x \in b.fDeadTime_map}
<1>1. T \in SUBSET Nat /\ T # {} BY DEF DeadEntry
<1>2. IsFiniteSet(T)
  <2> DEFINE f == [x \in b.fDeadTime_map |-> x.time]
  <2>1. f \in Surjection(b.fDeadTime_map, T) BY DEF Surjection
  <2> HIDE DEF f, T
  <2> QED BY <2>1, FS_Surjection
<1>3. LastDead(b) \in T /\ \A k \in T : k <= LastDead(b)
  <2>1. LastDead(b) = Max(T) BY DEF LastDead
  <2> HIDE DEF T
  <2> QED BY <1>1, <1>2, <2>1, LargestIs
<1> QED BY <1>1, <1>3

\* At the end of the run every digi is moved, and all are written out but for those whose
\* time is the end itself.
LEMMA WriteOutAllDetects ==
    ASSUME NEW b, NEW moved, NEW gone, Detects(b, moved, gone, b.fStartTime_map),
           IsFiniteSet(b.fStartTime_map),
           Numbered(moved \cup b.fStartTime_map),
           NEW after, after = WriteOutAllData(b)
    PROVE /\ Detects(after, moved \cup b.fStartTime_map, gone, after.fStartTime_map)
          /\ after.fStartTime_map = {}
          /\ \A x \in after.fDeadTime_map :
                x.digi.active = 0 \/ \E e \in b.fStartTime_map : x.digi.active = e.start + 1
<1>1. PICK S : S = b.fStartTime_map OBVIOUS
<1>2. S \subseteq Digi /\ IsFiniteSet(S) /\ b \in Buffer BY <1>1 DEF Detects
<1>3. PICK begun : begun = IF S # {} THEN LastStart(b) + 1 ELSE 0 OBVIOUS
<1>4. /\ begun \in Nat /\ \A d \in S : d.start < begun
      /\ S # {} => \E d \in S : begun = d.start + 1
      /\ S = {} => begun = 0
  <2>1. CASE S = {} BY <1>3, <2>1
  <2>2. CASE S # {}
    <3>1. /\ LastStart(b) \in Nat /\ \A d \in S : d.start <= LastStart(b)
          /\ \E d \in S : d.start = LastStart(b)
      BY <1>1, <1>2, <2>2, LastStartIs
    <3>2. \A d \in S : d.start \in Nat BY <1>2 DEF Digi
    <3> QED BY <1>3, <2>2, <3>1, <3>2
  <2> QED BY <2>1, <2>2
<1>5. PICK c : c = IF S # {} THEN MoveDataFromStartTimeMapToDeadTimeMap(b, begun) ELSE b OBVIOUS
<1>6. PICK M : M = moved \cup S OBVIOUS
<1>7. Detects(c, M, gone, c.fStartTime_map) /\ c.fStartTime_map = {}
  <2>1. CASE S = {}
    <3>1. c = b /\ M = moved BY <1>5, <1>6, <2>1
    <3> QED BY <1>1, <2>1, <3>1
  <2>2. CASE S # {}
    <3>1. PICK all : all = Begun(b, begun) /\ all = S BY <1>1, <1>4 DEF Begun
    <3>2. Numbered(b.fStartTime_map) BY DEF Numbered
    <3>3. c = MoveDataFromStartTimeMapToDeadTimeMap(b, begun) BY <1>5, <2>2
    <3>4. begun \in Nat /\ IsFiniteSet(b.fStartTime_map) BY <1>1, <1>2, <1>4
    <3>5. MovedRight(b, moved, gone, begun, c) BY <3>2, <3>3, <3>4, MoveDetects
    <3> QED BY <1>1, <1>6, <3>1, <3>5 DEF MovedRight
  <2> QED BY <2>1, <2>2
<1>8. PICK last : last = IF c.fDeadTime_map # {} /\ LastDead(c) > begun THEN LastDead(c) + 1 ELSE begun
  OBVIOUS
<1>9. last \in Nat /\ \A x \in c.fDeadTime_map : x.time \in Nat /\ (x.time < last \/ x.time = begun \/ (x.time < begun /\ last = begun))
  <2>1. CASE c.fDeadTime_map = {} BY <1>4, <1>8, <2>1
  <2>2. CASE c.fDeadTime_map # {}
    <3>1. c.fDeadTime_map \subseteq DeadEntry /\ IsFiniteSet(c.fDeadTime_map)
      BY <1>7 DEF Detects, Buffer
    <3>2. LastDead(c) \in Nat /\ \A x \in c.fDeadTime_map : x.time <= LastDead(c)
      BY <2>2, <3>1, LastDeadIs
    <3>3. \A x \in c.fDeadTime_map : x.time \in Nat BY <3>1 DEF DeadEntry
    <3> QED BY <1>4, <1>8, <2>2, <3>2, <3>3
  <2> QED BY <2>1, <2>2
<1>10. after = IF last > 0 THEN WriteOutData(c, last) ELSE b
  BY <1>1, <1>3, <1>5, <1>8 DEF WriteOutAllData
<1>11. CASE last > 0
  <2>1. after = WriteOutData(c, last) BY <1>10, <1>11
  <2>2. Begun(c, last) = {} BY <1>7 DEF Begun
  <2>3. IsFiniteSet(c.fStartTime_map) BY <1>7, FS_EmptySet
  <2>4. Numbered(M \cup c.fStartTime_map) BY <1>1, <1>6, <1>7 DEF Numbered
  <2>5. PICK no : no = Begun(c, last) OBVIOUS
  <2>10. last \in Nat BY <1>9
  <2>11. /\ MovedRight(c, M, gone, last, after)
         /\ Begun(c, last) = {} => after.fDeadTime_map = c.fDeadTime_map \ Over(c, last)
    BY <1>7, <2>1, <2>3, <2>4, <2>10, WriteOutDataDetects
  <2>6. /\ Detects(after, M \cup no, gone, after.fStartTime_map)
        /\ after.fStartTime_map = c.fStartTime_map \ no
        /\ no = {} => after.fDeadTime_map = c.fDeadTime_map \ Over(c, last)
    BY <2>5, <2>11 DEF MovedRight
  <2>7. M \cup no = M /\ after.fStartTime_map = {} BY <1>7, <2>2, <2>5, <2>6
  <2>8. Detects(after, M, gone, after.fStartTime_map) BY <2>6, <2>7
  <2>9. ASSUME NEW x \in after.fDeadTime_map
        PROVE x.digi.active = 0 \/ \E e \in S : x.digi.active = e.start + 1
    <3>1. x \in c.fDeadTime_map /\ ~(x.time < last) BY <2>2, <2>5, <2>6, <2>9 DEF Over
    <3>2. x.time = begun BY <1>4, <1>9, <3>1
    <3>3. x.time = x.digi.active BY <1>7, <3>1 DEF Detects, MapsRight
    <3> QED BY <1>4, <3>2, <3>3
  <2> QED BY <1>1, <1>6, <2>7, <2>8, <2>9
<1>12. CASE ~(last > 0)
  <2>1. after = b /\ last = 0 BY <1>9, <1>10, <1>12
  <2>2. begun = 0
    <3>1. CASE c.fDeadTime_map # {} /\ LastDead(c) > begun
      <4>1. last = LastDead(c) + 1 BY <1>8, <3>1
      <4>2. LastDead(c) \in Nat
        <5>1. c.fDeadTime_map \subseteq DeadEntry /\ IsFiniteSet(c.fDeadTime_map)
          BY <1>7 DEF Detects, Buffer
        <5> QED BY <3>1, <5>1, LastDeadIs
      <4> QED BY <2>1, <4>1, <4>2
    <3>2. CASE ~(c.fDeadTime_map # {} /\ LastDead(c) > begun) BY <1>8, <2>1, <3>2
    <3> QED BY <3>1, <3>2
  <2>3. S = {} BY <1>2, <1>4, <2>2 DEF Digi
  <2>4. c = b /\ M = moved BY <1>5, <1>6, <2>3
  <2>5. ASSUME NEW x \in after.fDeadTime_map PROVE x.digi.active = 0
    <3>1. x \in c.fDeadTime_map BY <2>1, <2>4
    <3>2. x.time = 0 BY <1>9, <2>1, <2>2, <3>1
    <3>3. x.time = x.digi.active BY <1>7, <3>1 DEF Detects, MapsRight
    <3> QED BY <3>2, <3>3
  <2> QED BY <1>1, <1>6, <1>7, <2>1, <2>4, <2>5
<1> QED BY <1>11, <1>12

\* A digi given to the buffer after the others, when what left it is over.
LEMMA FillNewDetects ==
    ASSUME NEW b, NEW moved, NEW gone, Detects(b, moved, gone, b.fStartTime_map),
           NEW d \in Digi, d.active \in Nat, \A g \in moved : StartOrder(g, d),
           \A k \in gone \cup ToSet(b.array) : k.active <= d.start,
           NEW after, after = FillNewData(b, d)
    PROVE /\ Detects(after, moved, gone, after.fStartTime_map)
          /\ after.fStartTime_map = b.fStartTime_map \cup {d} /\ after.array = b.array
<1>1. b \in Buffer BY DEF Detects
<1>2. PICK S \in SUBSET Digi, D \in SUBSET DeadEntry, M \in [Pads -> Int], A \in Seq(Digi) :
         b = [fStartTime_map |-> S, fDeadTime_map |-> D, fData_map |-> M, array |-> A]
  BY <1>1 DEF Buffer
<1>3. PICK T : T = S \cup {d} OBVIOUS
<1>4. after = [fStartTime_map |-> T, fDeadTime_map |-> D, fData_map |-> M, array |-> A]
  BY <1>2, <1>3 DEF FillNewData
<1>5. after \in Buffer BY <1>3, <1>4 DEF Buffer
<1>6. MapsRight(after) /\ Held(after) = Held(b)
  BY <1>2, <1>4 DEF Detects, MapsRight, Held
<1>7. b.fStartTime_map = S /\ b.array = A /\ b.fDeadTime_map = D BY <1>2
<1>8. after.fStartTime_map = T /\ after.array = A /\ after.fDeadTime_map = D BY <1>4
<1>9. T = b.fStartTime_map \cup {d} BY <1>3, <1>7
<1>10. Detects(after, moved, gone, T) BY <1>5, <1>6, <1>7, <1>8, <1>9 DEF Detects
<1> QED BY <1>7, <1>8, <1>9, <1>10

\* What was in the array is gone.
LEMMA GoneDetects ==
    ASSUME NEW b, NEW moved, NEW gone, NEW later, Detects(b, moved, gone, later),
           NEW after, after = DeleteOldData(b)
    PROVE Detects(after, moved, gone \cup ToSet(b.array), later)
<1>1. b \in Buffer BY DEF Detects
<1>2. PICK S \in SUBSET Digi, D \in SUBSET DeadEntry, M \in [Pads -> Int], A \in Seq(Digi) :
         b = [fStartTime_map |-> S, fDeadTime_map |-> D, fData_map |-> M, array |-> A]
  BY <1>1 DEF Buffer
<1>3. after = [fStartTime_map |-> S, fDeadTime_map |-> D, fData_map |-> M, array |-> << >>]
  BY <1>2 DEF DeleteOldData
<1>4. b.array = A /\ b.fDeadTime_map = D /\ after.array = << >> /\ after.fDeadTime_map = D BY <1>2, <1>3
<1>5. after \in Buffer
  <2>1. PICK B : B = << >> /\ B \in Seq(Digi)
    <3>1. << >> \in Seq(Digi) OBVIOUS
    <3> QED BY <3>1
  <2>2. after = [fStartTime_map |-> S, fDeadTime_map |-> D, fData_map |-> M, array |-> B] BY <1>3, <2>1
  <2>3. B \in Seq(Digi) BY <2>1
  <2> QED BY <2>2, <2>3 DEF Buffer
<1>6. MapsRight(after) /\ Held(after) = Held(b) BY <1>2, <1>3 DEF Detects, MapsRight, Held
<1>7. ToSet(after.array) = {} /\ Lists(after.array, {}) BY <1>4, ListsNone, ToSetLists
<1>8. (gone \cup ToSet(b.array)) \cup {} \cup Held(after) = gone \cup ToSet(b.array) \cup Held(b) BY <1>6
<1> QED BY <1>4, <1>5, <1>6, <1>7, <1>8 DEF Detects

-----------------------------------------------------------------------------
(* The tree. *)

DigisIn(t) == FlattenSeq([k \in DOMAIN t |-> t[k].digis])
IsTree(t) == IsSeq(t) /\ \A k \in DOMAIN t : IsSeq(t[k].digis)

\* v holds the n sequences of s, and x behind them.
OneLonger(s, v, x, n) ==
    /\ n \in Nat /\ IsSeq(x)
    /\ s = [k \in 1 .. n |-> s[k]] /\ v = [k \in 1 .. n + 1 |-> v[k]]
    /\ \A k \in 1 .. n : IsSeq(s[k]) /\ v[k] = s[k]
    /\ v[n + 1] = x

\* One sequence more behind the others.
LEMMA FlattenGrows ==
    ASSUME NEW n, NEW s, NEW x, NEW v, OneLonger(s, v, x, n)
    PROVE FlattenSeq(v) = FlattenSeq(s) \o x
<1>0. /\ n \in Nat /\ IsSeq(x)
      /\ s = [k \in 1 .. n |-> s[k]] /\ v = [k \in 1 .. n + 1 |-> v[k]]
      /\ \A k \in 1 .. n : IsSeq(s[k]) /\ v[k] = s[k]
      /\ v[n + 1] = x
  BY DEF OneLonger
<1>1. IsSeq(s) /\ Len(s) = n /\ DOMAIN s = 1 .. n
  <2>1. PICK T : T = {s[k] : k \in 1 .. n} OBVIOUS
  <2>2. s \in [1 .. n -> T] BY <1>0, <2>1
  <2>0. n \in Nat BY <1>0
  <2>3. s \in Seq(T) BY <2>0, <2>2
  <2>4. IsSeq(s) BY <2>3 DEF IsSeq
  <2>5. DOMAIN s = 1 .. n BY <1>0, <2>2
  <2>6. Len(s) = n BY <1>0, <2>3, <2>5
  <2> QED BY <2>4, <2>5, <2>6
<1>2. PICK w : w = Append(s, x) OBVIOUS
<1>3. IsSeq(w) /\ DOMAIN w = 1 .. n + 1 /\ w[n + 1] = x /\ \A k \in 1 .. n : w[k] = s[k]
  BY <1>0, <1>1, <1>2, AppendIs
<1>4. w = [k \in 1 .. n + 1 |-> w[k]]
  <2>1. w \in Seq({w[k] : k \in DOMAIN w}) BY <1>3, IsSeqOf
  <2> QED BY <1>3, <2>1
<1>5. \A k \in 1 .. n + 1 : w[k] = v[k]
  <2>1. \A k \in 1 .. n + 1 : k \in 1 .. n \/ k = n + 1 BY <1>0
  <2> QED BY <1>0, <1>3, <2>1
<1>6. v = w BY <1>0, <1>4, <1>5
<1>7. FlattenSeq(w) = FlattenSeq(s) \o x BY <1>0, <1>1, <1>2, FlattenSeqAppend
<1> QED BY <1>6, <1>7

LEMMA TreeGrows ==
    ASSUME NEW t, IsTree(t), NEW e, IsSeq(e.digis), NEW u, u = Append(t, e)
    PROVE IsTree(u) /\ DigisIn(u) = DigisIn(t) \o e.digis
<1>1. PICK n : n = Len(t) OBVIOUS
<1>2. IsSeq(t) /\ n \in Nat /\ DOMAIN t = 1 .. n /\ \A k \in 1 .. n : IsSeq(t[k].digis)
  BY <1>1, IsSeqIs DEF IsTree
<1>3. /\ IsSeq(u) /\ DOMAIN u = 1 .. n + 1 /\ u[n + 1] = e /\ \A k \in 1 .. n : u[k] = t[k]
  BY <1>1, <1>2, AppendIs
<1>4. \A k \in 1 .. n + 1 : k \in 1 .. n \/ k = n + 1 BY <1>2
<1>5. IsTree(u) BY <1>2, <1>3, <1>4 DEF IsTree
<1>6. PICK s, v : s = [k \in 1 .. n |-> t[k].digis] /\ v = [k \in 1 .. n + 1 |-> u[k].digis] OBVIOUS
<1>7. PICK x : x = e.digis OBVIOUS
<1>8. /\ DOMAIN s = 1 .. n /\ s = [k \in 1 .. n |-> s[k]] /\ \A k \in 1 .. n : IsSeq(s[k])
      /\ DOMAIN v = 1 .. n + 1 /\ v = [k \in 1 .. n + 1 |-> v[k]]
      /\ v[n + 1] = x /\ \A k \in 1 .. n : v[k] = s[k]
  <2>1. n + 1 \in 1 .. n + 1 /\ \A k \in 1 .. n : k \in 1 .. n + 1 BY <1>2
  <2> QED BY <1>2, <1>3, <1>6, <1>7, <2>1
<1>9. FlattenSeq(v) = FlattenSeq(s) \o x
  <2>1. IsSeq(x) BY <1>7
  <2>2. OneLonger(s, v, x, n) BY <1>2, <1>8, <2>1 DEF OneLonger
  <2> QED BY <2>2, FlattenGrows
<1>10. DigisIn(t) = FlattenSeq(s) BY <1>2, <1>6 DEF DigisIn
<1>11. DigisIn(u) = FlattenSeq(v) BY <1>3, <1>6 DEF DigisIn
<1> QED BY <1>5, <1>7, <1>9, <1>10, <1>11

LEMMA EmptyTree == IsTree(<< >>) /\ DigisIn(<< >>) = << >>
<1>1. IsSeq(<< >>) /\ DOMAIN << >> = {}
  <2>1. IsSeq(<< >>) /\ DOMAIN << >> = 1 .. 0 BY EmptyIsSeq, IsSeqIs
  <2> QED BY <2>1
<1>2. PICK s : s = [k \in {} |-> << >>[k].digis] OBVIOUS
<1>3. PICK t : t = << >> OBVIOUS
<1>4. DigisIn(t) = FlattenSeq(s)
  <2>1. [k \in DOMAIN t |-> t[k].digis] = [k \in {} |-> << >>[k].digis] BY <1>1, <1>3
  <2> QED BY <1>2, <2>1 DEF DigisIn
<1>5. s = << >>
  <2>1. s \in [1 .. 0 -> {}] BY <1>2
  <2>2. s \in Seq({}) BY <2>1
  <2>3. DOMAIN s = {} BY <1>2
  <2>4. Len(s) = 0 BY <2>2, <2>3
  <2> QED BY <2>2, <2>4
<1>6. FlattenSeq(s) = s
  <2>1. Len(s) = 0 BY <1>5
  <2> QED BY <2>1, FlattenSeqEmpty
<1> QED BY <1>1, <1>3, <1>4, <1>5, <1>6 DEF IsTree

-----------------------------------------------------------------------------
(* The invariant holds. *)

LEMMA DetectsParts ==
    ASSUME NEW b, NEW moved, NEW gone, NEW later, Detects(b, moved, gone, later)
    PROVE /\ b \in Buffer /\ b.array \in Seq(Digi) /\ IsSeq(b.array)
          /\ gone \cup ToSet(b.array) \cup Held(b) \subseteq moved
<1>1. b \in Buffer /\ b.array \in Seq(Digi) BY DEF Detects, Buffer
<1>2. IsSeq(b.array) BY <1>1, SeqListed
<1>3. gone \cup ToSet(b.array) \cup Held(b) \subseteq moved BY DEF Detects, Keeps
<1> QED BY <1>1, <1>2, <1>3

LEMMA SameTree == TreeDigis = DigisIn(tree) BY DEF TreeDigis, DigisIn

LEMMA InitInv == Init => RunInv
<1> SUFFICES ASSUME Init PROVE RunInv OBVIOUS
<1> USE DEF Init
<1>1. RunsOn
  <2>1. setup \in Setups /\ MaxEvents \in Nat BY RunAssumption DEF MaxEvents
  <2>2. 0 \in 0 .. MaxEvents BY <2>1
  <2> QED BY <2>1, <2>2 DEF RunsOn
<1>2. DigisNumbered BY FS_EmptySet DEF DigisNumbered
<1>3. TreeDigis = << >> /\ IsTree(tree) BY SameTree, EmptyTree
<1>4. Lists(<< >>, {}) /\ ToSet(<< >>) = {} /\ Lists(<< >>, ToSet(<< >>)) BY ListsNone, ToSetLists
<1>5. ~Stored /\ Unstored = buffer BY DEF Stored, Unstored
<1>6. TreeInv BY <1>3, <1>4, <1>5 DEF TreeInv, IsTree
<1>7. Gone = {} BY <1>3, <1>4 DEF Gone
<1>8. /\ buffer.fStartTime_map = {} /\ buffer.fDeadTime_map = {} /\ buffer.array = << >>
      /\ buffer.fData_map = [p \in Pads |-> -1]
  BY DEF EmptyBuffer
<1>9. Moved = {} BY <1>8 DEF Moved
<1>10. buffer \in Buffer
  <2>1. PICK A : A = << >> /\ A \in Seq(Digi)
    <3>1. << >> \in Seq(Digi) OBVIOUS
    <3> QED BY <3>1
  <2>2. PICK M : M = [p \in Pads |-> -1] OBVIOUS
  <2>3. M \in [Pads -> Int] BY <2>2
  <2>4. buffer = [fStartTime_map |-> {}, fDeadTime_map |-> {}, fData_map |-> M, array |-> A]
    BY <2>1, <2>2 DEF EmptyBuffer
  <2>5. A \in Seq(Digi) BY <2>1
  <2> QED BY <2>3, <2>4, <2>5 DEF Buffer
<1>11. MapsRight(buffer) /\ Held(buffer) = {} BY <1>8 DEF MapsRight, Held
<1>12. Keeps({}, {}) BY DEF Keeps
<1>13. Detects(buffer, {}, {}, {})
  <2>1. {} \cup ToSet(buffer.array) \cup Held(buffer) = {} BY <1>4, <1>8, <1>11
  <2>2. IsFiniteSet(buffer.fDeadTime_map) BY <1>8, FS_EmptySet
  <2> QED BY <1>4, <1>8, <1>10, <1>11, <1>12, <2>1, <2>2 DEF Detects
<1>14. BufferInv BY <1>4, <1>5, <1>7, <1>8, <1>9, <1>10, <1>13 DEF BufferInv
<1>15. AllPassed BY <1>4, <1>7, <1>8, <1>9 DEF AllPassed
<1>17. EndInv BY DEF EndInv
<1> QED BY <1>1, <1>2, <1>6, <1>14, <1>15, <1>17 DEF RunInv

\* Where neither the buffer nor the digis change, and time does not go back.
LEMMA GoesOn ==
    ASSUME RunInv, RunsOn', UNCHANGED <<buffer, tree, vetoed, filled>>,
           ~Stored, ~Stored', InputOpen' => InputOpen /\ eventTime <= eventTime',
           pc' \in {"finishTask", "lastFill", "done"} => pc \in {"finishTask", "lastFill", "done"},
           ~(pc' = "done" /\ fFillLastData')
    PROVE RunInv'
<1> USE DEF RunInv
<1>1. DigisNumbered' BY DEF DigisNumbered
<1>2. Moved' = Moved /\ TreeDigis' = TreeDigis /\ Gone' = Gone BY DEF Moved, TreeDigis, Gone
<1>3. Unstored' = Unstored BY DEF Unstored
<1>4. BufferInv' BY <1>2, <1>3 DEF BufferInv
<1>5. AllPassed'
  <2> SUFFICES ASSUME InputOpen' PROVE AllPassed' BY DEF AllPassed
  <2>1. eventTime \in Nat /\ eventTime' \in Nat /\ eventTime <= eventTime' BY DEF RunsOn
  <2>2. /\ \A g \in Moved : g.start < eventTime
        /\ \A k \in Gone \cup ToSet(buffer.array) : k.active <= eventTime
    BY DEF AllPassed
  <2>3. Detects(buffer, Moved, Gone, buffer.fStartTime_map) BY DEF BufferInv, Unstored
  <2>4. Moved \subseteq Digi /\ Gone \cup ToSet(buffer.array) \subseteq Digi
    BY <2>3, DetectsParts DEF Detects
  <2>5. \A d \in Digi : d.start \in Int /\ d.active \in Int BY DEF Digi
  <2>6. \A g \in Moved : g.start < eventTime' BY <2>1, <2>2, <2>4, <2>5
  <2>7. \A k \in Gone \cup ToSet(buffer.array) : k.active <= eventTime' BY <2>1, <2>2, <2>4, <2>5
  <2> QED BY <1>2, <2>6, <2>7 DEF AllPassed
<1>6. TreeInv' BY <1>2 DEF TreeInv
<1>7. EndInv' BY DEF EndInv
<1> QED BY <1>1, <1>4, <1>5, <1>6, <1>7

LEMMA ReadStep == ASSUME RunInv, ReadEvent PROVE RunInv'
<1> USE DEF RunInv, ReadEvent
<1>1. PICK gap \in EventGaps : eventTime' = eventTime + gap OBVIOUS
<1>2. gap \in Nat /\ eventTime \in Nat /\ nEvents \in Nat /\ MaxEvents \in Nat /\ nEvents < MaxEvents
  BY RunAssumption DEF RunsOn, MaxEvents
<1>3. eventTime' \in Nat /\ eventTime <= eventTime' /\ nEvents' \in 0 .. MaxEvents BY <1>1, <1>2
<1>4. MaxEvents' = MaxEvents BY DEF MaxEvents
<1>5. RunsOn' BY <1>3, <1>4 DEF RunsOn
<1>6. ~Stored /\ ~Stored' /\ InputOpen BY DEF Stored, InputOpen
<1> QED BY <1>3, <1>5, <1>6, GoesOn

LEMMA LoopEndsStep == ASSUME RunInv, LoopEnds PROVE RunInv'
<1> USE DEF RunInv, LoopEnds
<1>1. RunsOn' BY DEF RunsOn, MaxEvents
<1>2. ~Stored /\ ~Stored' /\ InputOpen BY DEF Stored, InputOpen
<1>3. eventTime <= eventTime' BY DEF RunsOn
<1> QED BY <1>1, <1>2, <1>3, GoesOn

LEMMA ExecStep == ASSUME RunInv, ExecSorter PROVE RunInv'
<1> USE DEF RunInv, ExecSorter
<1>1. RunsOn' BY DEF RunsOn, MaxEvents
<1>2. ~Stored /\ ~Stored' /\ InputOpen BY DEF Stored, InputOpen
<1>3. eventTime <= eventTime' BY DEF RunsOn
<1> QED BY <1>1, <1>2, <1>3, GoesOn

LEMMA FinishTaskStep == ASSUME RunInv, FinishTask PROVE RunInv'
<1> USE DEF RunInv, FinishTask
<1>1. RunsOn' BY DEF RunsOn, MaxEvents, UseSorter
<1>2. ~Stored /\ ~Stored' /\ ~InputOpen' BY DEF Stored, InputOpen
<1> QED BY <1>1, <1>2, GoesOn

\* The buffer is written out: what was moved before and what is moved now are all that was moved.
LEMMA WrittenKeeps ==
    ASSUME RunInv, UNCHANGED <<tree, vetoed, filled>>, ~Stored, ~Stored',
           NEW begun, begun \subseteq buffer.fStartTime_map,
           buffer'.fStartTime_map = buffer.fStartTime_map \ begun,
           Detects(buffer', Moved \cup begun, Gone, buffer'.fStartTime_map)
    PROVE DigisNumbered' /\ BufferInv' /\ TreeInv' /\ Moved' = Moved \cup begun /\ Gone' = Gone
<1> USE DEF RunInv
<1>1. DigisNumbered' BY DEF DigisNumbered
<1>2. TreeDigis' = TreeDigis /\ Gone' = Gone BY DEF TreeDigis, Gone
<1>3. buffer.fStartTime_map \subseteq filled BY DEF BufferInv
<1>4. Moved' = Moved \cup begun BY <1>3 DEF Moved
<1>5. ToSet(buffer'.array) \subseteq filled /\ buffer' \in Buffer
  <2>1. buffer' \in Buffer /\ ToSet(buffer'.array) \subseteq Moved \cup begun BY DetectsParts
  <2> QED BY <1>3, <2>1 DEF Moved
<1>6. Unstored' = buffer' BY DEF Unstored
<1>7. BufferInv' BY <1>2, <1>3, <1>4, <1>5, <1>6 DEF BufferInv
<1>8. ~(pc' = "done" /\ fFillLastData') BY DEF Stored
<1>9. TreeInv' BY <1>2, <1>8 DEF TreeInv
<1> QED BY <1>1, <1>2, <1>4, <1>7, <1>9

LEMMA NumberedDigis ==
    ASSUME RunInv
    PROVE /\ Numbered(Moved \cup buffer.fStartTime_map) /\ IsFiniteSet(buffer.fStartTime_map)
          /\ Moved \cup buffer.fStartTime_map = filled
<1>1. buffer.fStartTime_map \subseteq filled /\ IsFiniteSet(filled)
      /\ \A d, e \in filled : d.id = e.id => d = e
  BY DEF RunInv, BufferInv, DigisNumbered
<1>2. Moved \cup buffer.fStartTime_map = filled BY <1>1 DEF Moved
<1>3. IsFiniteSet(buffer.fStartTime_map) BY <1>1, FS_Subset
<1> QED BY <1>1, <1>2, <1>3 DEF Numbered

LEMMA StoreStep == ASSUME RunInv, StoreWriteoutBufferData PROVE RunInv'
<1> USE DEF RunInv, StoreWriteoutBufferData
<1>1. RunsOn' BY DEF RunsOn, MaxEvents
<1>2. ~Stored /\ ~Stored' /\ InputOpen BY DEF Stored, InputOpen
<1>3. Detects(buffer, Moved, Gone, buffer.fStartTime_map) BY <1>2 DEF BufferInv, Unstored
<1>4. PICK b, a, time : b = buffer /\ a = buffer' /\ time = eventTime OBVIOUS
<1>5. time \in Nat BY <1>4 DEF RunsOn
<1>6. MovedRight(b, Moved, Gone, time, a)
  <2>1. Detects(b, Moved, Gone, b.fStartTime_map) BY <1>3, <1>4
  <2>2. IsFiniteSet(b.fStartTime_map) /\ Numbered(Moved \cup b.fStartTime_map) BY <1>4, NumberedDigis
  <2>3. a = WriteOutData(b, time) BY <1>4
  <2> QED BY <1>5, <2>1, <2>2, <2>3, WriteOutDataDetects
<1>7. PICK begun : begun = Begun(b, time) OBVIOUS
<1>8. begun \subseteq buffer.fStartTime_map /\ \A d \in begun : d.start < eventTime
  BY <1>4, <1>7 DEF Begun
<1>9. /\ Detects(buffer', Moved \cup begun, Gone, buffer'.fStartTime_map)
      /\ buffer'.fStartTime_map = buffer.fStartTime_map \ begun
      /\ \A k \in ToSet(buffer'.array) : k \in ToSet(buffer.array) \/ k.active <= eventTime
  BY <1>4, <1>6, <1>7 DEF MovedRight
<1>10. DigisNumbered' /\ BufferInv' /\ TreeInv' /\ Moved' = Moved \cup begun /\ Gone' = Gone
  BY <1>2, <1>8, <1>9, WrittenKeeps
<1>11. AllPassed'
  <2>1. /\ \A g \in Moved : g.start < eventTime
        /\ \A k \in Gone \cup ToSet(buffer.array) : k.active <= eventTime
    BY <1>2 DEF AllPassed
  <2>2. \A g \in Moved' : g.start < eventTime BY <1>8, <1>10, <2>1
  <2>3. \A k \in Gone' \cup ToSet(buffer'.array) : k.active <= eventTime BY <1>9, <1>10, <2>1
  <2> QED BY <2>2, <2>3 DEF AllPassed
<1>12. EndInv' BY DEF EndInv
<1> QED BY <1>1, <1>10, <1>11, <1>12

LEMMA StoreAllStep == ASSUME RunInv, StoreAllWriteoutBufferData PROVE RunInv'
<1> USE DEF RunInv, StoreAllWriteoutBufferData
<1>1. RunsOn' BY DEF RunsOn, MaxEvents
<1>2. ~Stored /\ ~Stored' BY DEF Stored
<1>3. Detects(buffer, Moved, Gone, buffer.fStartTime_map) BY <1>2 DEF BufferInv, Unstored
<1>4. PICK b, a, begun : b = buffer /\ a = buffer' /\ begun = buffer.fStartTime_map OBVIOUS
<1>5. /\ Detects(a, Moved \cup b.fStartTime_map, Gone, a.fStartTime_map)
      /\ a.fStartTime_map = {}
      /\ \A x \in a.fDeadTime_map :
            x.digi.active = 0 \/ \E e \in b.fStartTime_map : x.digi.active = e.start + 1
  <2>1. Detects(b, Moved, Gone, b.fStartTime_map) BY <1>3, <1>4
  <2>2. IsFiniteSet(b.fStartTime_map) /\ Numbered(Moved \cup b.fStartTime_map) BY <1>4, NumberedDigis
  <2>3. a = WriteOutAllData(b) BY <1>4
  <2> QED BY <2>1, <2>2, <2>3, WriteOutAllDetects
<1>6. /\ Detects(buffer', Moved \cup begun, Gone, buffer'.fStartTime_map)
      /\ buffer'.fStartTime_map = buffer.fStartTime_map \ begun
      /\ begun \subseteq buffer.fStartTime_map
  BY <1>4, <1>5
<1>7. DigisNumbered' /\ BufferInv' /\ TreeInv' BY <1>2, <1>6, WrittenKeeps
<1>8. AllPassed' BY DEF AllPassed, InputOpen
<1>9. EndInv'
  <2>1. buffer.fStartTime_map \subseteq filled BY DEF BufferInv
  <2>2. buffer'.fStartTime_map = {} BY <1>4, <1>5
  <2>3. ASSUME NEW x \in buffer'.fDeadTime_map
        PROVE x.digi.active = 0 \/ \E e \in filled' : x.digi.active = e.start + 1
    BY <1>4, <1>5, <2>1
  <2> QED BY <2>2, <2>3 DEF EndInv
<1> QED BY <1>1, <1>7, <1>8, <1>9

LEMMA DigitizeStep == ASSUME RunInv, Digitize PROVE RunInv'
<1> USE DEF RunInv, Digitize
<1>1. RunsOn' BY DEF RunsOn, MaxEvents, UseSorter
<1>2. ~Stored /\ ~Stored' BY DEF Stored
<1>3. Detects(buffer, Moved, Gone, buffer.fStartTime_map) BY <1>2 DEF BufferInv, Unstored
<1>4. IsFiniteSet(filled) /\ filled \subseteq Digi
      /\ (\A d \in filled : d.active \in Nat /\ d.id \in 1 .. Cardinality(filled))
      /\ \A d, e \in filled : d.id = e.id => d = e
  BY DEF DigisNumbered
<1>5. PICK n : n = Cardinality(filled) OBVIOUS
<1>6. n \in Nat BY <1>4, <1>5, FS_CardinalityType
<1>7. PICK pad \in Pads, flight \in Flights, smear \in Smears, active \in ActiveTimes :
         LET t == CalcTimeStamp(eventTime + flight + smear)
             digi == [id |-> Cardinality(filled) + 1, pad |-> pad, start |-> eventTime + flight,
                      t |-> t, active |-> t + active]
         IN  buffer' = FillNewData(buffer, digi) /\ filled' = filled \cup {digi}
  OBVIOUS
<1>8. eventTime \in Nat /\ flight \in Nat /\ smear \in Int /\ active \in Nat
  BY RunAssumption DEF RunsOn
<1>9. PICK t : t = CalcTimeStamp(eventTime + flight + smear) OBVIOUS
<1>10. t \in Nat BY <1>8, <1>9 DEF CalcTimeStamp
<1>11. PICK d : d = [id |-> n + 1, pad |-> pad, start |-> eventTime + flight, t |-> t,
                     active |-> t + active]
  OBVIOUS
<1>12. d \in Digi /\ d.active \in Nat /\ d.id = n + 1 /\ d.start >= eventTime /\ d.start \in Nat
  BY <1>6, <1>8, <1>10, <1>11 DEF Digi
<1>13. buffer' = FillNewData(buffer, d) /\ filled' = filled \cup {d} BY <1>5, <1>7, <1>9, <1>11
<1>14. d \notin filled BY <1>4, <1>5, <1>6, <1>12
<1>15. DigisNumbered'
  <2>1. IsFiniteSet(filled') /\ Cardinality(filled') = n + 1
    BY <1>4, <1>5, <1>13, <1>14, FS_AddElement
  <2>2. filled' \subseteq Digi BY <1>4, <1>12, <1>13
  <2>3. ASSUME NEW e \in filled' PROVE e.active \in Nat /\ e.id \in 1 .. n + 1
    BY <1>4, <1>5, <1>6, <1>12, <1>13
  <2>4. ASSUME NEW e \in filled', NEW f \in filled', e.id = f.id PROVE e = f
    <3>1. \A x \in filled : x.id # n + 1 BY <1>4, <1>5, <1>6
    <3> QED BY <1>4, <1>12, <1>13, <2>4, <3>1
  <2> QED BY <2>1, <2>2, <2>3, <2>4 DEF DigisNumbered
<1>16. /\ \A g \in Moved : g.start < eventTime
       /\ \A k \in Gone \cup ToSet(buffer.array) : k.active <= eventTime
  BY DEF AllPassed, InputOpen
<1>17. Moved \subseteq Digi /\ Gone \cup ToSet(buffer.array) \subseteq Digi
  BY <1>3, DetectsParts DEF Detects
<1>18. \A g \in Moved : StartOrder(g, d)
  <2> SUFFICES ASSUME NEW g \in Moved PROVE StartOrder(g, d) OBVIOUS
  <2>1. g.start \in Nat BY <1>17 DEF Digi
  <2> QED BY <1>8, <1>12, <1>16, <2>1 DEF StartOrder
<1>19. \A k \in Gone \cup ToSet(buffer.array) : k.active <= d.start
  <2> SUFFICES ASSUME NEW k \in Gone \cup ToSet(buffer.array) PROVE k.active <= d.start OBVIOUS
  <2>1. k.active \in Int BY <1>17 DEF Digi
  <2> QED BY <1>8, <1>12, <1>16, <2>1
<1>20. /\ Detects(buffer', Moved, Gone, buffer'.fStartTime_map)
       /\ buffer'.fStartTime_map = buffer.fStartTime_map \cup {d} /\ buffer'.array = buffer.array
  <2>1. PICK b, a, moved, gone : b = buffer /\ a = buffer' /\ moved = Moved /\ gone = Gone OBVIOUS
  <2>2. Detects(b, moved, gone, b.fStartTime_map) BY <1>3, <2>1
  <2>3. a = FillNewData(b, d) BY <1>13, <2>1
  <2>4. \A g \in moved : StartOrder(g, d) BY <1>18, <2>1
  <2>5. \A k \in gone \cup ToSet(b.array) : k.active <= d.start BY <1>19, <2>1
  <2>6. /\ Detects(a, moved, gone, a.fStartTime_map)
        /\ a.fStartTime_map = b.fStartTime_map \cup {d} /\ a.array = b.array
    BY <1>12, <2>2, <2>3, <2>4, <2>5, FillNewDetects
  <2> QED BY <2>1, <2>6
<1>21. buffer.fStartTime_map \subseteq filled /\ ToSet(buffer.array) \subseteq filled BY DEF BufferInv
<1>22. Moved' = Moved BY <1>13, <1>14, <1>20, <1>21 DEF Moved
<1>23. TreeDigis' = TreeDigis /\ Gone' = Gone BY DEF TreeDigis, Gone
<1>24. BufferInv'
  <2>1. Unstored' = buffer' BY <1>2 DEF Unstored
  <2>2. buffer' \in Buffer BY <1>20, DetectsParts
  <2> QED BY <1>13, <1>20, <1>21, <1>22, <1>23, <2>1, <2>2 DEF BufferInv
<1>25. AllPassed' BY <1>16, <1>20, <1>22, <1>23 DEF AllPassed
<1>26. TreeInv' BY <1>2, <1>23 DEF TreeInv
<1>27. EndInv' BY DEF EndInv
<1> QED BY <1>1, <1>15, <1>24, <1>25, <1>26, <1>27

\* What is in the array goes: into the tree or, at a vetoed event, nowhere.
LEMMA StoredKeeps ==
    ASSUME RunInv, RunsOn', UNCHANGED <<buffer, sorter, filled, eventTime>>, ~Stored, Stored',
           pc' = "done" => pc = "lastFill", InputOpen' => InputOpen,
           NEW gone, gone = Gone \cup ToSet(buffer.array), Gone' = gone, TreeInv'
    PROVE RunInv'
<1> USE DEF RunInv
<1>1. DigisNumbered' BY DEF DigisNumbered
<1>2. Moved' = Moved BY DEF Moved
<1>3. Detects(buffer, Moved, Gone, buffer.fStartTime_map) BY DEF BufferInv, Unstored
<1>4. Unstored' = DeleteOldData(buffer) BY DEF Unstored
<1>5. Detects(Unstored', Moved, gone, buffer.fStartTime_map)
  <2>1. PICK b, a, moved, old : b = buffer /\ a = Unstored' /\ moved = Moved /\ old = Gone OBVIOUS
  <2>2. Detects(b, moved, old, b.fStartTime_map) /\ a = DeleteOldData(b) BY <1>3, <1>4, <2>1
  <2>3. Detects(a, moved, old \cup ToSet(b.array), b.fStartTime_map) BY <2>2, GoneDetects
  <2> QED BY <2>1, <2>3
<1>6. BufferInv' BY <1>2, <1>5 DEF BufferInv
<1>7. AllPassed' BY <1>2 DEF AllPassed
<1>8. EndInv'
  <2>1. pc' \in {"finishTask", "lastFill", "done"} => pc = "lastFill" BY DEF Stored
  <2> QED BY <2>1 DEF EndInv
<1> QED BY <1>1, <1>6, <1>7, <1>8

\* The array into the tree.
LEMMA ArrayStored ==
    ASSUME RunInv, UNCHANGED <<buffer, vetoed>>, ~Stored, tree' = Append(tree, TreeEntry)
    PROVE TreeInv' /\ Gone' = Gone \cup ToSet(buffer.array)
<1> USE DEF RunInv
<1>1. Detects(buffer, Moved, Gone, buffer.fStartTime_map) BY DEF BufferInv, Unstored
<1>2. PICK A : A = buffer.array OBVIOUS
<1>3. IsSeq(A) /\ Lists(A, ToSet(A)) /\ Gone \cap ToSet(A) = {} BY <1>1, <1>2, DetectsParts DEF Detects
<1>4. PICK e : e = TreeEntry OBVIOUS
<1>5. e.digis = A BY <1>2, <1>4 DEF TreeEntry
<1>6. IsTree(tree') /\ DigisIn(tree') = DigisIn(tree) \o A
  <2>1. PICK t, u : t = tree /\ u = tree' OBVIOUS
  <2>2. IsTree(t) /\ u = Append(t, e) BY <1>4, <2>1 DEF TreeInv, IsTree
  <2>3. IsTree(u) /\ DigisIn(u) = DigisIn(t) \o e.digis BY <1>3, <1>5, <2>2, TreeGrows
  <2> QED BY <1>5, <2>1, <2>3
<1>7. TreeDigis = DigisIn(tree) /\ TreeDigis' = DigisIn(tree') BY SameTree DEF TreeDigis, DigisIn
<1>8. PICK T, V, U : T = ToSet(TreeDigis) /\ V = ToSet(vetoed) /\ U = T \cup ToSet(A) OBVIOUS
<1>9. Lists(TreeDigis, T) /\ T \cap ToSet(A) = {} /\ V \cap ToSet(A) = {} /\ T \cap V = {}
  BY <1>3, <1>8 DEF TreeInv, Gone
<1>10. Lists(TreeDigis', U) BY <1>3, <1>6, <1>7, <1>8, <1>9, ListsBoth
<1>11. ToSet(TreeDigis') = U /\ Lists(TreeDigis', ToSet(TreeDigis')) BY <1>10, ToSetLists
<1>12. Gone' = Gone \cup ToSet(A) BY <1>8, <1>11 DEF Gone
<1>13. IsSeq(tree') /\ \A k \in DOMAIN tree' : IsSeq(tree'[k].digis) BY <1>6 DEF IsTree
<1>14. ToSet(TreeDigis') \cap ToSet(vetoed) = {} BY <1>8, <1>9, <1>11
<1>15. ToSet(buffer.array) \subseteq ToSet(TreeDigis') BY <1>2, <1>8, <1>11
<1>16. Lists(vetoed, ToSet(vetoed)) BY DEF TreeInv
<1>17. TreeInv' BY <1>2, <1>11, <1>12, <1>13, <1>14, <1>15, <1>16 DEF TreeInv
<1> QED BY <1>2, <1>12, <1>17

\* The array nowhere.
LEMMA ArrayVetoed ==
    ASSUME RunInv, UNCHANGED <<buffer, tree>>, ~Stored, pc' # "done", vetoed' = vetoed \o buffer.array
    PROVE TreeInv' /\ Gone' = Gone \cup ToSet(buffer.array)
<1> USE DEF RunInv
<1>1. Detects(buffer, Moved, Gone, buffer.fStartTime_map) BY DEF BufferInv, Unstored
<1>2. PICK A : A = buffer.array OBVIOUS
<1>3. Lists(A, ToSet(A)) /\ Gone \cap ToSet(A) = {} BY <1>1, <1>2 DEF Detects
<1>4. TreeDigis' = TreeDigis BY DEF TreeDigis
<1>5. PICK T, V, U : T = ToSet(TreeDigis) /\ V = ToSet(vetoed) /\ U = V \cup ToSet(A) OBVIOUS
<1>6. Lists(vetoed, V) /\ T \cap ToSet(A) = {} /\ V \cap ToSet(A) = {} /\ T \cap V = {}
  BY <1>3, <1>5 DEF TreeInv, Gone
<1>7. Lists(vetoed', U) BY <1>2, <1>3, <1>5, <1>6, ListsBoth
<1>8. ToSet(vetoed') = U /\ Lists(vetoed', ToSet(vetoed')) BY <1>7, ToSetLists
<1>9. Gone' = Gone \cup ToSet(A) BY <1>4, <1>5, <1>8 DEF Gone
<1>10. ToSet(TreeDigis) \cap ToSet(vetoed') = {} BY <1>5, <1>6, <1>8
<1>11. TreeInv' BY <1>2, <1>4, <1>8, <1>9, <1>10 DEF TreeInv
<1> QED BY <1>2, <1>9, <1>11

LEMMA FillStep == ASSUME RunInv, Fill PROVE RunInv'
<1>1. RunsOn' BY DEF RunInv, Fill, RunsOn, MaxEvents, UseSorter
<1>2. ~Stored /\ Stored' /\ InputOpen /\ pc' # "done" BY DEF Fill, Stored, InputOpen
<1>3. TreeInv' /\ Gone' = Gone \cup ToSet(buffer.array)
  <2>1. CASE tree' = Append(tree, TreeEntry) /\ UNCHANGED vetoed
    BY <1>2, <2>1, ArrayStored DEF Fill
  <2>2. CASE vetoed' = vetoed \o buffer.array /\ UNCHANGED tree
    BY <1>2, <2>2, ArrayVetoed DEF Fill
  <2> QED BY <2>1, <2>2 DEF Fill
<1> QED BY <1>1, <1>2, <1>3, StoredKeeps DEF Fill

LEMMA LastFillStep == ASSUME RunInv, LastFill PROVE RunInv'
<1>1. RunsOn' BY DEF RunInv, LastFill, RunsOn, MaxEvents, UseSorter
<1>2. ~Stored /\ ~InputOpen' BY DEF LastFill, Stored, InputOpen
<1>3. fFillLastData \in BOOLEAN /\ fFillLastData' = fFillLastData BY DEF RunInv, RunsOn, LastFill
<1>4. CASE fFillLastData
  <2>1. Stored' BY <1>4 DEF LastFill, Stored
  <2>2. TreeInv' /\ Gone' = Gone \cup ToSet(buffer.array) BY <1>2, <1>4, ArrayStored DEF LastFill
  <2> QED BY <1>1, <1>2, <2>1, <2>2, StoredKeeps DEF LastFill
<1>5. CASE ~fFillLastData
  <2>1. ~Stored' BY <1>5 DEF LastFill, Stored
  <2> QED BY <1>1, <1>2, <1>3, <1>5, <2>1, GoesOn DEF LastFill
<1> QED BY <1>3, <1>4, <1>5

LEMMA FinishEventStep == ASSUME RunInv, FinishEvent PROVE RunInv'
<1> USE DEF RunInv, FinishEvent
<1>1. RunsOn' BY DEF RunsOn, MaxEvents, UseSorter
<1>2. Stored /\ ~Stored' /\ InputOpen BY DEF Stored, InputOpen
<1>3. DigisNumbered' BY DEF DigisNumbered
<1>4. Unstored = buffer' /\ Unstored' = buffer' BY <1>2 DEF Unstored
<1>5. buffer'.fStartTime_map = buffer.fStartTime_map /\ buffer'.array = << >>
  <2>1. buffer \in Buffer BY DEF BufferInv
  <2> QED BY <2>1 DEF Buffer, DeleteOldData
<1>6. TreeDigis' = TreeDigis /\ Gone' = Gone /\ Moved' = Moved BY <1>5 DEF TreeDigis, Gone, Moved
<1>7. Detects(buffer', Moved, Gone, buffer'.fStartTime_map) BY <1>4, <1>5 DEF BufferInv
<1>8. ToSet(buffer'.array) = {}
  <2>1. ToSet(<< >>) = {} BY ListsNone, ToSetLists
  <2> QED BY <1>5, <2>1
<1>9. BufferInv'
  <2>1. buffer' \in Buffer BY <1>7, DetectsParts
  <2>2. buffer'.fStartTime_map \subseteq filled BY <1>5 DEF BufferInv
  <2> QED BY <1>4, <1>6, <1>7, <1>8, <2>1, <2>2 DEF BufferInv
<1>10. AllPassed' BY <1>2, <1>6, <1>8 DEF AllPassed
<1>11. TreeInv' BY <1>2, <1>6 DEF TreeInv
<1>12. EndInv' BY DEF EndInv
<1> QED BY <1>1, <1>3, <1>9, <1>10, <1>11, <1>12

\* The invariant holds at every step of the run: each of the event loop's calls keeps it.
THEOREM RunInvariant == Spec => []RunInv
<1>1. ASSUME RunInv, [Next]_vars PROVE RunInv'
  <2>1. CASE ReadEvent BY <1>1, <2>1, ReadStep
  <2>2. CASE LoopEnds BY <1>1, <2>2, LoopEndsStep
  <2>3. CASE StoreWriteoutBufferData BY <1>1, <2>3, StoreStep
  <2>4. CASE Digitize BY <1>1, <2>4, DigitizeStep
  <2>5. CASE ExecSorter BY <1>1, <2>5, ExecStep
  <2>6. CASE Fill BY <1>1, <2>6, FillStep
  <2>7. CASE FinishEvent BY <1>1, <2>7, FinishEventStep
  <2>8. CASE StoreAllWriteoutBufferData BY <1>1, <2>8, StoreAllStep
  <2>9. CASE FinishTask BY <1>1, <2>9, FinishTaskStep
  <2>10. CASE LastFill BY <1>1, <2>10, LastFillStep
  <2>11. CASE UNCHANGED vars
    <3> USE <1>1, <2>11 DEF RunInv, vars
    <3>1. RunsOn' BY DEF RunsOn, MaxEvents, UseSorter
    <3>2. DigisNumbered' BY DEF DigisNumbered
    <3>3. /\ Moved' = Moved /\ TreeDigis' = TreeDigis /\ Gone' = Gone
          /\ (Stored' <=> Stored) /\ Unstored' = Unstored
      BY DEF Moved, TreeDigis, Gone, Stored, Unstored
    <3>4. BufferInv' BY <3>3 DEF BufferInv
    <3>5. AllPassed' BY <3>3 DEF AllPassed, InputOpen
    <3>6. TreeInv' BY <3>3 DEF TreeInv
    <3>7. EndInv' BY DEF EndInv
    <3> QED BY <3>1, <3>2, <3>4, <3>5, <3>6, <3>7
  <2> QED BY <1>1, <2>1, <2>2, <2>3, <2>4, <2>5, <2>6, <2>7, <2>8, <2>9, <2>10, <2>11 DEF Next
<1> QED BY <1>1, InitInv, PTL DEF Spec

-----------------------------------------------------------------------------
(* The sorter in the event loop. *)

\* The sorter is the one RingSorterProofs is about.
Ring == INSTANCE RingSorterProofs WITH Times <- {}, MaxDigis <- 0, added <- << >>,
                                       delivered <- << >>, finished <- FALSE

LEMMA RingAssumptions == Ring!RingAssumption /\ Ring!InputAssumption
BY RingAssumption DEF Ring!RingAssumption, Ring!InputAssumption

LEMMA SameCells == Slots = Ring!Slots /\ GetBufferSize = Ring!GetBufferSize /\ EmptySorter = Ring!EmptySorter
BY DEF Slots, Ring!Slots, GetBufferSize, Ring!GetBufferSize, EmptySorter, Ring!EmptySorter

LEMMA SameCell == ASSUME NEW time PROVE CellOf(time) = Ring!CellOf(time)
BY DEF CellOf, Ring!CellOf

LEMMA SameWriteOut ==
    ASSUME NEW s, NEW index PROVE WriteOutElements(s, index) = Ring!WriteOutElements(s, index)
<1>1. Span(s, index) = Ring!Span(s, index) BY DEF Span, Ring!Span
<1>2. \A k : SlotAt(s, k) = Ring!SlotAt(s, k) BY DEF SlotAt, Ring!SlotAt
<1> QED BY <1>1, <1>2, SameCells DEF WriteOutElements, Ring!WriteOutElements

LEMMA SameWriteOutAll == ASSUME NEW s PROVE WriteOutAll(s) = Ring!WriteOutAll(s)
BY SameWriteOut DEF WriteOutAll, Ring!WriteOutAll

LEMMA SameIndex == ASSUME NEW time PROVE CalcIndex(time) = Ring!CalcIndex(time)
BY DEF CalcIndex, Ring!CalcIndex, CellOf, Ring!CellOf

LEMMA SameBound == ASSUME NEW s, NEW time PROVE SetLowerBound(s, time) = Ring!SetLowerBound(s, time)
BY SameIndex, SameCells, SameCell DEF SetLowerBound, Ring!SetLowerBound

LEMMA SameRoom == ASSUME NEW s, NEW time PROVE MakeRoom(s, time) = Ring!MakeRoom(s, time)
<1>1. CalcIndex(time) = Ring!CalcIndex(time) BY SameIndex
<1>2. WriteOutElements(s, CalcIndex(time) + 1) = Ring!WriteOutElements(s, CalcIndex(time) + 1) BY SameWriteOut
<1>3. WriteOutAll(s) = Ring!WriteOutAll(s) BY SameWriteOutAll
<1>4. \A w : SetLowerBound(w, time) = Ring!SetLowerBound(w, time) BY SameBound
<1> QED BY <1>1, <1>2, <1>3, <1>4, SameCells DEF MakeRoom, Ring!MakeRoom

LEMMA SameAdd == ASSUME NEW s, NEW e PROVE AddElement(s, e) = Ring!AddElement(s, e)
<1>1. MakeRoom(s, e.t) = Ring!MakeRoom(s, e.t) BY SameRoom
<1>2. CalcIndex(e.t) = Ring!CalcIndex(e.t) BY SameIndex
<1> QED BY <1>1, <1>2 DEF AddElement, Ring!AddElement, BelowLowerBound, Ring!BelowLowerBound

LEMMA SameDelete == ASSUME NEW s PROVE DeleteOutputData(s) = Ring!DeleteOutputData(s)
BY DEF DeleteOutputData, Ring!DeleteOutputData
-----------------------------------------------------------------------------
(* What the sorter has and what it has written out. *)

\* The n-th digi given to the sorter.
Given(n, input) == [id |-> n, t |-> input[n].t]
AreDigis(input) == IsSeq(input) /\ \A k \in DOMAIN input : input[k].t \in Nat

\* The sorter s with the cells d that were taken from it before.
Out(s, d) == d \o s.fOutputData
Elements(s, d) == Ring!InRing(s) \cup Ring!Contents(Out(s, d))

Sorts(s, d, input) ==
    /\ s \in Ring!Sorter /\ Ring!Aligned(s) /\ d \in Seq(SUBSET Ring!Element)
    /\ Ring!Ascending(Out(s, d))
    /\ \A e \in Ring!Contents(Out(s, d)) : Ring!CellOf(e.t) < Ring!CellOf(s.second)
    /\ AreDigis(input)
    /\ \A e \in Elements(s, d) : e.id \in DOMAIN input /\ e = Given(e.id, input)
    /\ \/ Ring!CellOf(s.second) = 0
       \/ \E i \in DOMAIN input : Ring!CellOf(input[i].t) + 1 - NumCells = Ring!CellOf(s.second)

HasAll(s, d, input) == \A n \in DOMAIN input : Given(n, input) \in Elements(s, d)

\* No digi comes out of order by as much as the ring is long.
Within(input) ==
    \A i, j \in DOMAIN input : i < j => CellOf(input[i].t) < CellOf(input[j].t) + NumCells

\* One digi more, the n-th.
Follows(input, digi, more, n) ==
    /\ AreDigis(more) /\ DOMAIN more = DOMAIN input \cup {n} /\ n \in Nat /\ n \notin DOMAIN input
    /\ \A k \in DOMAIN input : k < n /\ more[k] = input[k] /\ Given(k, more) = Given(k, input)
    /\ more[n] = digi

LEMMA OneMore ==
    ASSUME NEW input, AreDigis(input), NEW digi, digi.t \in Nat
    PROVE Follows(input, digi, Append(input, digi), Len(input) + 1)
<1>0. PICK more : more = Append(input, digi) OBVIOUS
<1>1. PICK n : n = Len(input) OBVIOUS
<1>2. n \in Nat /\ DOMAIN input = 1 .. n /\ IsSeq(input) BY <1>1, IsSeqIs DEF AreDigis
<1>3. /\ IsSeq(more) /\ DOMAIN more = 1 .. n + 1 /\ more[n + 1] = digi
      /\ \A k \in 1 .. n : more[k] = input[k]
  BY <1>0, <1>1, <1>2, AppendIs
<1>4. \A k \in 1 .. n + 1 : k \in 1 .. n \/ k = n + 1 BY <1>2
<1>5. AreDigis(more)
  <2>1. ASSUME NEW k \in 1 .. n + 1 PROVE more[k].t \in Nat BY <1>2, <1>3, <1>4 DEF AreDigis
  <2> QED BY <1>3, <2>1 DEF AreDigis
<1>6. 1 .. n + 1 = (1 .. n) \cup {n + 1} /\ n + 1 \in Nat /\ n + 1 \notin 1 .. n /\ \A k \in 1 .. n : k < n + 1
  BY <1>2
<1>7. \A k \in 1 .. n : Given(k, more) = Given(k, input) BY <1>3 DEF Given
<1>8. Follows(input, digi, more, n + 1) BY <1>2, <1>3, <1>5, <1>6, <1>7 DEF Follows
<1> QED BY <1>0, <1>1, <1>8

\* From s with its input to x with more: nothing is lost that is not too late.
SortsOn(s, input, d, x, more) ==
    /\ Sorts(x, d, more)
    /\ HasAll(s, d, input) /\ Within(more) => HasAll(x, d, more)

LEMMA SortsNext ==
    ASSUME NEW s, NEW d, NEW input, Sorts(s, d, input), NEW digi, digi.t \in Nat
    PROVE SortsOn(s, input, d, AddElement(s, [id |-> Len(input) + 1, t |-> digi.t]), Append(input, digi))
<1>0. PICK more, e, x : /\ more = Append(input, digi) /\ e = [id |-> Len(input) + 1, t |-> digi.t]
                        /\ x = AddElement(s, e)
  OBVIOUS
<1> SUFFICES SortsOn(s, input, d, x, more)
  BY <1>0
<1>1. PICK n : n = Len(input) + 1 OBVIOUS
<1>2. /\ s \in Ring!Sorter /\ Ring!Aligned(s) /\ d \in Seq(SUBSET Ring!Element) /\ AreDigis(input)
  BY DEF Sorts
<1>3. /\ AreDigis(more) /\ DOMAIN more = DOMAIN input \cup {n} /\ n \in Nat /\ n \notin DOMAIN input
      /\ \A k \in DOMAIN input : k < n /\ more[k] = input[k] /\ Given(k, more) = Given(k, input)
      /\ more[n] = digi
  <2>1. Follows(input, digi, Append(input, digi), Len(input) + 1) BY <1>2, OneMore
  <2>2. Follows(input, digi, more, n) BY <1>0, <1>1, <2>1
  <2> QED BY <2>2 DEF Follows
<1>4. e \in Ring!Element /\ e.id = n /\ e.t = digi.t /\ e = Given(n, more)
  BY <1>0, <1>1, <1>3 DEF Ring!Element, Given
<1>5. PICK low \in Nat : low = Ring!CellOf(s.second)
  <2>1. s.second \in Nat BY <1>2 DEF Ring!Sorter
  <2> QED BY <2>1, RingAssumptions, Ring!CellIsNat
<1>6. PICK cell \in Nat : cell = Ring!CellOf(e.t)
  <2>1. e.t \in Nat BY <1>4
  <2> QED BY <2>1, RingAssumptions, Ring!CellIsNat
<1>7. x = Ring!AddElement(s, e) BY <1>0, SameAdd
<1>8. CASE Ring!BelowLowerBound(s, e.t)
  <2>1. x = s BY <1>7, <1>8 DEF Ring!AddElement
  <2>2. Sorts(x, d, more)
    <3>1. \A k \in Elements(s, d) : k.id \in DOMAIN more /\ k = Given(k.id, more) BY <1>3 DEF Sorts
    <3>2. low = 0 \/ \E i \in DOMAIN more : Ring!CellOf(more[i].t) + 1 - NumCells = low
      BY <1>3, <1>5 DEF Sorts
    <3>3. /\ Ring!Ascending(Out(s, d))
          /\ \A k \in Ring!Contents(Out(s, d)) : Ring!CellOf(k.t) < Ring!CellOf(s.second)
      BY DEF Sorts
    <3> QED BY <1>2, <1>3, <1>5, <2>1, <3>1, <3>2, <3>3 DEF Sorts
  \* A digi that is refused is a cell below the bound, and the bound was set by another one.
  <2>3. ~Within(more)
    <3>1. cell < low
      <4>1. e.t < s.second /\ e.t \in Nat /\ s.second \in Nat
        BY <1>2, <1>4, <1>8 DEF Ring!BelowLowerBound, Ring!Sorter
      <4>2. s.second = low * CellWidth BY <1>2, <1>5 DEF Ring!Aligned
      <4>3. ~(e.t >= CellWidth * low) /\ low \in Int BY <1>5, <4>1, <4>2, RingAssumption
      <4>4. ~(e.t \div CellWidth >= low) BY <4>1, <4>3, RingAssumption, DivGe
      <4>5. cell = e.t \div CellWidth BY <1>6 DEF Ring!CellOf
      <4> QED BY <1>5, <1>6, <4>4, <4>5
    <3>2. PICK i \in DOMAIN input : Ring!CellOf(input[i].t) + 1 - NumCells = low
      BY <1>5, <1>6, <3>1 DEF Sorts
    <3>3. PICK high \in Nat : high = Ring!CellOf(input[i].t)
      <4>1. input[i].t \in Nat BY <1>2 DEF AreDigis
      <4> QED BY <4>1, RingAssumptions, Ring!CellIsNat
    <3>4. ~(high < cell + NumCells) BY <1>5, <1>6, <3>1, <3>2, <3>3, RingAssumption
    <3>5. /\ i \in DOMAIN more /\ n \in DOMAIN more /\ i < n
          /\ CellOf(more[i].t) = high /\ CellOf(more[n].t) = cell
      BY <1>3, <1>4, <1>6, <3>3, SameCell
    <3> QED BY <3>4, <3>5 DEF Within
  <2> QED BY <2>2, <2>3 DEF SortsOn
<1>9. CASE ~Ring!BelowLowerBound(s, e.t)
  <2>1. PICK m \in 0 .. NumCells :
          /\ x \in Ring!Sorter /\ Ring!Aligned(x)
          /\ x.fOutputData = s.fOutputData \o Ring!Batch(s, m)
          /\ low + m <= Ring!CellOf(x.second)
          /\ Ring!InRing(x) \cup Ring!Contents(Ring!Batch(s, m)) = Ring!InRing(s) \cup {e}
          /\ Ring!CellOf(x.second) = Ring!BoundFor(s, e.t)
    <3>1. PICK m \in 0 .. NumCells :
            /\ Ring!AddElement(s, e) \in Ring!Sorter /\ Ring!Aligned(Ring!AddElement(s, e))
            /\ Ring!AddElement(s, e).fOutputData = s.fOutputData \o Ring!Batch(s, m)
            /\ Ring!CellOf(s.second) + m <= Ring!CellOf(Ring!AddElement(s, e).second)
            /\ Ring!InRing(Ring!AddElement(s, e)) \cup Ring!Contents(Ring!Batch(s, m))
                  = Ring!InRing(s) \cup {e}
            /\ Ring!CellOf(Ring!AddElement(s, e).second) = Ring!BoundFor(s, e.t)
      BY <1>2, <1>4, <1>9, RingAssumptions, Ring!ElementAdded
    <3> QED BY <1>5, <1>7, <3>1
  <2>2. PICK B : B = Ring!Batch(s, m) OBVIOUS
  <2>3. /\ B \in Seq(SUBSET Ring!Element) /\ Ring!Ascending(B)
        /\ \A k \in Ring!Contents(B) : low <= Ring!CellOf(k.t) /\ Ring!CellOf(k.t) < low + m
    BY <1>2, <1>5, <2>2, RingAssumptions, Ring!BatchAscends
  <2>4. PICK W : W = Out(s, d) OBVIOUS
  <2>5. s.fOutputData \in Seq(SUBSET Ring!Element) BY <1>2 DEF Ring!Sorter
  <2>6. W \in Seq(SUBSET Ring!Element) /\ Out(x, d) = W \o B
    <3>1. /\ d \o s.fOutputData \in Seq(SUBSET Ring!Element)
          /\ d \o (s.fOutputData \o B) = (d \o s.fOutputData) \o B
      <4>1. d \o s.fOutputData \in Seq(SUBSET Ring!Element)
        BY <1>2, <2>5, ConcatProperties
      <4>2. d \o (s.fOutputData \o B) = (d \o s.fOutputData) \o B
        <5>1. PICK S, o : S = SUBSET Ring!Element /\ o = s.fOutputData OBVIOUS
        <5>2. d \in Seq(S) /\ o \in Seq(S) /\ B \in Seq(S) BY <1>2, <2>3, <2>5, <5>1
        <5>3. (d \o o) \o B = d \o (o \o B) BY <5>2, ConcatAssociative
        <5> QED BY <5>1, <5>3
      <4> QED BY <4>1, <4>2
    <3> QED BY <2>1, <2>2, <2>4, <3>1 DEF Out
  <2>7. Ring!Contents(Out(x, d)) = Ring!Contents(W) \cup Ring!Contents(B)
    BY <2>3, <2>6, RingAssumptions, Ring!ContentsAppend
  <2>8. Elements(x, d) = Elements(s, d) \cup {e} BY <2>1, <2>2, <2>4, <2>7 DEF Elements
  <2>9. PICK top \in Nat : top = Ring!CellOf(x.second)
    <3>1. x.second \in Nat BY <2>1 DEF Ring!Sorter
    <3> QED BY <3>1, RingAssumptions, Ring!CellIsNat
  <2>10. m \in Nat /\ low <= top /\ low + m <= top BY <1>5, <2>1, <2>9, RingAssumption
  <2>11. \A k \in Ring!Contents(W) : Ring!CellOf(k.t) < low BY <1>5, <2>4 DEF Sorts
  <2>12. Ring!Ascending(Out(x, d))
    <3>1. Ring!Ascending(W) BY <2>4 DEF Sorts
    <3>2. \A k \in Ring!Contents(B) : low <= Ring!CellOf(k.t) BY <2>3
    <3> QED BY <2>3, <2>6, <2>11, <3>1, <3>2, RingAssumptions, Ring!AscendingAppend
  <2>13. \A k \in Ring!Contents(Out(x, d)) : Ring!CellOf(k.t) < top
    <3>1. ASSUME NEW k \in Ring!Contents(W) PROVE Ring!CellOf(k.t) < top
      <4>1. Ring!CellOf(k.t) \in Nat BY <2>6, RingAssumptions, Ring!ContentsTyped
      <4> QED BY <2>10, <2>11, <4>1
    <3>2. ASSUME NEW k \in Ring!Contents(B) PROVE Ring!CellOf(k.t) < top
      <4>1. Ring!CellOf(k.t) \in Nat BY <2>3, RingAssumptions, Ring!ContentsTyped
      <4> QED BY <2>3, <2>10, <4>1
    <3> QED BY <2>7, <3>1, <3>2
  <2>14. \A k \in Elements(x, d) : k.id \in DOMAIN more /\ k = Given(k.id, more)
    <3>1. \A k \in Elements(s, d) : k.id \in DOMAIN more /\ k = Given(k.id, more) BY <1>3 DEF Sorts
    <3> QED BY <1>3, <1>4, <2>8, <3>1
  <2>15. top = 0 \/ \E i \in DOMAIN more : Ring!CellOf(more[i].t) + 1 - NumCells = top
    <3>1. CASE top = low BY <1>3, <1>5, <3>1 DEF Sorts
    <3>2. CASE top # low
      <4>1. top = cell + 1 - NumCells BY <1>5, <1>6, <2>1, <2>9, <3>2 DEF Ring!BoundFor
      <4> QED BY <1>3, <1>4, <1>6, <4>1
    <3> QED BY <3>1, <3>2
  <2>16. Sorts(x, d, more) BY <1>2, <1>3, <2>1, <2>9, <2>12, <2>13, <2>14, <2>15 DEF Sorts
  <2>17. HasAll(s, d, input) => HasAll(x, d, more)
    BY <1>3, <1>4, <2>8 DEF HasAll
  <2> QED BY <2>16, <2>17 DEF SortsOn
<1> QED BY <1>8, <1>9
\* The first k of the input.
First(input, k) == [i \in 1 .. k |-> input[i]]

LEMMA FirstOne ==
    ASSUME NEW input, IsSeq(input), NEW k \in Nat, k < Len(input)
    PROVE First(input, k + 1) = Append(First(input, k), input[k + 1])
<1>1. PICK S : input \in Seq(S) BY DEF IsSeq
<1>2. PICK n \in Nat : n = Len(input) /\ input \in [1 .. n -> S] BY <1>1
<1>3. PICK f, g : f = First(input, k) /\ g = First(input, k + 1) OBVIOUS
<1>4. k + 1 \in 1 .. n /\ \A i \in 1 .. k + 1 : i \in 1 .. n BY <1>2
<1>5. f \in Seq(S) /\ g \in Seq(S) /\ Len(f) = k /\ Len(g) = k + 1
  <2>1. f \in [1 .. k -> S] /\ g \in [1 .. k + 1 -> S] BY <1>2, <1>3, <1>4 DEF First
  <2> QED BY <2>1
<1>6. PICK h : h = Append(f, input[k + 1]) OBVIOUS
<1>7. IsSeq(f) BY <1>5 DEF IsSeq
<1>8. IsSeq(h) /\ DOMAIN h = 1 .. k + 1 /\ h[k + 1] = input[k + 1] /\ \A i \in 1 .. k : h[i] = f[i]
  BY <1>5, <1>6, <1>7, AppendIs
<1>9. h = [i \in 1 .. k + 1 |-> h[i]]
  <2>1. PICK T : h \in Seq(T) BY <1>8 DEF IsSeq
  <2> QED BY <1>8, <2>1
<1>10. \A i \in 1 .. k + 1 : h[i] = input[i]
  <2>1. \A i \in 1 .. k + 1 : i \in 1 .. k \/ i = k + 1 OBVIOUS
  <2>2. \A i \in 1 .. k : f[i] = input[i] BY <1>3 DEF First
  <2> QED BY <1>8, <2>1, <2>2
<1>11. h = g BY <1>3, <1>9, <1>10 DEF First
<1> QED BY <1>3, <1>6, <1>11

LEMMA FirstAll ==
    ASSUME NEW s, IsSeq(s), NEW t, IsSeq(t)
    PROVE First(s \o t, Len(s)) = s /\ First(s \o t, Len(s) + Len(t)) = s \o t
<1>0. PICK c : c = s \o t OBVIOUS
<1>1. PICK m, n : m = Len(s) /\ n = Len(t) OBVIOUS
<1>2. m \in Nat /\ n \in Nat /\ DOMAIN s = 1 .. m BY <1>1, IsSeqIs
<1>3. IsSeq(c) /\ DOMAIN c = 1 .. m + n /\ \A i \in 1 .. m : c[i] = s[i]
  <2>1. IsSeq(c) BY <1>0, ConcatIs
  <2>2. DOMAIN c = 1 .. Len(s) + Len(t) BY <1>0, ConcatIs
  <2>3. \A i \in DOMAIN s : c[i] = s[i] BY <1>0, ConcatIs
  <2> QED BY <1>1, <1>2, <2>1, <2>2, <2>3
<1>4. s = [i \in 1 .. m |-> s[i]]
  <2>1. PICK T : s \in Seq(T) BY DEF IsSeq
  <2> QED BY <1>2, <2>1
<1>5. c = [i \in 1 .. m + n |-> c[i]]
  <2>1. PICK T : c \in Seq(T) BY <1>3 DEF IsSeq
  <2>2. c = [i \in DOMAIN c |-> c[i]] BY <2>1
  <2> QED BY <1>3, <2>2
<1> QED BY <1>0, <1>1, <1>3, <1>4, <1>5 DEF First

LEMMA WithinFirst ==
    ASSUME NEW input, IsSeq(input), Within(input), NEW k \in Nat, k <= Len(input)
    PROVE Within(First(input, k))
<1>1. Len(input) \in Nat /\ DOMAIN input = 1 .. Len(input) BY IsSeqIs
<1>2. \A i \in 1 .. k : i \in DOMAIN input BY <1>1
<1>3. DOMAIN First(input, k) = 1 .. k /\ \A i \in 1 .. k : First(input, k)[i] = input[i] BY DEF First
<1> QED BY <1>2, <1>3 DEF Within

LEMMA ArrayUnfolds ==
    ASSUME NEW s, NEW digis \in Seq(Digi)
    PROVE \E g : /\ g[0] = s /\ WithArray(s, digis) = g[Len(digis)]
                 /\ \A k \in 1 .. Len(digis) :
                       g[k] = AddElement(g[k - 1], [id |-> Len(sorterInput) + k, t |-> digis[k].t])
<1>1. PICK m \in Nat : m = Len(digis) OBVIOUS
<1>2. PICK n : n = Len(sorterInput) OBVIOUS
<1> DEFINE Element1(k) == [id |-> n + k, t |-> digis[k].t]
           Step(g, k) == IF k = 0 THEN s ELSE AddElement(g[k - 1], Element1(k))
           Unfolds(g, top) == g = [k \in 0 .. top |-> Step(g, k)]
           Exist == {i \in 0 .. m : \E g : Unfolds(g, i)}
<1>3. 0 \in Exist
  <2> DEFINE g == [i \in 0 .. 0 |-> s]
  <2>1. \A k \in 0 .. 0 : Step(g, k) = s OBVIOUS
  <2> HIDE DEF Step
  <2>2. Unfolds(g, 0) BY <2>1
  <2> HIDE DEF Unfolds
  <2> QED BY <2>2
<1>4. ASSUME NEW i \in 0 .. m - 1, i \in Exist PROVE i + 1 \in Exist
  <2>1. PICK g : Unfolds(g, i) BY <1>4
  <2>2. PICK y : y = AddElement(g[i], Element1(i + 1)) OBVIOUS
  <2> DEFINE h == [k \in 0 .. i + 1 |-> IF k = i + 1 THEN y ELSE g[k]]
  <2>3. \A k \in 0 .. i : h[k] = g[k] OBVIOUS
  <2>4. h[i + 1] = y OBVIOUS
  <2>5. h = [k \in 0 .. i + 1 |-> h[k]] OBVIOUS
  <2> HIDE DEF h, Element1
  <2>6. ASSUME NEW k \in 0 .. i + 1 PROVE h[k] = Step(h, k)
    <3>1. CASE k = i + 1
      <4>1. k # 0 /\ k - 1 = i /\ i \in 0 .. i BY <3>1
      <4> QED BY <2>2, <2>3, <2>4, <3>1, <4>1
    <3>2. CASE k # i + 1
      <4>1. k \in 0 .. i /\ (k # 0 => k - 1 \in 0 .. i) BY <3>2
      <4>2. g[k] = Step(g, k)
        <5> HIDE DEF Step
        <5> QED BY <2>1, <4>1
      <4> QED BY <2>3, <4>1, <4>2
    <3> QED BY <3>1, <3>2
  <2> HIDE DEF Step
  <2>7. Unfolds(h, i + 1) BY <2>5, <2>6
  <2>8. i + 1 \in 0 .. m OBVIOUS
  <2> HIDE DEF Unfolds
  <2> QED BY <2>7, <2>8
<1>5. m \in Exist
  <2>1. 0 \in Int /\ 0 \in Nat /\ m \in Int /\ m \in 0 .. m OBVIOUS
  <2>2. PICK T : T = Exist OBVIOUS
  <2> HIDE DEF Exist
  <2>3. 0 .. m \subseteq T BY <1>3, <1>4, <2>1, <2>2, InductionUpTo
  <2> QED BY <2>1, <2>2, <2>3
<1>6. WithArray(s, digis) = (CHOOSE g : Unfolds(g, m))[m] BY <1>1, <1>2 DEF WithArray
<1>7. PICK g : Unfolds(g, m) /\ WithArray(s, digis) = g[m]
  <2>1. \E g : Unfolds(g, m)
    <3> HIDE DEF Unfolds
    <3> QED BY <1>5
  <2> HIDE DEF Unfolds
  <2> QED BY <1>6, <2>1
<1>8. \A k \in 0 .. m : g[k] = Step(g, k)
  <2> HIDE DEF Step
  <2> QED BY <1>7
<1>9. g[0] = s
  <2>1. 0 \in 0 .. m OBVIOUS
  <2>2. g[0] = Step(g, 0)
    <3> HIDE DEF Step
    <3> QED BY <1>8, <2>1
  <2> QED BY <2>2
<1>10. ASSUME NEW k \in 1 .. m PROVE g[k] = AddElement(g[k - 1], Element1(k))
  <2>1. k \in 0 .. m /\ k # 0 OBVIOUS
  <2>2. g[k] = Step(g, k)
    <3> HIDE DEF Step
    <3> QED BY <1>8, <2>1
  <2> QED BY <2>1, <2>2
<1> QED BY <1>1, <1>2, <1>7, <1>9, <1>10

LEMMA SortsArray ==
    ASSUME NEW s, NEW d, Sorts(s, d, sorterInput), NEW digis \in Seq(Digi)
    PROVE SortsOn(s, sorterInput, d, WithArray(s, digis), sorterInput \o digis)
<1>0. PICK more, x, input : more = sorterInput \o digis /\ x = WithArray(s, digis) /\ input = sorterInput
  OBVIOUS
<1>1. PICK m, n : m = Len(digis) /\ n = Len(input) OBVIOUS
<1>2. IsSeq(input) /\ AreDigis(input) /\ IsSeq(digis) /\ m \in Nat /\ n \in Nat
  BY <1>0, <1>1, IsSeqIs DEF Sorts, AreDigis, IsSeq
<1>3. IsSeq(more) /\ Len(more) = n + m /\ \A i \in 1 .. m : more[n + i] = digis[i]
  <2>1. DOMAIN digis = 1 .. m BY <1>1, <1>2, IsSeqIs
  <2>2. IsSeq(more) BY <1>0, <1>2, ConcatIs
  <2>3. Len(more) = Len(input) + Len(digis) BY <1>0, <1>2, ConcatIs
  <2>4. \A i \in DOMAIN digis : more[Len(input) + i] = digis[i] BY <1>0, <1>2, ConcatIs
  <2> QED BY <1>1, <2>1, <2>2, <2>3, <2>4
<1>4. First(more, n) = input /\ First(more, n + m) = more
  <2>1. First(input \o digis, Len(input)) = input BY <1>2, FirstAll
  <2>2. First(input \o digis, Len(input) + Len(digis)) = input \o digis BY <1>2, FirstAll
  <2> QED BY <1>0, <1>1, <2>1, <2>2
<1>5. PICK g : /\ g[0] = s /\ x = g[m]
               /\ \A k \in 1 .. m : g[k] = AddElement(g[k - 1], [id |-> n + k, t |-> digis[k].t])
  BY <1>0, <1>1, ArrayUnfolds
<1> DEFINE Right(k) == /\ Sorts(g[k], d, First(more, n + k))
                       /\ HasAll(s, d, input) /\ Within(more) => HasAll(g[k], d, First(more, n + k))
           Good == {k \in 0 .. m : Right(k)}
<1>6. 0 \in Good
  <2>1. 0 \in 0 .. m /\ n + 0 = n BY <1>2
  <2> QED BY <1>0, <1>4, <1>5, <2>1
<1>7. ASSUME NEW k \in 0 .. m - 1, k \in Good PROVE k + 1 \in Good
  <2>1. k + 1 \in 0 .. m /\ (k + 1) - 1 = k /\ k + 1 \in 1 .. m /\ n + k \in Nat /\ n + k < n + m
        /\ n + (k + 1) = (n + k) + 1 /\ n + (k + 1) <= n + m /\ n + (k + 1) \in Nat
    BY <1>2
  <2>2. PICK u, v, old, new, digi, e :
          /\ u = g[k] /\ v = g[k + 1] /\ old = First(more, n + k) /\ new = First(more, n + (k + 1))
          /\ digi = digis[k + 1] /\ e = [id |-> n + (k + 1), t |-> digi.t]
    OBVIOUS
  <2>3. digi.t \in Nat
    <3>1. digi \in Digi BY <1>1, <2>1, <2>2
    <3> QED BY <3>1 DEF Digi
  <2>4. new = Append(old, digi)
    <3>1. PICK l \in Nat : l = n + k BY <2>1
    <3>2. First(more, l + 1) = Append(First(more, l), more[l + 1]) BY <1>3, <2>1, <3>1, FirstOne
    <3>3. more[l + 1] = digi BY <1>3, <2>1, <2>2, <3>1
    <3> QED BY <2>1, <2>2, <3>1, <3>2, <3>3
  <2>5. Len(old) = n + k
    <3>1. Sorts(u, d, old) BY <1>7, <2>2
    <3>2. IsSeq(old) BY <3>1 DEF Sorts, AreDigis
    <3>3. DOMAIN old = 1 .. n + k BY <2>2 DEF First
    <3>4. Len(old) \in Nat /\ DOMAIN old = 1 .. Len(old) BY <3>2, IsSeqIs
    <3> QED BY <2>1, <3>3, <3>4
  <2>6. v = AddElement(u, e) BY <1>5, <2>1, <2>2
  <2>7. e = [id |-> Len(old) + 1, t |-> digi.t] BY <2>1, <2>2, <2>5
  <2>8. Sorts(u, d, old) BY <1>7, <2>2
  <2>9. Sorts(v, d, new) /\ (HasAll(u, d, old) /\ Within(new) => HasAll(v, d, new))
    <3>1. SortsOn(u, old, d, AddElement(u, [id |-> Len(old) + 1, t |-> digi.t]), Append(old, digi))
      BY <2>3, <2>8, SortsNext
    <3>2. SortsOn(u, old, d, v, new) BY <2>4, <2>6, <2>7, <3>1
    <3> QED BY <3>2 DEF SortsOn
  <2>10. Within(more) => Within(new)
    BY <1>3, <2>1, <2>2, WithinFirst
  <2> QED BY <1>7, <2>1, <2>2, <2>9, <2>10
<1>8. m \in Good
  <2>1. 0 \in Int /\ 0 \in Nat /\ m \in Int /\ m \in 0 .. m BY <1>2
  <2>2. PICK T : T = Good OBVIOUS
  <2> HIDE DEF Good
  <2>3. 0 .. m \subseteq T BY <1>6, <1>7, <2>1, <2>2, InductionUpTo
  <2> QED BY <2>1, <2>2, <2>3
<1>9. SortsOn(s, input, d, x, more) BY <1>4, <1>5, <1>8 DEF SortsOn
<1> QED BY <1>0, <1>9
\* What the sorter has written out is taken from it.
LEMMA SortsTaken ==
    ASSUME NEW s, NEW d, NEW input, Sorts(s, d, input)
    PROVE /\ Sorts(DeleteOutputData(s), Out(s, d), input)
          /\ Elements(DeleteOutputData(s), Out(s, d)) = Elements(s, d)
          /\ DeleteOutputData(s).fOutputData = << >>
          /\ s.fOutputData \in Seq(SUBSET Ring!Element)
<1>1. PICK x, o : x = Ring!DeleteOutputData(s) /\ o = Out(s, d) OBVIOUS
<1>2. /\ s \in Ring!Sorter /\ Ring!Aligned(s) /\ d \in Seq(SUBSET Ring!Element) BY DEF Sorts
<1>3. /\ x \in Ring!Sorter /\ x.fOutputData = << >> /\ x.fRingBuffer = s.fRingBuffer
      /\ x.first = s.first /\ x.second = s.second
  BY <1>1, <1>2, RingAssumptions, Ring!OutputDeleted
<1>4. s.fOutputData \in Seq(SUBSET Ring!Element) BY <1>2 DEF Ring!Sorter
<1>5. o \in Seq(SUBSET Ring!Element) BY <1>1, <1>2, <1>4, ConcatProperties DEF Out
<1>6. Out(x, o) = o BY <1>3, <1>5, ConcatEmptySeq DEF Out
<1>7. Ring!InRing(x) = Ring!InRing(s) BY <1>3 DEF Ring!InRing
<1>8. Elements(x, o) = Elements(s, d) BY <1>1, <1>6, <1>7 DEF Elements
<1>9. Ring!Aligned(x)
  <2>1. \A k : Ring!SlotAt(x, k) = Ring!SlotAt(s, k) BY <1>3 DEF Ring!SlotAt
  <2> QED BY <1>2, <1>3, <2>1 DEF Ring!Aligned
<1>10. Sorts(x, o, input) BY <1>1, <1>3, <1>5, <1>6, <1>8, <1>9 DEF Sorts
<1>11. x = DeleteOutputData(s) BY <1>1, SameDelete
<1> QED BY <1>1, <1>3, <1>4, <1>8, <1>10, <1>11

\* The cells d are all of the output, in order, and have nothing that was not given.
Ended(d, input) ==
    /\ d \in Seq(SUBSET Ring!Element) /\ Ring!Ascending(d) /\ AreDigis(input)
    /\ \A e \in Ring!Contents(d) : e.id \in DOMAIN input /\ e = Given(e.id, input)

\* While nothing is waiting to be taken, what was taken is in order.
LEMMA SortsEnded ==
    ASSUME NEW s, NEW d, NEW input, Sorts(s, d, input), s.fOutputData = << >>
    PROVE Ended(d, input) /\ Out(s, d) = d
<1>1. d \in Seq(SUBSET Ring!Element) BY DEF Sorts
<1>2. Out(s, d) = d BY <1>1, ConcatEmptySeq DEF Out
<1> QED BY <1>1, <1>2 DEF Sorts, Ended, Elements

\* WriteOutAll in FinishTask.
LEMMA SortsAtEnd ==
    ASSUME NEW s, NEW d, NEW input, Sorts(s, d, input)
    PROVE /\ Ended(Out(WriteOutAll(s), d), input)
          /\ Ring!Contents(Out(WriteOutAll(s), d)) = Elements(s, d)
          /\ DeleteOutputData(WriteOutAll(s)) \in Ring!Sorter
          /\ DeleteOutputData(WriteOutAll(s)).fOutputData = << >>
          /\ WriteOutAll(s).fOutputData \in Seq(SUBSET Ring!Element)
<1>1. PICK w : w = Ring!WriteOutAll(s) OBVIOUS
<1>2. PICK B : B = Ring!Batch(s, NumCells) OBVIOUS
<1>3. /\ s \in Ring!Sorter /\ Ring!Aligned(s) /\ d \in Seq(SUBSET Ring!Element) /\ AreDigis(input)
  BY DEF Sorts
<1>4. s.fOutputData \in Seq(SUBSET Ring!Element) BY <1>3 DEF Ring!Sorter
<1>5. /\ w \in Ring!Sorter /\ w.fOutputData = s.fOutputData \o B /\ Ring!InRing(s) = Ring!Contents(B)
  BY <1>1, <1>2, <1>3, RingAssumptions, Ring!AllWritten
<1>6. PICK low \in Nat : low = Ring!CellOf(s.second)
  <2>1. s.second \in Nat BY <1>3 DEF Ring!Sorter
  <2> QED BY <2>1, RingAssumptions, Ring!CellIsNat
<1>7. NumCells \in 0 .. NumCells BY RingAssumption
<1>8. /\ B \in Seq(SUBSET Ring!Element) /\ Ring!Ascending(B)
      /\ \A k \in Ring!Contents(B) : low <= Ring!CellOf(k.t)
  BY <1>2, <1>3, <1>6, <1>7, RingAssumptions, Ring!BatchAscends
<1>9. PICK W : W = Out(s, d) OBVIOUS
<1>10. W \in Seq(SUBSET Ring!Element) /\ Out(w, d) = W \o B
  <2>1. PICK S, o : S = SUBSET Ring!Element /\ o = s.fOutputData OBVIOUS
  <2>2. d \in Seq(S) /\ o \in Seq(S) /\ B \in Seq(S) BY <1>3, <1>4, <1>8, <2>1
  <2>3. (d \o o) \o B = d \o (o \o B) BY <2>2, ConcatAssociative
  <2>4. d \o o \in Seq(S) BY <2>2, ConcatProperties
  <2> QED BY <1>5, <1>9, <2>1, <2>3, <2>4 DEF Out
<1>11. Ring!Contents(Out(w, d)) = Ring!Contents(W) \cup Ring!Contents(B)
  BY <1>8, <1>10, RingAssumptions, Ring!ContentsAppend
<1>12. Ring!Contents(Out(w, d)) = Elements(s, d) BY <1>5, <1>9, <1>11 DEF Elements
<1>13. Ring!Ascending(Out(w, d))
  <2>1. Ring!Ascending(W) /\ \A k \in Ring!Contents(W) : Ring!CellOf(k.t) < low
    BY <1>6, <1>9 DEF Sorts
  <2> QED BY <1>6, <1>8, <1>10, <2>1, RingAssumptions, Ring!AscendingAppend
<1>14. Out(w, d) \in Seq(SUBSET Ring!Element) BY <1>8, <1>10, ConcatProperties
<1>15. Ended(Out(w, d), input) BY <1>3, <1>12, <1>13, <1>14 DEF Ended, Sorts
<1>16. w = WriteOutAll(s) BY <1>1, SameWriteOutAll
<1>17. /\ Ring!DeleteOutputData(w) \in Ring!Sorter
       /\ Ring!DeleteOutputData(w).fOutputData = << >>
  BY <1>5, RingAssumptions, Ring!OutputDeleted
<1>18. DeleteOutputData(w) = Ring!DeleteOutputData(w) BY SameDelete
<1>19. w.fOutputData \in Seq(SUBSET Ring!Element) BY <1>5 DEF Ring!Sorter
<1> QED BY <1>12, <1>15, <1>16, <1>17, <1>18, <1>19

\* What a vetoed event does not take to the tree is missing, not out of order.
LEMMA SortsFewer ==
    ASSUME NEW s, NEW d \in Seq(SUBSET Ring!Element), NEW o \in Seq(SUBSET Ring!Element),
           NEW input, Sorts(s, d \o o, input), s.fOutputData = << >>
    PROVE Sorts(s, d, input)
<1>1. PICK c : c = d \o o OBVIOUS
<1>2. c \in Seq(SUBSET Ring!Element) /\ Out(s, c) = c /\ Out(s, d) = d
  <2>1. c \in Seq(SUBSET Ring!Element) BY <1>1, ConcatProperties
  <2> QED BY <2>1, ConcatEmptySeq DEF Out
<1>3. Ring!Contents(c) = Ring!Contents(d) \cup Ring!Contents(o)
  BY <1>1, RingAssumptions, Ring!ContentsAppend
<1>4. Ring!Ascending(d)
  <2>1. \A k \in DOMAIN d : k \in DOMAIN c /\ c[k] = d[k] BY <1>1
  <2>2. Ring!Ascending(c) BY <1>1, <1>2 DEF Sorts
  <2> QED BY <2>1, <2>2 DEF Ring!Ascending
<1> QED BY <1>1, <1>2, <1>3, <1>4 DEF Sorts, Elements
-----------------------------------------------------------------------------
(* The sorted branch. *)

SortedIn(t) == FlattenSeq([k \in DOMAIN t |-> t[k].sorted])
IsSortedTree(t) == IsSeq(t) /\ \A k \in DOMAIN t : IsSeq(t[k].sorted)

\* The output array is held from the sorter's task until it is filled.
Holding == pc \in {"fill", "lastFill"}
Cells == SortedIn(tree) \o (IF Holding THEN sortedArray ELSE << >>)
InputEnded == pc \in {"lastFill", "done"}

CellsRight == IF InputEnded THEN Ended(Cells, sorterInput) ELSE Sorts(sorter, Cells, sorterInput)

\* All that was given to the sorter is in it or was written out.
AllGiven == IF InputEnded THEN \A n \in DOMAIN sorterInput : Given(n, sorterInput) \in Ring!Contents(Cells)
            ELSE HasAll(sorter, Cells, sorterInput)

\* Nothing was given to it twice, or was filled and not given.
InputIsTree == sorterInput = TreeDigis \o (IF Holding THEN buffer.array ELSE << >>)

SortInv ==
    /\ IsSortedTree(tree) /\ SortedIn(tree) \in Seq(SUBSET Ring!Element)
    /\ sortedArray \in Seq(SUBSET Ring!Element)
    /\ sorter \in Ring!Sorter /\ sorter.fOutputData = << >>
    /\ ~UseSorter => sortedArray = << >>
    /\ CellsRight
    /\ UseSorter /\ ~setup.vetoes => InputIsTree /\ (Within(sorterInput) => AllGiven)

LEMMA SortInit == Init => SortInv
<1> SUFFICES ASSUME Init PROVE SortInv OBVIOUS
<1> USE DEF Init
<1>1. PICK e : e = << >> OBVIOUS
<1>2. IsSeq(e) /\ DOMAIN e = {} /\ e \in Seq(SUBSET Ring!Element) /\ e \o e = e
  <2>1. IsSeq(e) /\ DOMAIN e = 1 .. 0 BY <1>1, EmptyIsSeq, IsSeqIs
  <2>2. e \in Seq(SUBSET Ring!Element) BY <1>1
  <2>3. e \o e = e BY <1>1, <2>2, ConcatEmptySeq
  <2> QED BY <2>1, <2>2, <2>3
<1>3. SortedIn(tree) = e /\ IsSortedTree(tree)
  <2>1. PICK s : s = [k \in {} |-> e[k].sorted] OBVIOUS
  <2>2. SortedIn(tree) = FlattenSeq(s)
    <3>1. [k \in DOMAIN tree |-> tree[k].sorted] = [k \in {} |-> e[k].sorted] BY <1>1, <1>2
    <3> QED BY <2>1, <3>1 DEF SortedIn
  <2>3. s = << >> /\ Len(s) = 0
    <3>1. s \in [1 .. 0 -> {}] BY <2>1
    <3>2. s \in Seq({}) BY <3>1
    <3>3. DOMAIN s = {} BY <2>1
    <3>4. Len(s) = 0 BY <3>2, <3>3
    <3> QED BY <3>2, <3>4
  <2>4. FlattenSeq(s) = s BY <2>3, FlattenSeqEmpty
  <2> QED BY <1>1, <1>2, <2>2, <2>3, <2>4 DEF IsSortedTree
<1>4. TreeDigis = e BY <1>1, SameTree, EmptyTree
<1>5. Cells = e /\ ~Holding /\ ~InputEnded BY <1>1, <1>2, <1>3 DEF Cells, Holding, InputEnded
<1>6. sorter = Ring!EmptySorter BY SameCells
<1>7. PICK s : s = sorter OBVIOUS
<1>8. /\ s.fRingBuffer = [c \in Ring!Slots |-> {}] /\ s.first = 0 /\ s.second = 0 /\ s.fOutputData = e
      /\ s \in Ring!Sorter
  BY <1>1, <1>2, <1>6, <1>7, RingAssumption DEF Ring!EmptySorter, Ring!Sorter, Ring!Slots
<1>9. Ring!CellOf(0) = 0 /\ 0 = 0 * CellWidth
  <2>1. CellWidth * 0 <= 0 /\ 0 < CellWidth * 0 + CellWidth /\ 0 * CellWidth = 0 BY RingAssumption
  <2> QED BY <2>1, RingAssumption, DivUnique DEF Ring!CellOf
<1>10. 0 % NumCells = 0
  <2>1. NumCells * 0 <= 0 /\ 0 < NumCells * 0 + NumCells /\ 0 - NumCells * 0 = 0 BY RingAssumption
  <2> QED BY <2>1, RingAssumption, ModUnique
<1>11. Ring!Aligned(s)
  <2>1. \A k \in 0 .. NumCells - 1 : s.fRingBuffer[Ring!SlotAt(s, k)] = {}
    <3>1. \A k \in 0 .. NumCells - 1 : Ring!SlotAt(s, k) \in Ring!Slots
      BY <1>8, RingAssumptions, Ring!SlotInRing
    <3> QED BY <1>8, <3>1
  <2> QED BY <1>8, <1>9, <1>10, <2>1 DEF Ring!Aligned
<1>12. Elements(s, e) = {} /\ Ring!Contents(Out(s, e)) = {} /\ Out(s, e) = e
  <2>1. Out(s, e) = e BY <1>2, <1>8 DEF Out
  <2>2. Ring!Contents(e) = {} BY <1>2 DEF Ring!Contents
  <2>3. Ring!InRing(s) = {} BY <1>8 DEF Ring!InRing
  <2> QED BY <2>1, <2>2, <2>3 DEF Elements
<1>13. Ring!Ascending(e) BY <1>2 DEF Ring!Ascending
<1>14. AreDigis(e) BY <1>2 DEF AreDigis
<1>15. Sorts(s, e, e) BY <1>2, <1>8, <1>9, <1>11, <1>12, <1>13, <1>14 DEF Sorts
<1>16. HasAll(s, e, e) BY <1>2 DEF HasAll
<1>17. sorterInput = TreeDigis \o << >> BY <1>1, <1>2, <1>4
<1> QED BY <1>1, <1>2, <1>3, <1>5, <1>7, <1>8, <1>15, <1>16, <1>17
    DEF SortInv, CellsRight, AllGiven, InputIsTree

\* Where neither the sorter nor the tree changes.
LEMMA SortStays ==
    ASSUME SortInv, UNCHANGED <<setup, sorter, sortedArray, tree, sorterInput>>,
           \/ ~Holding /\ ~Holding'
           \/ (Holding' <=> Holding) /\ UNCHANGED buffer,
           InputEnded' <=> InputEnded
    PROVE SortInv'
<1>1. Cells' = Cells
  <2>1. SortedIn(tree') = SortedIn(tree) BY DEF SortedIn
  <2> QED BY <2>1 DEF Cells
<1>2. TreeDigis' = TreeDigis BY DEF TreeDigis
<1>3. InputIsTree' <=> InputIsTree BY <1>2 DEF InputIsTree
<1>4. CellsRight' <=> CellsRight BY <1>1 DEF CellsRight
<1>5. AllGiven' <=> AllGiven BY <1>1 DEF AllGiven
<1>6. UseSorter' <=> UseSorter BY DEF UseSorter
<1> QED BY <1>3, <1>4, <1>5, <1>6 DEF SortInv

\* What is in the array is digis, with times that are natural numbers.
LEMMA ArrayTyped == ASSUME RunInv PROVE buffer.array \in Seq(Digi) /\ IsSeq(buffer.array)
<1>1. buffer.array \in Seq(Digi) BY DEF RunInv, BufferInv, Buffer
<1> QED BY <1>1, SeqListed

LEMMA TreeTyped == ASSUME RunInv PROVE IsSeq(TreeDigis) /\ TreeDigis \o << >> = TreeDigis
<1>1. PICK t : t = TreeDigis /\ IsSeq(t) BY DEF RunInv, TreeInv, Lists
<1>2. PICK S : t \in Seq(S) BY <1>1 DEF IsSeq
<1>3. t \o << >> = t BY <1>2, ConcatEmptySeq
<1> QED BY <1>1, <1>3

\* The digis of the array are given to the sorter, in the order of the array.
GivenArray(s, d, more) ==
    /\ Sorts(s, d, more)
    /\ UseSorter /\ ~setup.vetoes =>
          more = TreeDigis \o buffer.array /\ (Within(more) => HasAll(s, d, more))

LEMMA GivesArray ==
    ASSUME RunInv, SortInv, ~Holding, ~InputEnded
    PROVE GivenArray(WithArray(sorter, buffer.array), SortedIn(tree), sorterInput \o buffer.array)
<1>0. PICK s, more : s = WithArray(sorter, buffer.array) /\ more = sorterInput \o buffer.array OBVIOUS
<1>1. PICK d, u, input, a : d = SortedIn(tree) /\ u = sorter /\ input = sorterInput /\ a = buffer.array OBVIOUS
<1>2. d \in Seq(SUBSET Ring!Element) BY <1>1 DEF SortInv
<1>3. Cells = d BY <1>1, <1>2, ConcatEmptySeq DEF Cells
<1>4. Sorts(u, d, input) BY <1>1, <1>3 DEF SortInv, CellsRight
<1>5. a \in Seq(Digi) /\ IsSeq(a) BY <1>1, ArrayTyped
<1>6. SortsOn(u, input, d, WithArray(u, a), input \o a)
  <2>1. Sorts(u, d, sorterInput) BY <1>1, <1>4
  <2>2. SortsOn(u, sorterInput, d, WithArray(u, a), sorterInput \o a) BY <1>5, <2>1, SortsArray
  <2> QED BY <1>1, <2>2
<1>7. SortsOn(u, input, d, s, more) BY <1>0, <1>1, <1>6
<1>8. IsSeq(input) BY <1>4 DEF Sorts, AreDigis
<1>9. Within(more) => Within(input)
  <2>1. First(input \o a, Len(input)) = input BY <1>5, <1>8, FirstAll
  <2>2. First(more, Len(input)) = input BY <1>0, <1>1, <2>1
  <2>3. IsSeq(more) BY <1>7 DEF SortsOn, Sorts, AreDigis
  <2>4. Len(more) = Len(input) + Len(a)
    <3>1. PICK c : c = input \o a OBVIOUS
    <3>2. Len(c) = Len(input) + Len(a) BY <1>5, <1>8, <3>1, ConcatIs
    <3> QED BY <1>0, <1>1, <3>1, <3>2
  <2>5. PICK k \in Nat : k = Len(input) BY <1>8, IsSeqIs
  <2>6. k <= Len(more) BY <1>5, <2>4, <2>5, IsSeqIs
  <2>7. Within(more) => Within(First(more, k)) BY <2>3, <2>5, <2>6, WithinFirst
  <2> QED BY <2>2, <2>5, <2>7
<1>10. ASSUME UseSorter, ~setup.vetoes
       PROVE more = TreeDigis \o buffer.array /\ (Within(more) => HasAll(s, d, more))
  <2>1. input = TreeDigis BY <1>1, <1>10, TreeTyped DEF SortInv, InputIsTree
  <2>2. Within(input) => HasAll(u, d, input) BY <1>1, <1>3, <1>10 DEF SortInv, AllGiven
  <2> QED BY <1>0, <1>1, <1>7, <1>9, <2>1, <2>2 DEF SortsOn
<1> QED BY <1>0, <1>1, <1>7, <1>10 DEF SortsOn, GivenArray
LEMMA ExecSorts == ASSUME RunInv, SortInv, ExecSorter PROVE SortInv'
<1>1. /\ ~Holding /\ Holding' /\ ~InputEnded /\ ~InputEnded' /\ tree' = tree /\ buffer' = buffer
      /\ (UseSorter' <=> UseSorter) /\ setup' = setup
  BY DEF ExecSorter, Holding, InputEnded, UseSorter
<1>2. PICK d : d = SortedIn(tree) OBVIOUS
<1>3. /\ d \in Seq(SUBSET Ring!Element) /\ SortedIn(tree') = d /\ IsSortedTree(tree')
      /\ TreeDigis' = TreeDigis
  BY <1>1, <1>2 DEF SortInv, TreeDigis
<1>4. CASE UseSorter
  <2>1. PICK s, more, x : /\ s = WithArray(sorter, buffer.array) /\ more = sorterInput \o buffer.array
                          /\ x = DeleteOutputData(s)
    OBVIOUS
  <2>2. sortedArray' = s.fOutputData /\ sorter' = x /\ sorterInput' = more
    BY <1>4, <2>1 DEF ExecSorter
  <2>0. GivenArray(s, d, more) BY <1>1, <1>2, <2>1, GivesArray
  <2>3. Sorts(s, d, more) BY <2>0 DEF GivenArray
  <2>4. ~setup.vetoes => more = TreeDigis \o buffer.array /\ (Within(more) => HasAll(s, d, more))
    BY <1>4, <2>0 DEF GivenArray
  <2>5. /\ Sorts(x, Out(s, d), more) /\ Elements(x, Out(s, d)) = Elements(s, d)
        /\ x.fOutputData = << >> /\ s.fOutputData \in Seq(SUBSET Ring!Element)
    BY <2>1, <2>3, SortsTaken
  <2>10. x \in Ring!Sorter BY <2>5 DEF Sorts
  <2>6. Cells' = Out(s, d) BY <1>1, <1>3, <2>2 DEF Cells, Out
  <2>7. CellsRight' BY <1>1, <2>2, <2>5, <2>6 DEF CellsRight
  <2>8. ~setup.vetoes => InputIsTree' /\ (Within(sorterInput') => AllGiven')
    <3>1. HasAll(s, d, more) => HasAll(x, Out(s, d), more) BY <2>5 DEF HasAll
    <3> QED BY <1>1, <1>3, <2>2, <2>4, <2>6, <3>1 DEF InputIsTree, AllGiven
  <2>9. UseSorter' BY <1>1, <1>4
  <2> QED BY <1>1, <1>3, <2>2, <2>5, <2>7, <2>8, <2>9, <2>10 DEF SortInv
<1>5. CASE ~UseSorter
  <2>1. sorter' = sorter /\ sortedArray' = sortedArray /\ sorterInput' = sorterInput
    BY <1>5 DEF ExecSorter
  <2>2. sortedArray = << >> BY <1>5 DEF SortInv
  <2>3. Cells' = Cells BY <1>1, <1>2, <1>3, <2>1, <2>2 DEF Cells
  <2>4. CellsRight' BY <1>1, <2>1, <2>3 DEF SortInv, CellsRight
  <2> QED BY <1>1, <1>3, <1>5, <2>1, <2>4 DEF SortInv
<1> QED BY <1>4, <1>5

LEMMA FinishTaskSorts == ASSUME RunInv, SortInv, FinishTask PROVE SortInv'
<1>1. /\ ~Holding /\ Holding' /\ ~InputEnded /\ InputEnded' /\ tree' = tree /\ buffer' = buffer
      /\ (UseSorter' <=> UseSorter) /\ setup' = setup
  BY DEF FinishTask, Holding, InputEnded, UseSorter
<1>2. PICK d : d = SortedIn(tree) OBVIOUS
<1>3. /\ d \in Seq(SUBSET Ring!Element) /\ SortedIn(tree') = d /\ IsSortedTree(tree')
      /\ TreeDigis' = TreeDigis
  BY <1>1, <1>2 DEF SortInv, TreeDigis
<1>4. CASE UseSorter
  <2>1. PICK s, more, w : /\ s = WithArray(sorter, buffer.array) /\ more = sorterInput \o buffer.array
                          /\ w = WriteOutAll(s)
    OBVIOUS
  <2>2. sortedArray' = w.fOutputData /\ sorter' = DeleteOutputData(w) /\ sorterInput' = more
    BY <1>4, <2>1 DEF FinishTask
  <2>0. GivenArray(s, d, more) BY <1>1, <1>2, <2>1, GivesArray
  <2>3. Sorts(s, d, more) BY <2>0 DEF GivenArray
  <2>4. ~setup.vetoes => more = TreeDigis \o buffer.array /\ (Within(more) => HasAll(s, d, more))
    BY <1>4, <2>0 DEF GivenArray
  <2>5. /\ Ended(Out(w, d), more) /\ Ring!Contents(Out(w, d)) = Elements(s, d)
        /\ DeleteOutputData(w) \in Ring!Sorter
        /\ DeleteOutputData(w).fOutputData = << >> /\ w.fOutputData \in Seq(SUBSET Ring!Element)
    BY <2>1, <2>3, SortsAtEnd
  <2>6. Cells' = Out(w, d) BY <1>1, <1>3, <2>2 DEF Cells, Out
  <2>7. CellsRight' BY <1>1, <2>2, <2>5, <2>6 DEF CellsRight
  <2>8. ~setup.vetoes => InputIsTree' /\ (Within(sorterInput') => AllGiven')
    BY <1>1, <1>3, <2>2, <2>4, <2>5, <2>6 DEF InputIsTree, AllGiven, HasAll
  <2>9. UseSorter' BY <1>1, <1>4
  <2> QED BY <1>1, <1>3, <2>2, <2>5, <2>7, <2>8, <2>9 DEF SortInv
<1>5. CASE ~UseSorter
  <2>1. sorter' = sorter /\ sortedArray' = sortedArray /\ sorterInput' = sorterInput
    BY <1>5 DEF FinishTask
  <2>2. sortedArray = << >> /\ sorter.fOutputData = << >> BY <1>5 DEF SortInv
  <2>3. Cells' = Cells BY <1>1, <1>2, <1>3, <2>1, <2>2 DEF Cells
  <2>4. Sorts(sorter, Cells, sorterInput) BY <1>1 DEF SortInv, CellsRight
  <2>5. Ended(Cells, sorterInput) BY <2>2, <2>4, SortsEnded
  <2>6. CellsRight' BY <1>1, <2>1, <2>3, <2>5 DEF CellsRight
  <2> QED BY <1>1, <1>3, <1>5, <2>1, <2>2, <2>6 DEF SortInv
<1> QED BY <1>4, <1>5

\* A tree that grows by an entry grows by its cells.
LEMMA SortedGrows ==
    ASSUME NEW t, IsSortedTree(t), NEW e, IsSeq(e.sorted)
    PROVE IsSortedTree(Append(t, e)) /\ SortedIn(Append(t, e)) = SortedIn(t) \o e.sorted
<1>0. PICK u : u = Append(t, e) OBVIOUS
<1>1. PICK n : n = Len(t) OBVIOUS
<1>2. IsSeq(t) /\ n \in Nat /\ DOMAIN t = 1 .. n /\ \A k \in 1 .. n : IsSeq(t[k].sorted)
  BY <1>1, IsSeqIs DEF IsSortedTree
<1>3. /\ IsSeq(u) /\ DOMAIN u = 1 .. n + 1 /\ u[n + 1] = e /\ \A k \in 1 .. n : u[k] = t[k]
  BY <1>0, <1>1, <1>2, AppendIs
<1>4. \A k \in 1 .. n + 1 : k \in 1 .. n \/ k = n + 1 BY <1>2
<1>5. IsSortedTree(u) BY <1>2, <1>3, <1>4 DEF IsSortedTree
<1>6. PICK s, v : s = [k \in 1 .. n |-> t[k].sorted] /\ v = [k \in 1 .. n + 1 |-> u[k].sorted] OBVIOUS
<1>7. PICK x : x = e.sorted OBVIOUS
<1>8. /\ DOMAIN s = 1 .. n /\ s = [k \in 1 .. n |-> s[k]] /\ \A k \in 1 .. n : IsSeq(s[k])
      /\ DOMAIN v = 1 .. n + 1 /\ v = [k \in 1 .. n + 1 |-> v[k]]
      /\ v[n + 1] = x /\ \A k \in 1 .. n : v[k] = s[k]
  <2>1. n + 1 \in 1 .. n + 1 /\ \A k \in 1 .. n : k \in 1 .. n + 1 BY <1>2
  <2> QED BY <1>2, <1>3, <1>6, <1>7, <2>1
<1>9. FlattenSeq(v) = FlattenSeq(s) \o x
  <2>1. IsSeq(x) BY <1>7
  <2>2. OneLonger(s, v, x, n) BY <1>2, <1>8, <2>1 DEF OneLonger
  <2> QED BY <2>2, FlattenGrows
<1>10. SortedIn(t) = FlattenSeq(s) BY <1>2, <1>6 DEF SortedIn
<1>11. SortedIn(u) = FlattenSeq(v) BY <1>3, <1>6 DEF SortedIn
<1> QED BY <1>0, <1>5, <1>7, <1>9, <1>10, <1>11

\* A filled event takes what is held to the tree.
LEMMA FilledSorts ==
    ASSUME RunInv, SortInv, Holding, ~Holding', InputEnded' <=> InputEnded, tree' = Append(tree, TreeEntry),
           UNCHANGED <<setup, buffer, sorter, sortedArray, sorterInput>>
    PROVE SortInv'
<1>1. PICK t, e, d, o : t = tree /\ e = TreeEntry /\ d = SortedIn(tree) /\ o = sortedArray OBVIOUS
<1>2. /\ d \in Seq(SUBSET Ring!Element) /\ o \in Seq(SUBSET Ring!Element) /\ IsSortedTree(t)
      /\ e.sorted = o /\ e.digis = buffer.array
  BY <1>1 DEF SortInv, TreeEntry
<1>3. IsSeq(o) /\ IsSeq(buffer.array) BY <1>2, ArrayTyped DEF IsSeq
<1>4. IsSortedTree(tree') /\ SortedIn(tree') = d \o o
  <2>1. IsSortedTree(Append(t, e)) /\ SortedIn(Append(t, e)) = SortedIn(t) \o e.sorted
    BY <1>2, <1>3, SortedGrows
  <2> QED BY <1>1, <1>2, <2>1
<1>5. d \o o \in Seq(SUBSET Ring!Element) /\ (d \o o) \o << >> = d \o o
  <2>1. d \o o \in Seq(SUBSET Ring!Element) BY <1>2, ConcatProperties
  <2> QED BY <2>1, ConcatEmptySeq
<1>6. Cells = d \o o /\ Cells' = d \o o BY <1>1, <1>4, <1>5 DEF Cells
<1>7. CellsRight' BY <1>6 DEF SortInv, CellsRight
<1>8. TreeDigis' = TreeDigis \o buffer.array
  <2>1. IsTree(t) BY <1>1 DEF RunInv, TreeInv, IsTree
  <2>2. PICK u : u = Append(t, e) OBVIOUS
  <2>3. DigisIn(u) = DigisIn(t) \o e.digis BY <1>2, <1>3, <2>1, <2>2, TreeGrows
  <2>4. TreeDigis = DigisIn(tree) /\ TreeDigis' = DigisIn(tree') BY DEF TreeDigis, DigisIn
  <2> QED BY <1>1, <1>2, <2>2, <2>3, <2>4
<1>9. InputIsTree => InputIsTree'
  <2>1. IsSeq(TreeDigis \o buffer.array)
    <3>1. PICK c, a, b : c = a \o b /\ a = TreeDigis /\ b = buffer.array OBVIOUS
    <3>2. IsSeq(c) BY <1>3, <3>1, TreeTyped, ConcatIs
    <3> QED BY <3>1, <3>2
  <2>2. (TreeDigis \o buffer.array) \o << >> = TreeDigis \o buffer.array
    <3>1. PICK S, c : c = TreeDigis \o buffer.array /\ c \in Seq(S) BY <2>1 DEF IsSeq
    <3>2. c \o << >> = c BY <3>1, ConcatEmptySeq
    <3> QED BY <3>1, <3>2
  <2> QED BY <1>8, <2>2 DEF InputIsTree
<1>10. AllGiven => AllGiven' BY <1>6 DEF AllGiven
<1>11. UseSorter' <=> UseSorter BY DEF UseSorter
<1> QED BY <1>1, <1>4, <1>5, <1>7, <1>9, <1>10, <1>11 DEF SortInv

\* At a vetoed event it is lost.
LEMMA VetoedSorts ==
    ASSUME RunInv, SortInv, setup.vetoes, Holding, ~Holding', ~InputEnded, ~InputEnded',
           UNCHANGED <<setup, tree, sorter, sortedArray, sorterInput>>
    PROVE SortInv'
<1>1. PICK d, o, s : d = SortedIn(tree) /\ o = sortedArray /\ s = sorter OBVIOUS
<1>2. /\ d \in Seq(SUBSET Ring!Element) /\ o \in Seq(SUBSET Ring!Element) /\ s.fOutputData = << >>
  BY <1>1 DEF SortInv
<1>3. Cells = d \o o /\ Cells' = d BY <1>1, <1>2, ConcatEmptySeq DEF Cells, SortedIn
<1>4. Sorts(s, d \o o, sorterInput) BY <1>1, <1>3 DEF SortInv, CellsRight
<1>5. Sorts(s, d, sorterInput) BY <1>2, <1>4, SortsFewer
<1>6. CellsRight' BY <1>1, <1>3, <1>5 DEF CellsRight
<1>7. SortedIn(tree') = SortedIn(tree) /\ (UseSorter' <=> UseSorter) BY DEF SortedIn, UseSorter
<1> QED BY <1>6, <1>7 DEF SortInv

LEMMA FillSorts == ASSUME RunInv, SortInv, Fill PROVE SortInv'
<1>1. Holding /\ ~Holding' /\ ~InputEnded /\ ~InputEnded' BY DEF Fill, Holding, InputEnded
<1>2. CASE tree' = Append(tree, TreeEntry) BY <1>1, <1>2, FilledSorts DEF Fill
<1>3. CASE setup.vetoes /\ tree' = tree BY <1>1, <1>3, VetoedSorts DEF Fill
<1> QED BY <1>2, <1>3 DEF Fill

LEMMA LastFillSorts == ASSUME RunInv, SortInv, LastFill PROVE SortInv'
<1>1. Holding /\ ~Holding' /\ InputEnded /\ InputEnded' BY DEF LastFill, Holding, InputEnded
<1>2. CASE fFillLastData BY <1>1, <1>2, FilledSorts DEF LastFill
<1>3. CASE ~fFillLastData
  <2>1. ~UseSorter BY <1>3 DEF RunInv, RunsOn, LastFill
  <2>2. UNCHANGED <<setup, tree, sorter, sortedArray, sorterInput>> BY <1>3 DEF LastFill
  <2>3. sortedArray = << >> BY <2>1 DEF SortInv
  <2>4. SortedIn(tree') = SortedIn(tree) /\ (UseSorter' <=> UseSorter) BY <2>2 DEF SortedIn, UseSorter
  <2>5. Cells' = Cells BY <2>2, <2>3, <2>4 DEF Cells
  <2>6. CellsRight' BY <1>1, <2>2, <2>5 DEF SortInv, CellsRight
  <2> QED BY <2>1, <2>2, <2>4, <2>6 DEF SortInv
<1> QED BY <1>2, <1>3

LEMMA FinishEventSorts == ASSUME RunInv, SortInv, FinishEvent PROVE SortInv'
<1>1. ~Holding /\ ~Holding' /\ ~InputEnded /\ ~InputEnded' BY DEF FinishEvent, Holding, InputEnded
<1>2. UNCHANGED <<setup, tree, sorter, sorterInput>> /\ sortedArray' = << >> BY DEF FinishEvent
<1>3. SortedIn(tree') = SortedIn(tree) /\ (UseSorter' <=> UseSorter) BY <1>2 DEF SortedIn, UseSorter
<1>4. Cells' = Cells BY <1>1, <1>3 DEF Cells
<1>5. CellsRight' BY <1>1, <1>2, <1>4 DEF SortInv, CellsRight
<1>6. (InputIsTree' <=> InputIsTree) /\ (AllGiven' <=> AllGiven)
  BY <1>1, <1>2, <1>4 DEF InputIsTree, AllGiven, TreeDigis
<1>7. << >> \in Seq(SUBSET Ring!Element) OBVIOUS
<1> QED BY <1>2, <1>3, <1>5, <1>6, <1>7 DEF SortInv

LEMMA SortInvariant == Spec => []SortInv
<1>1. ASSUME RunInv, SortInv, [Next]_vars PROVE SortInv'
  <2>1. CASE ReadEvent BY <1>1, <2>1, SortStays DEF ReadEvent, Holding, InputEnded
  <2>2. CASE LoopEnds BY <1>1, <2>2, SortStays DEF LoopEnds, Holding, InputEnded
  <2>3. CASE StoreWriteoutBufferData
    BY <1>1, <2>3, SortStays DEF StoreWriteoutBufferData, Holding, InputEnded
  <2>4. CASE Digitize BY <1>1, <2>4, SortStays DEF Digitize, Holding, InputEnded
  <2>5. CASE ExecSorter BY <1>1, <2>5, ExecSorts
  <2>6. CASE Fill BY <1>1, <2>6, FillSorts
  <2>7. CASE FinishEvent BY <1>1, <2>7, FinishEventSorts
  <2>8. CASE StoreAllWriteoutBufferData
    BY <1>1, <2>8, SortStays DEF StoreAllWriteoutBufferData, Holding, InputEnded
  <2>9. CASE FinishTask BY <1>1, <2>9, FinishTaskSorts
  <2>10. CASE LastFill BY <1>1, <2>10, LastFillSorts
  <2>11. CASE UNCHANGED vars
    <3>1. UNCHANGED <<setup, sorter, sortedArray, tree, sorterInput, pc, buffer>> BY <2>11 DEF vars
    <3> QED BY <1>1, <3>1, SortStays DEF Holding, InputEnded
  <2> QED BY <1>1, <2>1, <2>2, <2>3, <2>4, <2>5, <2>6, <2>7, <2>8, <2>9, <2>10, <2>11 DEF Next
<1> QED BY <1>1, SortInit, RunInvariant, PTL DEF Spec
-----------------------------------------------------------------------------
(* What the invariant means. *)

\* The array is written, not the maps, when it is cleared.
LEMMA UnstoredIs ==
    ASSUME RunInv
    PROVE /\ Unstored.fDeadTime_map = buffer.fDeadTime_map /\ Unstored.fData_map = buffer.fData_map
          /\ Unstored.array = Pending
          /\ Detects(Unstored, Moved, Gone, buffer.fStartTime_map) /\ buffer \in Buffer
<1>1. buffer \in Buffer /\ Detects(Unstored, Moved, Gone, buffer.fStartTime_map)
  BY DEF RunInv, BufferInv
<1>2. CASE Stored BY <1>1, <1>2 DEF Unstored, Stored, Pending, DeleteOldData, Buffer
<1>3. CASE ~Stored BY <1>1, <1>3 DEF Unstored, Stored, Pending
<1> QED BY <1>1, <1>2, <1>3

LEMMA InvTypes ==
    ASSUME RunInv
    PROVE /\ \A x \in buffer.fDeadTime_map : x.digi \in filled
          /\ SortInv => TypeOK
<1>1. Detects(Unstored, Moved, Gone, buffer.fStartTime_map) /\ buffer \in Buffer
      /\ Unstored.fDeadTime_map = buffer.fDeadTime_map
  BY UnstoredIs
<1>2. Held(Unstored) \subseteq filled BY <1>1, DetectsParts DEF Moved
<1>3. ASSUME NEW x \in buffer.fDeadTime_map PROVE x.time \in Nat /\ x.digi \in filled
  <2>1. x.time \in Nat BY <1>1 DEF Detects, MapsRight
  <2>2. x.digi \in Held(Unstored) BY <1>1 DEF Held
  <2> QED BY <1>2, <2>1, <2>2
<1>4. ASSUME NEW k \in DOMAIN buffer.array PROVE buffer.array[k] \in filled
  <2>1. ToSet(buffer.array) \subseteq filled BY DEF RunInv, BufferInv
  <2>2. buffer.array[k] \in ToSet(buffer.array) BY DEF ToSet
  <2> QED BY <2>1, <2>2
<1>5. buffer.fStartTime_map \subseteq filled /\ filled \subseteq Digi
  BY DEF RunInv, BufferInv, DigisNumbered
<1>6. ASSUME SortInv PROVE sorter.first \in Slots /\ sorter.second \in Nat
  BY <1>6, SameCells DEF SortInv, Ring!Sorter
<1> QED BY <1>3, <1>4, <1>5, <1>6 DEF TypeOK, RunInv, RunsOn

LEMMA InvMaps == ASSUME RunInv PROVE MapsAgree
<1>1. PICK D, M : D = buffer.fDeadTime_map /\ M = buffer.fData_map OBVIOUS
<1>2. /\ \A x \in D : x.time \in Nat /\ M[x.digi.pad] = x.time
      /\ \A p \in Pads : M[p] # -1 => \E x \in D : x.digi.pad = p
      /\ \A x, y \in D : x.digi.pad = y.digi.pad => x = y
  BY <1>1, UnstoredIs DEF Detects, MapsRight
<1>3. ASSUME NEW p \in Pads, NEW E, E = {x \in D : x.digi.pad = p}
      PROVE IF M[p] = -1 THEN E = {} ELSE \E x \in E : E = {x} /\ x.time = M[p]
  <2>1. CASE M[p] = -1
    <3>1. \A x \in D : x.digi.pad # p
      <4> SUFFICES ASSUME NEW x \in D, x.digi.pad = p PROVE FALSE OBVIOUS
      <4>1. x.time \in Nat /\ x.time = -1 BY <1>2, <2>1
      <4> QED BY <4>1
    <3> QED BY <1>3, <2>1, <3>1
  <2>2. CASE M[p] # -1
    <3>1. PICK x \in D : x.digi.pad = p BY <1>2, <2>2
    <3>2. x \in E /\ \A y \in E : y = x BY <1>2, <1>3, <3>1
    <3>3. E = {x} /\ x.time = M[p] BY <1>2, <3>1, <3>2
    <3> QED BY <2>2, <3>2, <3>3
  <2> QED BY <2>1, <2>2
<1> QED BY <1>1, <1>3 DEF MapsAgree

LEMMA InvRecords == ASSUME RunInv PROVE RecordsLikeDetector
<1>1. PICK b : b = Unstored OBVIOUS
<1>2. /\ Detects(b, Moved, Gone, buffer.fStartTime_map)
      /\ b.fDeadTime_map = buffer.fDeadTime_map /\ b.array = Pending
  BY <1>1, UnstoredIs
<1>3. PICK T, V, P, H : /\ T = ToSet(TreeDigis) /\ V = ToSet(vetoed) /\ P = ToSet(Pending)
                        /\ H = {x.digi : x \in buffer.fDeadTime_map}
  OBVIOUS
<1>4. Gone = T \cup V /\ Held(b) = H BY <1>2, <1>3 DEF Gone, Held
<1>5. /\ Lists(Pending, P) /\ (T \cup V) \cap P = {} /\ H \cap (T \cup V \cup P) = {}
      /\ Keeps(T \cup V \cup P \cup H, Moved) /\ Moved \subseteq Digi
  BY <1>2, <1>3, <1>4 DEF Detects
<1>6. Lists(TreeDigis, T) /\ Lists(vetoed, V) /\ T \cap V = {} BY <1>3 DEF RunInv, TreeInv
<1>7. PICK s : s = TreeDigis \o Pending OBVIOUS
<1>8. Lists(s, T \cup P)
  <2>1. T \cap P = {} BY <1>5
  <2> QED BY <1>5, <1>6, <1>7, <2>1, ListsBoth
<1>9. PICK all : all = TreeDigis \o Pending \o vetoed OBVIOUS
<1>10. Lists(all, T \cup P \cup V)
  <2>1. (T \cup P) \cap V = {} BY <1>5, <1>6
  <2>2. PICK U : U = T \cup P OBVIOUS
  <2>3. Lists(s, U) /\ U \cap V = {} /\ all = s \o vetoed BY <1>7, <1>8, <1>9, <2>1, <2>2
  <2> QED BY <1>6, <2>2, <2>3, ListsBoth
<1>11. ToSet(all) = T \cup P \cup V /\ IsInjective(all)
  <2>1. ToSet(all) = T \cup P \cup V BY <1>10, ToSetLists
  <2>2. \A i, j \in DOMAIN all : all[i] = all[j] => i = j BY <1>10 DEF Lists
  <2> QED BY <2>1, <2>2 DEF IsInjective
<1>12. Recordable(Moved) = T \cup V \cup P \cup H
  <2>1. \A d, e \in Moved : d.id = e.id => d = e BY DEF RunInv, DigisNumbered, Moved
  <2>2. PICK K, G : K = T \cup V \cup P \cup H /\ G = Moved OBVIOUS
  <2>3. G \in SUBSET Digi /\ Keeps(K, G) /\ \A d, e \in G : d.id = e.id => d = e BY <1>5, <2>1, <2>2
  <2> QED BY <2>2, <2>3, RecordableIs
<1>13. ToSet(all) \cup H = Recordable(filled \ buffer.fStartTime_map) BY <1>11, <1>12 DEF Moved
<1>14. ToSet(all) \cap H = {} BY <1>5, <1>11
<1> QED BY <1>3, <1>9, <1>11, <1>13, <1>14 DEF RecordsLikeDetector

LEMMA InvNothingLeft == ASSUME RunInv, NoTies PROVE NothingLeft
<1>1. ASSUME pc = "done" PROVE buffer.fStartTime_map = {} /\ buffer.fDeadTime_map = {}
  <2>1. /\ buffer.fStartTime_map = {}
        /\ \A x \in buffer.fDeadTime_map :
              x.digi.active = 0 \/ \E e \in filled : x.digi.active = e.start + 1
    BY <1>1 DEF RunInv, EndInv
  <2>2. ASSUME NEW x \in buffer.fDeadTime_map PROVE FALSE
    <3>1. x.digi \in filled BY InvTypes
    <3>2. x.digi.active # 0 BY <3>1 DEF NoTies, RunInv, DigisNumbered
    <3> QED BY <2>1, <3>1, <3>2 DEF NoTies
  <2> QED BY <2>1, <2>2
<1>2. ASSUME pc = "done", UseSorter PROVE ToSet(buffer.array) \subseteq ToSet(TreeDigis)
  BY <1>2 DEF RunInv, RunsOn, TreeInv
<1> QED BY <1>1, <1>2 DEF NothingLeft, NothingLeftInBuffer, LastDataStored

-----------------------------------------------------------------------------
(* What it means for the sorted branch. *)

\* No digi is out of order by so much that it would belong to a cell the sorter has freed.
InWindow == Within(sorterInput)

LEMMA CellsInOrder == ASSUME SortInv PROVE Ended(Cells, sorterInput)
<1>1. CASE InputEnded BY <1>1 DEF SortInv, CellsRight
<1>2. CASE ~InputEnded
  <2>1. Sorts(sorter, Cells, sorterInput) /\ sorter.fOutputData = << >> BY <1>2 DEF SortInv, CellsRight
  <2> QED BY <2>1, SortsEnded
<1> QED BY <1>1, <1>2

LEMMA SameSorted == TreeSorted = SortedIn(tree) BY DEF TreeSorted, SortedIn

LEMMA InvInOrder == ASSUME SortInv PROVE SortedBranchInOrder
<1>1. PICK d, o, c : /\ d = SortedIn(tree) /\ c = Cells
                     /\ o = IF Holding THEN sortedArray ELSE << >>
  OBVIOUS
<1>2. /\ c = d \o o /\ d \in Seq(SUBSET Ring!Element) /\ o \in Seq(SUBSET Ring!Element)
      /\ Ring!Ascending(c)
  <2>1. << >> \in Seq(SUBSET Ring!Element) OBVIOUS
  <2>2. Ring!Ascending(c) BY <1>1, CellsInOrder DEF Ended
  <2> QED BY <1>1, <2>1, <2>2 DEF SortInv, Cells
<1>3. \A k \in DOMAIN d : k \in DOMAIN c /\ c[k] = d[k] BY <1>2
<1>4. ASSUME NEW i \in DOMAIN d, NEW j \in DOMAIN d, i < j, NEW a \in d[i], NEW b \in d[j]
      PROVE a.t < b.t
  <2>1. a \in c[i] /\ b \in c[j] /\ i \in DOMAIN c /\ j \in DOMAIN c BY <1>3, <1>4
  <2>2. Ring!CellOf(a.t) < Ring!CellOf(b.t) BY <1>2, <1>4, <2>1 DEF Ring!Ascending
  <2>3. a \in Ring!Element /\ b \in Ring!Element BY <1>2, <1>4
  <2>4. a.t \in Nat /\ b.t \in Nat BY <2>3 DEF Ring!Element
  <2> QED BY <2>2, <2>4, RingAssumptions, Ring!CellOrder
<1>5. TreeSorted = d BY <1>1, SameSorted
<1> QED BY <1>4, <1>5 DEF SortedBranchInOrder

\* As many elements as were given: their numbers tell them apart.
LEMMA CountGiven ==
    ASSUME NEW input, IsSeq(input)
    PROVE Cardinality({Given(n, input) : n \in DOMAIN input}) = Len(input)
<1>1. PICK m \in Nat : m = Len(input) /\ DOMAIN input = 1 .. m BY IsSeqIs
<1>2. PICK S : S = {Given(n, input) : n \in 1 .. m} OBVIOUS
<1>3. PICK f : f = [n \in 1 .. m |-> Given(n, input)] OBVIOUS
<1>4. \A n \in 1 .. m : f[n] = Given(n, input) /\ f[n].id = n BY <1>3 DEF Given
<1>5. f \in [1 .. m -> S] /\ (\A x \in S : \E n \in 1 .. m : f[n] = x)
      /\ \A i, j \in 1 .. m : f[i] = f[j] => i = j
  <2>1. f \in [1 .. m -> S] BY <1>2, <1>3
  <2>2. \A x \in S : \E n \in 1 .. m : f[n] = x BY <1>2, <1>4
  <2>3. \A i, j \in 1 .. m : f[i] = f[j] => i = j BY <1>4
  <2> QED BY <2>1, <2>2, <2>3
<1>6. ExistsBijection(1 .. m, S)
  <2>1. f \in Bijection(1 .. m, S)
    BY <1>5 DEF Bijection, Injection, Surjection, IsInjective
  <2> QED BY <2>1 DEF ExistsBijection
<1>7. IsFiniteSet(1 .. m) /\ Cardinality(1 .. m) = m
  <2>1. 1 \in Int /\ m \in Int OBVIOUS
  <2> QED BY <2>1, FS_Interval
<1>8. Cardinality(S) = m BY <1>6, <1>7, FS_Bijection
<1> QED BY <1>1, <1>2, <1>8

LEMMA InvComplete == ASSUME RunInv, SortInv, InWindow PROVE SortedBranchComplete
<1> SUFFICES ASSUME pc = "done", UseSorter, ~setup.vetoes PROVE SortedBranchComplete
  BY DEF SortedBranchComplete
<1>1. ~Holding /\ InputEnded BY DEF Holding, InputEnded
<1>2. PICK d, input : d = SortedIn(tree) /\ input = sorterInput OBVIOUS
<1>3. Cells = d BY <1>1, <1>2, ConcatEmptySeq DEF SortInv, Cells
<1>4. Ended(d, input) BY <1>2, <1>3, CellsInOrder
<1>5. \A n \in DOMAIN input : Given(n, input) \in Ring!Contents(d)
  BY <1>1, <1>2, <1>3 DEF SortInv, AllGiven, InWindow
<1>6. IsSeq(input) BY <1>4 DEF Ended, AreDigis
<1>7. PICK E : E = UNION {d[k] : k \in DOMAIN d} OBVIOUS
<1>8. E = {Given(n, input) : n \in DOMAIN input}
  <2>1. E = Ring!Contents(d) BY <1>7 DEF Ring!Contents
  <2>2. \A e \in E : e.id \in DOMAIN input /\ e = Given(e.id, input) BY <1>4, <2>1 DEF Ended
  <2> QED BY <1>5, <2>1, <2>2
<1>9. TreeDigis = input
  <2>1. InputIsTree BY DEF SortInv
  <2>2. input = TreeDigis \o << >> BY <1>1, <1>2, <2>1 DEF InputIsTree
  <2>3. TreeDigis \o << >> = TreeDigis BY TreeTyped
  <2> QED BY <2>2, <2>3
<1>10. {input[e.id] : e \in E} = ToSet(input)
  <2>1. \A n \in DOMAIN input : Given(n, input).id = n BY DEF Given
  <2>2. {input[e.id] : e \in E} = {input[n] : n \in DOMAIN input} BY <1>8, <2>1
  <2> QED BY <2>2 DEF ToSet
<1>11. Cardinality(E) = Len(input) BY <1>6, <1>8, CountGiven
<1>12. TreeSorted = d BY <1>2, SameSorted
<1> QED BY <1>2, <1>7, <1>9, <1>10, <1>11, <1>12 DEF SortedBranchComplete

-----------------------------------------------------------------------------
(* The theorems. *)

\* Whenever the event loop asks the write-out buffer for data, at every event, for all
\* times of digis and events: the start-time map, the dead-time map and the search buffer
\* agree, and tree, array and dead-time map have each digi that a detector with dead time
\* records once, and no other (StoreWriteoutBufferData, FillNewData, WriteOutData).
THEOREM RecordsAsDetector == Spec => []BufferRight
<1>1. RunInv /\ SortInv => BufferRight BY InvTypes, InvMaps, InvRecords DEF BufferRight
<1> QED BY <1>1, RunInvariant, SortInvariant, PTL

\* Where no digi is active until one tick after the start of another, nor until time 0,
\* StoreAllWriteoutBufferData, FinishTask and LastFill leave no data behind: the buffer is
\* empty at the end, and with a sorter the last array reaches the tree.
THEOREM EndLeavesNothing == Spec /\ []NoTies => []NothingLeft
<1>1. RunInv /\ NoTies => NothingLeft BY InvNothingLeft
<1> QED BY <1>1, RunInvariant, PTL

\* For every ring, whatever times the digis have and however far they are out of order: over
\* all entries of the tree the sorted branch is in time order (FairRingSorterTask's Exec and
\* FinishTask, through the events that are vetoed too).
THEOREM SortedBranchOrdered == Spec => []SortedBranchInOrder
<1>1. SortInv => SortedBranchInOrder BY InvInOrder
<1> QED BY <1>1, SortInvariant, PTL

\* If no digi comes out of order by more than the ring spans, the sorted branch has all
\* digis of the tree, each of them once, in the order of their times.
THEOREM SortedBranchIsTree == Spec /\ []InWindow => []SortedBranch
<1>1. RunInv /\ SortInv /\ InWindow => SortedBranch BY InvInOrder, InvComplete DEF SortedBranch
<1> QED BY <1>1, RunInvariant, SortInvariant, PTL
=============================================================================
