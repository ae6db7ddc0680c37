--------------------------- MODULE TSBufferProofs ---------------------------
(***************************************************************************)
(* Theorems about FairTSBufferFunctional for every branch of time-ordered  *)
(* data, every way to cut it into entries and every sequence of requests.  *)
(*                                                                         *)
(* And, in the second half, about SimEvents for every engine, filter and   *)
(* number of events: the stack knows who its particles are, whatever fast  *)
(* simulation did with them, and what is stored at the end of an event are *)
(* the right tracks, mothers, points and numbers.  The two have no state   *)
(* and no name in common.                                                  *)
(***************************************************************************)
EXTENDS TSBufferReads, SimEvents, SequenceLemmas

-----------------------------------------------------------------------------
(* Runs of consecutive data. *)

Run(a, b) == [i \in 1 .. b - a |-> a + i]

LEMMA RunProps ==
    ASSUME NEW a \in Nat, NEW b \in Nat, a <= b
    PROVE /\ Run(a, b) \in Seq(Nat)
          /\ Len(Run(a, b)) = b - a
          /\ DOMAIN Run(a, b) = 1 .. b - a
          /\ \A i \in 1 .. b - a : Run(a, b)[i] = a + i
          /\ Run(a, b) = << >> <=> a = b
<1>1. Run(a, b) \in [1 .. b - a -> Nat] BY DEF Run
<1>2. b - a \in Nat OBVIOUS
<1>3. Run(a, b) \in Seq(Nat) BY <1>1, <1>2
<1>4. Len(Run(a, b)) = b - a BY <1>1, <1>2, <1>3
<1> QED BY <1>1, <1>3, <1>4, EmptySeq DEF Run

LEMMA RunConcat ==
    ASSUME NEW a \in Nat, NEW b \in Nat, NEW c \in Nat, a <= b, b <= c
    PROVE Run(a, b) \o Run(b, c) = Run(a, c)
<1>0. a <= c OBVIOUS
<1>1. Run(a, b) \in Seq(Nat) /\ Len(Run(a, b)) = b - a BY RunProps, Zenon
<1>2. Run(b, c) \in Seq(Nat) /\ Len(Run(b, c)) = c - b BY RunProps, Zenon
<1>3. Run(a, c) \in Seq(Nat) /\ Len(Run(a, c)) = c - a BY <1>0, RunProps, Zenon
<1> DEFINE s == Run(a, b) \o Run(b, c)
<1>4. /\ s \in Seq(Nat) /\ Len(s) = Len(Run(a, b)) + Len(Run(b, c))
      /\ \A i \in 1 .. Len(Run(a, b)) + Len(Run(b, c)) :
            s[i] = IF i <= Len(Run(a, b)) THEN Run(a, b)[i] ELSE Run(b, c)[i - Len(Run(a, b))]
  BY <1>1, <1>2, ConcatProperties, Zenon
<1> HIDE DEF s
<1>5. Len(s) = c - a BY <1>1, <1>2, <1>4
<1>6. ASSUME NEW i \in 1 .. c - a PROVE s[i] = Run(a, c)[i]
  <2>1. i <= b - a => i \in 1 .. b - a /\ Run(a, b)[i] = a + i BY DEF Run
  <2>2. ~(i <= b - a) => /\ i - (b - a) \in 1 .. c - b
                         /\ Run(b, c)[i - (b - a)] = b + (i - (b - a))
    BY DEF Run
  <2>3. Run(a, c)[i] = a + i BY DEF Run
  <2> QED BY <1>1, <1>2, <1>4, <2>1, <2>2, <2>3
<1>7. s = Run(a, c) BY <1>3, <1>4, <1>5, <1>6, SeqEqual
<1> QED BY <1>7 DEF s

LEMMA RunSub ==
    ASSUME NEW a \in Nat, NEW b \in Nat, a <= b, NEW i \in 0 .. b - a
    PROVE /\ SubSeq(Run(a, b), 1, i) = Run(a, a + i)
          /\ SubSeq(Run(a, b), i + 1, b - a) = Run(a + i, b)
<1>1. \A j \in 1 .. b - a : Run(a, b)[j] = a + j BY DEF Run
<1>2. a + i \in Nat /\ a <= a + i /\ a + i <= b /\ i \in Int /\ i + 1 \in Int /\ b - a \in Int
  OBVIOUS
<1>3. SubSeq(Run(a, b), 1, i) = Run(a, a + i)
  <2> DEFINE s == SubSeq(Run(a, b), 1, i)
  <2>1. \A j \in 1 .. i : Run(a, b)[j] \in Nat BY <1>1
  <2>2. /\ s \in Seq(Nat) /\ Len(s) = IF 1 <= i THEN i - 1 + 1 ELSE 0
        /\ \A j \in 1 .. i - 1 + 1 : s[j] = Run(a, b)[1 + j - 1]
    BY <1>2, <2>1, SubSeqProperties
  <2> HIDE DEF s
  <2>3. Run(a, a + i) \in Seq(Nat) /\ Len(Run(a, a + i)) = (a + i) - a
    <3>1. PICK d \in Nat : d = a + i BY <1>2
    <3>2. Run(a, d) \in Seq(Nat) /\ Len(Run(a, d)) = d - a BY <1>2, <3>1, RunProps
    <3> QED BY <3>1, <3>2
  <2>4. Len(s) = i /\ Len(Run(a, a + i)) = i BY <2>2, <2>3
  <2>5. ASSUME NEW j \in 1 .. i PROVE s[j] = Run(a, a + i)[j]
    <3>1. s[j] = a + j BY <1>1, <2>2
    <3> QED BY <3>1 DEF Run
  <2>6. s = Run(a, a + i) BY <2>2, <2>3, <2>4, <2>5, SeqEqual
  <2> QED BY <2>6 DEF s
<1>4. SubSeq(Run(a, b), i + 1, b - a) = Run(a + i, b)
  <2> DEFINE s == SubSeq(Run(a, b), i + 1, b - a)
  <2>1. \A j \in i + 1 .. b - a : Run(a, b)[j] \in Nat BY <1>1
  <2>2. /\ s \in Seq(Nat) /\ Len(s) = IF i + 1 <= b - a THEN b - a - (i + 1) + 1 ELSE 0
        /\ \A j \in 1 .. b - a - (i + 1) + 1 : s[j] = Run(a, b)[i + 1 + j - 1]
    BY <1>2, <2>1, SubSeqProperties
  <2> HIDE DEF s
  <2>3. Run(a + i, b) \in Seq(Nat) /\ Len(Run(a + i, b)) = b - (a + i)
    BY <1>2, RunProps, Zenon
  <2>4. Len(s) = b - (a + i) BY <2>2
  <2>5. ASSUME NEW j \in 1 .. b - (a + i) PROVE s[j] = Run(a + i, b)[j]
    <3>1. s[j] = a + i + j BY <1>1, <2>2
    <3> QED BY <3>1 DEF Run
  <2>6. s = Run(a + i, b) BY <2>2, <2>3, <2>4, <2>5, SeqEqual
  <2> QED BY <2>6 DEF s
<1> QED BY <1>3, <1>4

-----------------------------------------------------------------------------
(* The branch: how the data are divided over the entries. *)

\* The data of the entries up to k are the first Upto(k).
Upto(k) == Cardinality({n \in Data : layout[n] <= k})

BranchOK == times \in TimeSeqs /\ layout \in Layouts

LEMMA BranchTypes ==
    ASSUME BranchOK
    PROVE /\ Len(times) \in Nat /\ Data = 1 .. Len(times) /\ times \in [Data -> Nat]
          /\ \A i, j \in Data : i <= j => times[i] <= times[j]
          /\ layout \in [Data -> 0 .. NofEntries - 1]
          /\ \A i, j \in Data : i <= j => layout[i] <= layout[j]
          /\ NofEntries \in Nat \ {0}
<1>1. times \in Seq(Nat) /\ \A i, j \in DOMAIN times : i <= j => times[i] <= times[j]
  BY ReadsAssumption DEF BranchOK
<1>2. Len(times) \in Nat /\ Data = 1 .. Len(times) /\ times \in [Data -> Nat]
  BY <1>1, LenProperties DEF Data
<1>3. layout \in [Data -> 0 .. NofEntries - 1] /\ \A i, j \in Data : i < j => layout[i] <= layout[j]
  BY DEF BranchOK, Layouts
<1>4. NofEntries \in Nat \ {0} BY EntriesAssumption DEF EntriesAssumption
<1>5. ASSUME NEW i \in Data, NEW j \in Data, i <= j PROVE layout[i] <= layout[j]
  BY <1>2, <1>3, <1>4, <1>5
<1> QED BY <1>1, <1>2, <1>3, <1>4, <1>5 DEF Data

LEMMA UptoIs ==
    ASSUME BranchOK, NEW k \in Int
    PROVE /\ Upto(k) \in 0 .. Len(times) /\ Upto(k) \in Nat
          /\ {n \in Data : layout[n] <= k} = 1 .. Upto(k)
          /\ \A n \in Data : layout[n] <= k <=> n <= Upto(k)
<1> DEFINE S == {n \in Data : layout[n] <= k}
           m == Len(times)
<1>1. m \in Nat /\ S \in SUBSET (1 .. m) BY BranchTypes
<1>2. \A i, j \in 1 .. m : i <= j /\ j \in S => i \in S BY BranchTypes
<1>3. Cardinality(S) \in 0 .. m /\ S = 1 .. Cardinality(S)
  <2> HIDE DEF S, m
  <2> QED BY <1>1, <1>2, FirstNumbers
<1>4. Upto(k) \in 0 .. m /\ S = 1 .. Upto(k) BY <1>3 DEF Upto
<1>5. \A n \in Data : layout[n] <= k <=> n \in 1 .. Upto(k)
  <2>1. \A n \in Data : layout[n] <= k <=> n \in S OBVIOUS
  <2> HIDE DEF S
  <2> QED BY <1>4, <2>1
<1>6. \A n \in Data : n \in 1 .. Upto(k) <=> n <= Upto(k) BY <1>4, BranchTypes
<1>7. Upto(k) \in Nat BY <1>1, <1>4
<1> QED BY <1>4, <1>5, <1>6, <1>7

LEMMA UptoGrows ==
    ASSUME BranchOK, NEW j \in Int, NEW k \in Int, j <= k
    PROVE Upto(j) <= Upto(k)
<1>1. /\ Upto(j) \in 0 .. Len(times) /\ Upto(k) \in 0 .. Len(times) /\ Len(times) \in Nat
      /\ Data = 1 .. Len(times)
  BY UptoIs, BranchTypes
<1>2. CASE Upto(j) = 0 BY <1>1, <1>2
<1>3. CASE Upto(j) # 0
  <2>1. Upto(j) \in Data BY <1>1, <1>3
  <2>2. layout[Upto(j)] <= j
    <3>1. \A n \in Data : layout[n] <= j <=> n <= Upto(j) BY UptoIs
    <3>2. Upto(j) <= Upto(j) BY <1>1
    <3> QED BY <2>1, <3>1, <3>2
  <2>3. layout[Upto(j)] <= k BY <2>1, <2>2, BranchTypes
  <2> QED BY <2>1, <2>3, UptoIs
<1> QED BY <1>2, <1>3

LEMMA UptoEnds ==
    ASSUME BranchOK
    PROVE Upto(-1) = 0 /\ Upto(NofEntries - 1) = Len(times)
<1>0. -1 \in Int /\ NofEntries - 1 \in Int BY BranchTypes
<1>1. /\ Upto(-1) \in 0 .. Len(times) /\ Upto(NofEntries - 1) \in 0 .. Len(times)
      /\ \A n \in Data : layout[n] <= -1 <=> n <= Upto(-1)
      /\ \A n \in Data : layout[n] <= NofEntries - 1 <=> n <= Upto(NofEntries - 1)
  BY <1>0, UptoIs
<1>2. \A n \in Data : ~(n <= Upto(-1)) /\ n <= Upto(NofEntries - 1)
  BY <1>1, BranchTypes
<1>3. Upto(-1) = 0
  <2> SUFFICES ASSUME Upto(-1) # 0 PROVE FALSE OBVIOUS
  <2>1. Upto(-1) \in Data BY <1>1, BranchTypes
  <2> QED BY <1>2, <2>1, <1>1, BranchTypes
<1>4. Upto(NofEntries - 1) = Len(times)
  <2> SUFFICES ASSUME Upto(NofEntries - 1) # Len(times) PROVE FALSE OBVIOUS
  <2>1. Len(times) \in Data BY <1>1, BranchTypes
  <2> QED BY <1>1, <1>2, <2>1, BranchTypes
<1> QED BY <1>3, <1>4

LEMMA EntryIs ==
    ASSUME BranchOK, NEW k \in Int
    PROVE /\ Upto(k - 1) <= Upto(k)
          /\ Entry(k) = Run(Upto(k - 1), Upto(k))
          /\ Filled(k) <=> Upto(k - 1) < Upto(k)
          /\ \A n \in Data : layout[n] = k <=> Upto(k - 1) < n /\ n <= Upto(k)
<1>1. k - 1 \in Int /\ k - 1 <= k OBVIOUS
<1>2. /\ Upto(k - 1) \in 0 .. Len(times) /\ Upto(k) \in 0 .. Len(times)
      /\ \A n \in Data : layout[n] <= k <=> n <= Upto(k)
      /\ \A n \in Data : layout[n] <= k - 1 <=> n <= Upto(k - 1)
  BY <1>1, UptoIs
<1>3. Upto(k - 1) <= Upto(k) BY <1>1, UptoGrows
<1>4. \A n \in Data : layout[n] \in Int /\ n \in Nat BY BranchTypes
<1>5. \A n \in Data : layout[n] = k <=> Upto(k - 1) < n /\ n <= Upto(k)
  BY <1>2, <1>4
<1>6. {n \in Data : layout[n] < k} = {n \in Data : layout[n] <= k - 1}
  BY <1>4
<1>7. Cardinality({n \in Data : layout[n] < k}) = Upto(k - 1) BY <1>6 DEF Upto
<1>8. {n \in Data : layout[n] = k} = Upto(k - 1) + 1 .. Upto(k)
  BY <1>2, <1>5, BranchTypes
<1>9. Cardinality({n \in Data : layout[n] = k}) = Upto(k) - Upto(k - 1)
  <2>1. Cardinality(Upto(k - 1) + 1 .. Upto(k)) = Upto(k) - Upto(k - 1)
    <3>1. Upto(k - 1) \in Nat /\ Upto(k) \in Nat BY <1>2, BranchTypes
    <3> QED BY <1>3, <3>1, IntervalSize
  <2> QED BY <1>8, <2>1
<1>10. Entry(k) = Run(Upto(k - 1), Upto(k)) BY <1>7, <1>9 DEF Entry, Run
<1>11. Filled(k) <=> Upto(k - 1) < Upto(k)
  <2>1. Filled(k) => Upto(k - 1) < Upto(k) BY <1>2, <1>4, <1>5 DEF Filled
  <2>2. Upto(k - 1) < Upto(k) => Filled(k)
    <3> SUFFICES ASSUME Upto(k - 1) < Upto(k) PROVE Filled(k) OBVIOUS
    <3>1. Upto(k) \in Data BY <1>2, BranchTypes
    <3> QED BY <1>2, <1>5, <3>1 DEF Filled
  <2> QED BY <2>1, <2>2
<1> QED BY <1>3, <1>5, <1>10, <1>11

-----------------------------------------------------------------------------
(* The times of the data. *)

Passed(limit) == Promise!LastUpTo(limit)

LEMMA PassedIs ==
    ASSUME BranchOK, NEW limit \in Int
    PROVE /\ Passed(limit) \in 0 .. Len(times) /\ Passed(limit) \in Nat
          /\ \A i \in Data : times[i] <= limit <=> i <= Passed(limit)
<1> DEFINE S == {n \in Data : times[n] <= limit}
           m == Len(times)
           IsIt(n) == /\ \A i \in 1 .. n : times[i] <= limit
                      /\ n < Len(times) => times[n + 1] > limit
<1>1. m \in Nat /\ Data = 1 .. m /\ S \in SUBSET (1 .. m) BY BranchTypes
<1>2. \A i, j \in 1 .. m : i <= j /\ j \in S => i \in S BY BranchTypes
<1>3. PICK c \in 0 .. m : S = 1 .. c
  <2> HIDE DEF S, m
  <2> QED BY <1>1, <1>2, FirstNumbers
<1>4. IsIt(c)
  <2>1. \A i \in 1 .. c : times[i] <= limit BY <1>3
  <2>2. ASSUME c < m PROVE times[c + 1] > limit
    <3>1. c + 1 \in Data /\ c + 1 \notin S BY <1>1, <1>3, <2>2
    <3>2. times[c + 1] \in Nat BY <3>1, BranchTypes
    <3> QED BY <3>1, <3>2
  <2> QED BY <2>1, <2>2
<1>5. Passed(limit) = CHOOSE n \in 0 .. m : IsIt(n) BY DEF Passed, Promise!LastUpTo
<1>6. Passed(limit) \in 0 .. m /\ IsIt(Passed(limit))
  <2> HIDE DEF IsIt, m
  <2> QED BY <1>4, <1>5
<1>7. ASSUME NEW i \in Data, i <= Passed(limit) PROVE times[i] <= limit
  BY <1>1, <1>6, <1>7
<1>8. ASSUME NEW i \in Data, ~(i <= Passed(limit)) PROVE ~(times[i] <= limit)
  <2>1. Passed(limit) + 1 \in Data /\ Passed(limit) + 1 <= i /\ Passed(limit) < Len(times)
    BY <1>1, <1>6, <1>8
  <2>2. times[Passed(limit) + 1] <= times[i] BY <2>1, BranchTypes
  <2>3. times[Passed(limit) + 1] > limit BY <1>6, <2>1
  <2>4. times[i] \in Nat /\ times[Passed(limit) + 1] \in Nat BY <2>1, BranchTypes
  <2> QED BY <2>2, <2>3, <2>4
<1>9. Passed(limit) \in 0 .. Len(times) /\ Passed(limit) \in Nat BY <1>1, <1>6
<1> QED BY <1>7, <1>8, <1>9

LEMMA LaterIs ==
    ASSUME BranchOK, NEW limit \in Int, NEW n \in Data
    PROVE Later(n, limit) <=> Passed(limit) < n
<1>1. times[n] \in Nat /\ n \in Nat BY BranchTypes
<1>2. Passed(limit) \in Nat /\ (times[n] <= limit <=> n <= Passed(limit))
  BY PassedIs
<1> QED BY <1>1, <1>2 DEF Later

LEMMA HasLaterIs ==
    ASSUME BranchOK, NEW limit \in Int, NEW a \in Nat, NEW b \in Nat, a <= b, b <= Len(times)
    PROVE HasLater(Run(a, b), limit) <=> a < b /\ Passed(limit) < b
<1>1. DOMAIN Run(a, b) = 1 .. b - a /\ \A i \in 1 .. b - a : Run(a, b)[i] = a + i
  BY DEF Run
<1>2. \A i \in 1 .. b - a : a + i \in Data BY BranchTypes
<1>3. \A i \in 1 .. b - a : Later(a + i, limit) <=> Passed(limit) < a + i
  BY <1>2, LaterIs
<1>4. HasLater(Run(a, b), limit) <=> \E i \in 1 .. b - a : Passed(limit) < a + i
  BY <1>1, <1>3 DEF HasLater
<1>5. Passed(limit) \in Nat BY PassedIs
<1>6. a < b => b - a \in 1 .. b - a /\ a + (b - a) = b OBVIOUS
<1> QED BY <1>4, <1>5, <1>6

-----------------------------------------------------------------------------
(* Reading. *)

\* The entries after one, put together, are a run.
LEMMA FlattenEntries ==
    ASSUME BranchOK, NEW b \in Int, NEW m \in Nat
    PROVE FlattenSeq([j \in 1 .. m |-> Entry(b + j)]) = Run(Upto(b), Upto(b + m))
<1> DEFINE s == [j \in 1 .. m |-> Entry(b + j)]
           f == [i \in 1 .. m |-> Run(Upto(b), Upto(b + i))]
<1>1. Len(s) = m OBVIOUS
<1>2. CASE m = 0
  <2>1. FlattenSeq(s) = s
    <3> HIDE DEF s
    <3> QED BY <1>1, <1>2, FlattenSeqEmpty
  <2>2. b + m = b /\ Upto(b) \in Nat BY <1>2, UptoIs, BranchTypes
  <2>3. s = Run(Upto(b), Upto(b)) BY <1>2, <2>2 DEF Run
  <2> QED BY <2>1, <2>2, <2>3
<1>3. CASE m # 0
  <2>1. \A i \in 0 .. m : Upto(b + i) \in Nat /\ Upto(b) <= Upto(b + i)
    <3> TAKE i \in 0 .. m
    <3>1. b + i \in Int /\ b <= b + i OBVIOUS
    <3> QED BY <3>1, UptoIs, UptoGrows, BranchTypes
  <2>2. b + 0 = b OBVIOUS
  <2>3. Upto(b) \in Nat BY <2>1, <2>2
  <2>4. f \in [1 .. m -> {f[i] : i \in 1 .. m}] OBVIOUS
  <2>5. \A i \in 1 .. m : s[i] = Run(Upto(b + (i - 1)), Upto(b + i))
    <3> TAKE i \in 1 .. m
    <3>1. b + i \in Int /\ (b + i) - 1 = b + (i - 1) OBVIOUS
    <3>2. s[i] = Entry(b + i) OBVIOUS
    <3> QED BY <3>1, <3>2, EntryIs
  <2>6. f[1] = s[1]
    <3>1. f[1] = Run(Upto(b), Upto(b + 1)) /\ 1 - 1 = 0 /\ 1 \in 1 .. m BY <1>3
    <3> HIDE DEF f, s
    <3> QED BY <2>2, <2>5, <3>1
  <2>7. ASSUME NEW i \in 2 .. m PROVE f[i] = f[i - 1] \o s[i]
    <3>1. i - 1 \in 1 .. m /\ i \in 1 .. m /\ i - 1 \in 0 .. m /\ i \in 0 .. m OBVIOUS
    <3>2. f[i] = Run(Upto(b), Upto(b + i)) /\ f[i - 1] = Run(Upto(b), Upto(b + (i - 1)))
      BY <3>1
    <3>3. Upto(b + (i - 1)) <= Upto(b + i)
      <4>1. b + (i - 1) \in Int /\ b + i \in Int /\ b + (i - 1) <= b + i OBVIOUS
      <4> QED BY <4>1, UptoGrows
    <3>4. Run(Upto(b), Upto(b + (i - 1))) \o Run(Upto(b + (i - 1)), Upto(b + i))
              = Run(Upto(b), Upto(b + i))
      BY <2>1, <2>3, <3>1, <3>3, RunConcat
    <3> HIDE DEF f, s
    <3> QED BY <2>5, <3>1, <3>2, <3>4
  <2>8. FlattenSeq(s) = f[m]
    <3>1. m \in Nat \ {0} BY <1>3
    <3> HIDE DEF f, s
    <3>2. Joins(f, s, m) BY <2>4, <2>6, <2>7 DEF Joins
    <3> QED BY <1>1, <3>1, <3>2, FlattenSeqIs
  <2> QED BY <1>3, <2>8
<1> QED BY <1>2, <1>3

\* A buffer object whose buffer is the data from the cursor c on, as far as has been read.
BufferAt(b, c) ==
    /\ b \in [fBranchIndex : -1 .. NofEntries - 1, fBufferArray : Seq(Nat), fOutputArray : Seq(Nat)]
    /\ c \in 0 .. Upto(b.fBranchIndex)
    /\ b.fBufferArray = Run(c, Upto(b.fBranchIndex))

\* After a request entries have been read up to a datum or to the end.
Settled(index) == index = NofEntries - 1 \/ Upto(index) > 0

LEMMA ReadUpToIs ==
    ASSUME BranchOK, NEW b, NEW c, BufferAt(b, c), NEW stop \in Int
    PROVE \E k \in 0 .. NofEntries - 1 :
              /\ ReadUpTo(b, stop) = [fBranchIndex |-> k, fBufferArray |-> Run(c, Upto(k)),
                                      fOutputArray |-> b.fOutputArray]
              /\ b.fBranchIndex <= k
              /\ k = NofEntries - 1 \/ (c < Upto(k) /\ Passed(stop) < Upto(k))
<1> DEFINE bi == b.fBranchIndex
           decisive == {k \in bi + 1 .. NofEntries - 1 : HasLater(Entry(k), stop)}
           last == IF decisive = {} THEN NofEntries - 1 ELSE Min(decisive)
           m == last - bi
<1>1. /\ bi \in -1 .. NofEntries - 1 /\ bi \in Int /\ NofEntries \in Nat \ {0}
      /\ Upto(bi) \in 0 .. Len(times) /\ Len(times) \in Nat /\ c \in Nat /\ c <= Upto(bi)
      /\ Upto(bi) \in Nat /\ Upto(bi) <= Len(times)
      /\ b.fBufferArray = Run(c, Upto(bi))
      /\ b = [fBranchIndex |-> bi, fBufferArray |-> Run(c, Upto(bi)),
              fOutputArray |-> b.fOutputArray]
  <2>1. bi \in -1 .. NofEntries - 1 /\ bi \in Int /\ NofEntries \in Nat \ {0}
    BY BranchTypes DEF BufferAt
  <2>2. Upto(bi) \in 0 .. Len(times) /\ Len(times) \in Nat
    BY <2>1, UptoIs, BranchTypes
  <2>3. b.fBufferArray = Run(c, Upto(bi)) /\ c \in 0 .. Upto(bi)
        /\ b = [fBranchIndex |-> bi, fBufferArray |-> b.fBufferArray,
              fOutputArray |-> b.fOutputArray]
    BY DEF BufferAt
  <2> QED BY <2>1, <2>2, <2>3
<1>2. HasLater(b.fBufferArray, stop) <=> c < Upto(bi) /\ Passed(stop) < Upto(bi)
  BY <1>1, HasLaterIs
<1>3. CASE HasLater(b.fBufferArray, stop)
  <2>1. ReadUpTo(b, stop) = b BY <1>3 DEF ReadUpTo
  <2>2. bi # -1 BY <1>1, <1>2, <1>3, UptoEnds
  <2>3. bi \in 0 .. NofEntries - 1 BY <1>1, <2>2
  <2> QED BY <1>1, <1>2, <1>3, <2>1, <2>3
<1>4. CASE ~HasLater(b.fBufferArray, stop)
  <2>1. decisive # {} => /\ Min(decisive) \in decisive
                         /\ \A k \in decisive : Min(decisive) <= k
    <3>1. decisive \in SUBSET Int /\ bi + 1 \in Nat /\ \A k \in decisive : bi + 1 <= k
      BY <1>1
    <3> HIDE DEF decisive
    <3> QED BY <3>1, MinIs
  <2>2. last \in bi .. NofEntries - 1 /\ last \in 0 .. NofEntries - 1 /\ m \in Nat /\ bi + m = last
    <3>1. last \in bi .. NofEntries - 1 /\ last \in 0 .. NofEntries - 1
      <4>1. CASE decisive = {} BY <1>1, <4>1
      <4>2. CASE decisive # {}
        <5>1. last \in bi + 1 .. NofEntries - 1 BY <2>1, <4>2
        <5> HIDE DEF last
        <5> QED BY <1>1, <5>1
      <4> QED BY <4>1, <4>2
    <3> HIDE DEF last
    <3> QED BY <1>1, <3>1
  <2>3. FlattenSeq([j \in 1 .. m |-> Entry(bi + j)]) = Run(Upto(bi), Upto(last))
    <3> HIDE DEF last
    <3> QED BY <1>1, <2>2, FlattenEntries
  <2>4. ReadUpTo(b, stop) = [b EXCEPT !.fBranchIndex = last,
            !.fBufferArray = @ \o FlattenSeq([j \in 1 .. m |-> Entry(bi + j)])]
    BY <1>4 DEF ReadUpTo
  <2>5. Upto(last) \in Nat /\ Upto(bi) <= Upto(last)
    <3> HIDE DEF last
    <3> QED BY <1>1, <2>2, UptoIs, UptoGrows
  <2>6. b.fBufferArray \o Run(Upto(bi), Upto(last)) = Run(c, Upto(last))
    <3> HIDE DEF last, bi
    <3>1. Run(c, Upto(bi)) \o Run(Upto(bi), Upto(last)) = Run(c, Upto(last))
      BY <1>1, <2>5, RunConcat
    <3> QED BY <1>1, <3>1
  <2>7. ReadUpTo(b, stop) = [fBranchIndex |-> last, fBufferArray |-> Run(c, Upto(last)),
                             fOutputArray |-> b.fOutputArray]
    <3>1. ReadUpTo(b, stop) = [b EXCEPT !.fBranchIndex = last,
                                        !.fBufferArray = Run(c, Upto(last))]
      <4> HIDE DEF last, m
      <4> QED BY <2>3, <2>4, <2>6
    <3> HIDE DEF last
    <3> QED BY <1>1, <3>1
  <2>8. last = NofEntries - 1 \/ (c < Upto(last) /\ Passed(stop) < Upto(last))
    <3>1. CASE decisive = {} BY <3>1
    <3>2. CASE decisive # {}
      <4>1. last \in bi + 1 .. NofEntries - 1 /\ HasLater(Entry(last), stop) BY <2>1, <3>2
      <4>2. Entry(last) = Run(Upto(last - 1), Upto(last)) /\ Upto(last - 1) <= Upto(last)
        <5> HIDE DEF last
        <5> QED BY <2>2, EntryIs
      <4>3. last - 1 \in Int /\ bi <= last - 1
        <5> HIDE DEF last
        <5> QED BY <1>1, <4>1
      <4>4. Upto(bi) <= Upto(last - 1) /\ Upto(last - 1) \in Nat
        <5> HIDE DEF last
        <5> QED BY <1>1, <4>3, UptoIs, UptoGrows
      <4>5. Upto(last) <= Len(times)
        <5> HIDE DEF last
        <5> QED BY <2>2, UptoIs, BranchTypes
      <4>6. Upto(last - 1) < Upto(last) /\ Passed(stop) < Upto(last)
        <5> HIDE DEF last
        <5> QED BY <2>5, <4>1, <4>2, <4>4, <4>5, HasLaterIs
      <4> HIDE DEF last
      <4> QED BY <1>1, <2>5, <4>4, <4>6
    <3> QED BY <3>1, <3>2
  <2> HIDE DEF last
  <2> QED BY <2>2, <2>7, <2>8
<1> QED BY <1>3, <1>4

\* Where reading up to a limit leaves the cursor.
MovedTo(c, stop) == IF Passed(stop) > c THEN Passed(stop) ELSE c

LEMMA StopPositionIs ==
    ASSUME BranchOK, NEW stop \in Int, NEW c \in Nat, NEW u \in Nat, c <= u, u <= Len(times),
           u = Len(times) \/ (c < u /\ Passed(stop) < u)
    PROVE /\ MovedTo(c, stop) \in c .. u
          /\ StopPosition(Run(c, u), stop) = MovedTo(c, stop) - c
<1> DEFINE d == MovedTo(c, stop)
           p == Passed(stop)
           S == {i \in DOMAIN Run(c, u) : Later(Run(c, u)[i], stop)}
<1>1. p \in Nat /\ p <= Len(times) /\ Len(times) \in Nat
  <2>1. p \in 0 .. Len(times) /\ p \in Nat BY PassedIs
  <2>2. Len(times) \in Nat BY BranchTypes
  <2> QED BY <2>1, <2>2
<1>2. d = IF p > c THEN p ELSE c BY DEF MovedTo
<1>3. d \in c .. u /\ d \in Nat /\ c <= d /\ d <= u BY <1>1, <1>2
<1>4. HasLater(Run(c, u), stop) <=> c < u /\ p < u BY HasLaterIs
<1>5. CASE HasLater(Run(c, u), stop)
  <2>1. S = {i \in 1 .. u - c : p < c + i}
    <3>1. DOMAIN Run(c, u) = 1 .. u - c /\ \A i \in 1 .. u - c : Run(c, u)[i] = c + i
      BY DEF Run
    <3>2. \A i \in 1 .. u - c : c + i \in Data
      <4>1. Data = 1 .. Len(times) BY BranchTypes
      <4> QED BY <1>1, <4>1
    <3>3. \A i \in 1 .. u - c : Later(c + i, stop) <=> p < c + i BY <3>2, LaterIs
    <3> QED BY <3>1, <3>3
  <2>2. d < u BY <1>1, <1>2, <1>4, <1>5
  <2>3. d - c + 1 \in 1 .. u - c /\ p < c + (d - c + 1) BY <1>1, <1>2, <1>3, <2>2
  <2>4. \A i \in 1 .. u - c : p < c + i => d - c + 1 <= i BY <1>1, <1>2, <1>3
  <2>5. Min(S) = d - c + 1
    <3>1. S \in SUBSET Int /\ d - c + 1 \in Int /\ d - c + 1 \in S
          /\ \A k \in S : d - c + 1 <= k
      <4> HIDE DEF S, d, p
      <4> QED BY <1>3, <2>1, <2>3, <2>4
    <3> HIDE DEF S, d, p
    <3> QED BY <3>1, MinEquals
  <2>6. StopPosition(Run(c, u), stop) = Min(S) - 1 BY <1>5 DEF StopPosition
  <2> HIDE DEF S, d, p
  <2>7. StopPosition(Run(c, u), stop) = d - c BY <1>3, <2>5, <2>6
  <2> QED BY <1>3, <2>7 DEF d
<1>6. CASE ~HasLater(Run(c, u), stop)
  <2>1. d = u BY <1>1, <1>2, <1>4, <1>6
  <2>2. StopPosition(Run(c, u), stop) = u - c
    <3>1. Len(Run(c, u)) = u - c BY RunProps
    <3> QED BY <1>6, <3>1 DEF StopPosition
  <2> HIDE DEF d
  <2>3. StopPosition(Run(c, u), stop) = d - c BY <2>1, <2>2
  <2> QED BY <1>3, <2>3 DEF d
<1> QED BY <1>5, <1>6

\* GetData gives the data from the cursor on that are not too late, and moves the cursor
\* behind them.
LEMMA GetDataIs ==
    ASSUME BranchOK, NEW b, NEW c, BufferAt(b, c), NEW stop \in Int
    PROVE LET d == MovedTo(c, stop)
              after == GetData(b, stop)
          IN  /\ c \in Nat /\ d \in Nat /\ c <= d /\ d <= Len(times)
              /\ BufferAt(after, d)
              /\ after.fOutputArray = b.fOutputArray \o Run(c, d)
              /\ after.fBranchIndex > -1 /\ b.fBranchIndex <= after.fBranchIndex
              /\ Settled(after.fBranchIndex)
<1> DEFINE d == MovedTo(c, stop)
           after == GetData(b, stop)
           pos == d - c
<1>1. PICK k \in 0 .. NofEntries - 1 :
              /\ ReadUpTo(b, stop) = [fBranchIndex |-> k, fBufferArray |-> Run(c, Upto(k)),
                                      fOutputArray |-> b.fOutputArray]
              /\ b.fBranchIndex <= k
              /\ k = NofEntries - 1 \/ (c < Upto(k) /\ Passed(stop) < Upto(k))
  BY ReadUpToIs
<1> DEFINE u == Upto(k)
<1>2. /\ b.fBranchIndex \in -1 .. NofEntries - 1 /\ NofEntries \in Nat \ {0}
      /\ c \in 0 .. Upto(b.fBranchIndex)
      /\ b.fOutputArray \in Seq(Nat)
  BY BranchTypes DEF BufferAt
<1>3. k \in Int /\ b.fBranchIndex \in Int BY <1>2
<1>4. u \in Nat /\ u \in 0 .. Len(times) /\ Upto(b.fBranchIndex) <= u /\ Upto(b.fBranchIndex) \in Nat
  BY <1>1, <1>3, UptoIs, UptoGrows
<1>5. Len(times) \in Nat BY BranchTypes
<1>6. c \in Nat /\ c <= u /\ u <= Len(times) BY <1>2, <1>4, <1>5
<1>7. u = Len(times) \/ (c < u /\ Passed(stop) < u) BY <1>1, UptoEnds
<1>8. d \in c .. u /\ StopPosition(Run(c, u), stop) = pos
  <2> HIDE DEF u
  <2> QED BY <1>4, <1>6, <1>7, StopPositionIs
<1>9. d \in Nat /\ c <= d /\ d <= u /\ pos \in 0 .. u - c /\ c + pos = d
  <2> HIDE DEF u, d
  <2> QED BY <1>4, <1>6, <1>8
<1>10. /\ SubSeq(Run(c, u), 1, pos) = Run(c, d)
       /\ SubSeq(Run(c, u), pos + 1, u - c) = Run(d, u)
  <2> HIDE DEF u, pos, d
  <2> QED BY <1>4, <1>6, <1>9, RunSub
<1>11. Len(Run(c, u)) = u - c
  <2> HIDE DEF u
  <2> QED BY <1>4, <1>6, RunProps
<1>12. after = [fBranchIndex |-> k, fBufferArray |-> Run(d, u),
                fOutputArray |-> b.fOutputArray \o Run(c, d)]
  <2> DEFINE out == b.fOutputArray \o SubSeq(Run(c, u), 1, pos)
             rest == SubSeq(Run(c, u), pos + 1, Len(Run(c, u)))
  <2>1. /\ ReadUpTo(b, stop).fBufferArray = Run(c, u)
        /\ ReadUpTo(b, stop).fOutputArray = b.fOutputArray
    BY <1>1
  <2>2. after = [ReadUpTo(b, stop) EXCEPT !.fOutputArray = out, !.fBufferArray = rest]
    <3> HIDE DEF u, pos, d
    <3> QED BY <1>8, <2>1 DEF GetData
  <2>3. after = [fBranchIndex |-> k, fBufferArray |-> rest, fOutputArray |-> out]
    <3> DEFINE read == ReadUpTo(b, stop)
               buffer == Run(c, u)
               own == b.fOutputArray
    <3>1. read = [fBranchIndex |-> k, fBufferArray |-> buffer, fOutputArray |-> own] BY <1>1
    <3>2. after = [read EXCEPT !.fOutputArray = out, !.fBufferArray = rest] BY <2>2
    <3> HIDE DEF out, rest, after, read, buffer, own
    <3> QED BY <3>1, <3>2
  <2>4. out = b.fOutputArray \o Run(c, d) /\ rest = Run(d, u)
    <3> HIDE DEF u, pos, d
    <3> QED BY <1>10, <1>11
  <2> HIDE DEF out, rest, after, u, d
  <2> QED BY <2>3, <2>4
<1>13. Run(d, u) \in Seq(Nat) /\ Run(c, d) \in Seq(Nat)
  <2> HIDE DEF u, d
  <2> QED BY <1>4, <1>6, <1>9, RunProps
<1>14. b.fOutputArray \o Run(c, d) \in Seq(Nat) BY <1>2, <1>13, ConcatProperties
<1>15. BufferAt(after, d)
  <2> HIDE DEF d, after
  <2>1. k \in -1 .. NofEntries - 1 /\ d \in 0 .. Upto(k) BY <1>4, <1>9
  <2> QED BY <1>12, <1>13, <1>14, <2>1 DEF BufferAt
<1>16. Settled(k) BY <1>1, <1>6, <1>4 DEF Settled
<1>17. /\ after.fBranchIndex = k /\ after.fOutputArray = b.fOutputArray \o Run(c, d)
       /\ k > -1
  <2> HIDE DEF d, after
  <2> QED BY <1>12
<1>18. d <= Len(times)
  <2> HIDE DEF d, u
  <2> QED BY <1>4, <1>6, <1>9, <1>5
<1> HIDE DEF d, after
<1>19. /\ BufferAt(after, d) /\ Settled(after.fBranchIndex)
       /\ after.fBranchIndex > -1 /\ b.fBranchIndex <= after.fBranchIndex
  BY <1>1, <1>15, <1>16, <1>17
<1> QED BY <1>6, <1>9, <1>17, <1>18, <1>19 DEF d, after

-----------------------------------------------------------------------------
(* The search for the start of a window. *)

\* The number of data before the position that was found.
StartAt(found) ==
    LET first == Upto(found.fBranchIndex - 1)
        end == Upto(found.fBranchIndex)
    IN  IF found.startIndex = -1 \/ first + found.startIndex > end THEN end
        ELSE first + found.startIndex

\* What the search holds at each stage: an entry and its data ...
IsPlace(o, i, a, b) ==
    /\ o = [index |-> i, input |-> Run(a, b)]
    /\ i \in -1 .. NofEntries - 1 /\ a \in Nat /\ b \in Nat /\ a <= b /\ b <= Len(times)

\* ... which are those of the entry, unless no entry read so far has data.
InEntry(i, a, b) == i > -1 /\ a = Upto(i - 1) /\ b = Upto(i)

\* What the search finds.
IsFound(r) ==
    /\ r = [fBranchIndex |-> r.fBranchIndex, startIndex |-> r.startIndex]
    /\ r.fBranchIndex \in -1 .. NofEntries - 1 /\ r.startIndex \in Int /\ r.startIndex >= -1

LEMMA NoneFilled ==
    ASSUME BranchOK, NEW j \in Int, NEW k \in Int, j <= k, \A q \in j + 1 .. k : ~Filled(q)
    PROVE Upto(j) = Upto(k)
<1>1. Upto(j) \in Nat /\ Upto(k) \in Nat /\ Upto(j) <= Upto(k) /\ Upto(k) \in 0 .. Len(times)
  BY UptoIs, UptoGrows
<1>2. Data = 1 .. Len(times) /\ Len(times) \in Nat BY BranchTypes
<1> SUFFICES ASSUME Upto(j) < Upto(k) PROVE FALSE BY <1>1
<1>3. Upto(k) \in Data BY <1>1, <1>2
<1>4. layout[Upto(k)] \in Int BY <1>3, BranchTypes
<1>5. layout[Upto(k)] <= k /\ ~(layout[Upto(k)] <= j)
  <2>1. /\ \A n \in Data : layout[n] <= k <=> n <= Upto(k)
        /\ \A n \in Data : layout[n] <= j <=> n <= Upto(j)
    BY UptoIs
  <2> QED BY <1>1, <1>3, <2>1
<1>6. Filled(layout[Upto(k)]) BY <1>3 DEF Filled
<1> QED BY <1>4, <1>5, <1>6

\* The entry of a datum.
LEMMA EntryOfDatum ==
    ASSUME BranchOK, NEW n \in Data
    PROVE LET l == layout[n]
          IN  /\ l \in 0 .. NofEntries - 1 /\ l \in Int /\ n \in Nat
              /\ Upto(l - 1) < n /\ n <= Upto(l)
              /\ Filled(l)
<1> DEFINE l == layout[n]
<1>1. l \in 0 .. NofEntries - 1 /\ n \in Nat /\ NofEntries \in Nat BY BranchTypes
<1>2. l \in Int BY <1>1
<1>3. Upto(l - 1) < n /\ n <= Upto(l) BY <1>2, EntryIs
<1>4. Filled(l) BY DEF Filled
<1> QED BY <1>1, <1>2, <1>3, <1>4

\* Head, last and first later datum of a run that is not empty.
LEMMA RunLater ==
    ASSUME BranchOK, NEW start \in Int, NEW a \in Nat, NEW b \in Nat, a < b, b <= Len(times)
    PROVE /\ Run(a, b) # << >>
          /\ Later(Last(Run(a, b)), start) <=> Passed(start) < b
          /\ Later(Head(Run(a, b)), start) <=> Passed(start) <= a
          /\ Passed(start) < b /\ a <= Passed(start) =>
                Min({i \in DOMAIN Run(a, b) : Later(Run(a, b)[i], start)}) - 1 = Passed(start) - a
<1>1. /\ Run(a, b) # << >> /\ Len(Run(a, b)) = b - a /\ Run(a, b) \in Seq(Nat)
  <2>1. a <= b OBVIOUS
  <2>2. Len(Run(a, b)) = b - a /\ Run(a, b) \in Seq(Nat) BY <2>1, RunProps, Zenon
  <2> QED BY <2>2, EmptySeq
<1>2. \A i \in 1 .. b - a : Run(a, b)[i] = a + i BY DEF Run
<1>3. b - a \in 1 .. b - a /\ 1 \in 1 .. b - a /\ a + (b - a) = b OBVIOUS
<1>4. Last(Run(a, b)) = b /\ Head(Run(a, b)) = a + 1
  <2>1. Last(Run(a, b)) = Run(a, b)[b - a] BY <1>1 DEF Last
  <2>2. Head(Run(a, b)) = Run(a, b)[1] BY <1>1
  <2> QED BY <1>2, <1>3, <2>1, <2>2
<1>5. Data = 1 .. Len(times) /\ Len(times) \in Nat BY BranchTypes
<1>6. a + 1 \in Data /\ b \in Data BY <1>5
<1>7. Passed(start) \in Nat BY PassedIs
<1>8. (Later(b, start) <=> Passed(start) < b) /\ (Later(a + 1, start) <=> Passed(start) < a + 1)
  BY <1>6, LaterIs
<1>9. Passed(start) < a + 1 <=> Passed(start) <= a BY <1>7
<1>10. ASSUME Passed(start) < b, a <= Passed(start)
       PROVE Min({i \in DOMAIN Run(a, b) : Later(Run(a, b)[i], start)}) - 1 = Passed(start) - a
  <2>1. HasLater(Run(a, b), start) BY <1>10, HasLaterIs
  <2>2. StopPosition(Run(a, b), start) = MovedTo(a, start) - a BY <1>10, StopPositionIs
  <2>3. MovedTo(a, start) = Passed(start) BY <1>7, <1>10 DEF MovedTo
  <2> QED BY <2>1, <2>2, <2>3 DEF StopPosition
<1> QED BY <1>1, <1>4, <1>8, <1>9, <1>10

LEMMA OpeningIs ==
    ASSUME BranchOK, NEW index \in -1 .. NofEntries - 1
    PROVE \E i, a, b :
              /\ IsPlace(Opening(index), i, a, b)
              /\ index > -1 /\ Settled(index) => (InEntry(i, a, b) /\ a < b) \/ Len(times) = 0
<1> DEFINE behind == {k \in 0 .. index : Filled(k)}
<1>0. NofEntries \in Nat \ {0} /\ index \in Int /\ Len(times) \in Nat BY BranchTypes
<1>1. CASE behind # {}
  <2>1. Max(behind) \in behind
    <3>1. behind \in SUBSET Int /\ \A k \in behind : k <= index OBVIOUS
    <3> HIDE DEF behind
    <3> QED BY <1>0, <1>1, <3>1, MaxIs
  <2> DEFINE k == Max(behind)
  <2>2. k \in 0 .. NofEntries - 1 /\ k \in Int /\ k - 1 \in Int BY <1>0, <2>1
  <2>3. Opening(index) = [index |-> k, input |-> Entry(k)] BY <1>1 DEF Opening
  <2> HIDE DEF k
  <2>4. Entry(k) = Run(Upto(k - 1), Upto(k)) /\ Upto(k - 1) <= Upto(k) BY <2>2, EntryIs
  <2>5. Upto(k - 1) \in Nat /\ Upto(k) \in Nat /\ Upto(k) \in 0 .. Len(times) BY <2>2, UptoIs
  <2>6. IsPlace(Opening(index), k, Upto(k - 1), Upto(k))
    BY <1>0, <2>2, <2>3, <2>4, <2>5 DEF IsPlace
  <2>7. InEntry(k, Upto(k - 1), Upto(k)) BY <2>2 DEF InEntry
  <2>8. Upto(k - 1) < Upto(k)
    <3>1. Filled(k) BY <2>1 DEF k
    <3> QED BY <2>2, <3>1, EntryIs
  <2> QED BY <2>6, <2>7, <2>8
<1>2. CASE behind = {}
  <2> DEFINE i == IF index > 0 THEN 0 ELSE index
             ahead == {k \in index + 1 .. NofEntries - 1 : Filled(k)}
             k == NextFilled(index)
  <2>1. k \in 0 .. NofEntries - 1
    <3>1. k = IF ahead = {} THEN NofEntries - 1 ELSE Min(ahead) BY DEF NextFilled
    <3>2. ahead # {} => Min(ahead) \in ahead
      <4>1. ahead \in SUBSET Int /\ index + 1 \in Nat /\ \A q \in ahead : index + 1 <= q BY <1>0
      <4> HIDE DEF ahead
      <4> QED BY <4>1, MinIs
    <3> HIDE DEF k
    <3> QED BY <1>0, <3>1, <3>2
  <2>2. Opening(index) = [index |-> i, input |-> Entry(k)] BY <1>2 DEF Opening
  <2>3. i \in -1 .. NofEntries - 1 BY <1>0
  <2> HIDE DEF k, i
  <2>4. k \in Int /\ k - 1 \in Int BY <2>1, <1>0
  <2>5. Entry(k) = Run(Upto(k - 1), Upto(k)) /\ Upto(k - 1) <= Upto(k) BY <2>4, EntryIs
  <2>6. Upto(k - 1) \in Nat /\ Upto(k) \in Nat /\ Upto(k) \in 0 .. Len(times) BY <2>4, UptoIs
  <2>7. IsPlace(Opening(index), i, Upto(k - 1), Upto(k))
    BY <1>0, <2>2, <2>3, <2>5, <2>6 DEF IsPlace
  <2>8. Settled(index) => Len(times) = 0
    <3>1. Upto(-1) = Upto(index)
      <4>1. \A q \in -1 + 1 .. index : ~Filled(q) BY <1>2
      <4>2. -1 \in Int /\ -1 <= index BY <1>0
      <4> QED BY <1>0, <4>1, <4>2, NoneFilled
    <3> QED BY <3>1, UptoEnds DEF Settled
  <2> QED BY <2>7, <2>8
<1> QED BY <1>1, <1>2

LEMMA ForwardsIs ==
    ASSUME BranchOK, NEW start \in Int, NEW o, NEW i, NEW a, NEW b, IsPlace(o, i, a, b), a < b
    PROVE LET f == Forwards(o, start)
          IN  \/ /\ f = [index |-> NofEntries - 1, input |-> << >>]
                 /\ InEntry(i, a, b) => Passed(start) = Len(times)
              \/ \E j, c, d : /\ IsPlace(f, j, c, d) /\ c < d /\ Passed(start) < d
                              /\ InEntry(i, a, b) => InEntry(j, c, d)
<1> DEFINE f == Forwards(o, start)
           p == Passed(start)
           ahead == {k \in i + 1 .. NofEntries - 1 : Filled(k) /\ Later(Last(Entry(k)), start)}
<1>1. /\ o.index = i /\ o.input = Run(a, b) /\ i \in -1 .. NofEntries - 1 /\ i \in Int
      /\ a \in Nat /\ b \in Nat /\ b <= Len(times) /\ NofEntries \in Nat \ {0}
      /\ Len(times) \in Nat
  <2>1. NofEntries \in Nat \ {0} /\ Len(times) \in Nat BY BranchTypes
  <2> QED BY <2>1 DEF IsPlace
<1>2. p \in Nat /\ p \in 0 .. Len(times) BY PassedIs
<1>3. f = IF Later(Last(o.input), start) THEN o
          ELSE IF ahead = {} THEN [index |-> NofEntries - 1, input |-> << >>]
          ELSE [index |-> Min(ahead), input |-> Entry(Min(ahead))]
  BY <1>1 DEF Forwards
<1>4. Later(Last(o.input), start) <=> p < b BY <1>1, RunLater
<1>5. ASSUME NEW k \in i + 1 .. NofEntries - 1
      PROVE /\ k \in Int /\ k - 1 \in Int /\ Entry(k) = Run(Upto(k - 1), Upto(k))
            /\ Upto(k - 1) \in Nat /\ Upto(k) \in Nat /\ Upto(k) <= Len(times)
            /\ Upto(k - 1) <= Upto(k)
            /\ k \in ahead <=> Upto(k - 1) < Upto(k) /\ p < Upto(k)
  <2>1. k \in Int /\ k - 1 \in Int BY <1>1
  <2>2. Upto(k - 1) \in Nat /\ Upto(k) \in Nat /\ Upto(k) \in 0 .. Len(times) BY <2>1, UptoIs
  <2>3. /\ Entry(k) = Run(Upto(k - 1), Upto(k)) /\ Upto(k - 1) <= Upto(k)
        /\ Filled(k) <=> Upto(k - 1) < Upto(k)
    BY <2>1, EntryIs
  <2>4. Upto(k) <= Len(times) BY <1>1, <2>2
  <2>5. Upto(k - 1) < Upto(k) => (Later(Last(Entry(k)), start) <=> p < Upto(k))
    BY <2>2, <2>3, <2>4, RunLater
  <2>6. k \in ahead <=> Filled(k) /\ Later(Last(Entry(k)), start) OBVIOUS
  <2> QED BY <2>1, <2>2, <2>3, <2>4, <2>5, <2>6
<1>6. CASE p < b
  <2>1. f = o BY <1>3, <1>4, <1>6
  <2> HIDE DEF f, p
  <2>2. IsPlace(f, i, a, b) /\ a < b /\ p < b BY <1>6, <2>1
  <2> QED BY <2>2 DEF f, p
<1>7. CASE ~(p < b) /\ ahead = {}
  <2>1. f = [index |-> NofEntries - 1, input |-> << >>] BY <1>3, <1>4, <1>7
  <2>2. ASSUME InEntry(i, a, b), p # Len(times) PROVE FALSE
    <3> DEFINE l == layout[Len(times)]
    <3>1. Len(times) \in Data /\ p < Len(times) BY <1>1, <1>2, <2>2, BranchTypes
    <3>2. /\ l \in 0 .. NofEntries - 1 /\ l \in Int /\ Upto(l - 1) < Len(times)
          /\ Len(times) <= Upto(l)
      BY <3>1, EntryOfDatum
    <3> HIDE DEF l
    <3>3. Upto(l) = Len(times)
      <4>1. Upto(l) \in 0 .. Len(times) BY <3>2, UptoIs
      <4> QED BY <1>1, <3>2, <4>1
    <3>4. CASE l <= i
      <4>1. Upto(l) <= Upto(i) BY <1>1, <3>2, <3>4, UptoGrows
      <4>2. b = Upto(i) BY <2>2 DEF InEntry
      <4> QED BY <1>1, <1>2, <1>7, <3>1, <3>3, <4>1, <4>2
    <3>5. CASE ~(l <= i)
      <4>1. l \in i + 1 .. NofEntries - 1 BY <1>1, <3>2, <3>5
      <4>2. l \in ahead
        <5> HIDE DEF ahead, p
        <5> QED BY <1>5, <3>1, <3>2, <3>3, <4>1
      <4> QED BY <1>7, <4>2
    <3> QED BY <3>4, <3>5
  <2> QED BY <2>1, <2>2
<1>8. CASE ~(p < b) /\ ahead # {}
  <2> DEFINE k == Min(ahead)
  <2>1. k \in ahead
    <3>1. ahead \in SUBSET Int /\ i + 1 \in Nat /\ \A q \in ahead : i + 1 <= q BY <1>1
    <3> HIDE DEF ahead
    <3> QED BY <1>8, <3>1, MinIs
  <2>2. f = [index |-> k, input |-> Entry(k)]
    <3> HIDE DEF f, ahead, p
    <3> QED BY <1>3, <1>4, <1>8
  <2>3. k \in i + 1 .. NofEntries - 1 BY <2>1
  <2> HIDE DEF k
  <2>4. /\ k \in Int /\ Entry(k) = Run(Upto(k - 1), Upto(k))
        /\ Upto(k - 1) \in Nat /\ Upto(k) \in Nat /\ Upto(k) <= Len(times)
        /\ Upto(k - 1) < Upto(k) /\ p < Upto(k)
    <3> HIDE DEF ahead, p
    <3> QED BY <1>5, <2>1, <2>3
  <2>5. k \in 0 .. NofEntries - 1 /\ k > -1 BY <1>1, <2>3
  <2>6. IsPlace(f, k, Upto(k - 1), Upto(k))
    <3> HIDE DEF f
    <3> QED BY <2>2, <2>4, <2>5 DEF IsPlace
  <2>7. InEntry(k, Upto(k - 1), Upto(k)) BY <2>5 DEF InEntry
  <2> QED BY <2>4, <2>6, <2>7
<1> QED BY <1>6, <1>7, <1>8

LEMMA BackwardsIs ==
    ASSUME BranchOK, NEW start \in Int, NEW f, NEW i, NEW a, NEW b, IsPlace(f, i, a, b),
           a < b, Passed(start) < b
    PROVE LET r == Backwards(f, start)
          IN  IsFound(r) /\ (InEntry(i, a, b) => StartAt(r) = Passed(start))
<1> DEFINE r == Backwards(f, start)
           p == Passed(start)
           firstLater(array) == Min({n \in DOMAIN array : Later(array[n], start)}) - 1
           before == {k \in 0 .. i - 1 : Filled(k) /\ ~Later(Head(Entry(k)), start)}
           k == Max(before)
<1>1. /\ f.index = i /\ f.input = Run(a, b) /\ i \in -1 .. NofEntries - 1 /\ i \in Int
      /\ a \in Nat /\ b \in Nat /\ b <= Len(times) /\ NofEntries \in Nat \ {0}
      /\ Len(times) \in Nat
  <2>1. NofEntries \in Nat \ {0} /\ Len(times) \in Nat BY BranchTypes
  <2> QED BY <2>1 DEF IsPlace
<1>2. p \in Nat /\ p \in 0 .. Len(times) BY PassedIs
<1>3. r = IF ~Later(Head(f.input), start)
          THEN [fBranchIndex |-> i, startIndex |-> firstLater(f.input)]
          ELSE IF before = {}
          THEN IF i < 0 THEN [fBranchIndex |-> i, startIndex |-> -1]
               ELSE [fBranchIndex |-> 0, startIndex |-> 0]
          ELSE IF Later(Last(Entry(k)), start)
          THEN [fBranchIndex |-> k, startIndex |-> firstLater(Entry(k))]
          ELSE [fBranchIndex |-> NextFilled(k), startIndex |-> 0]
  BY <1>1 DEF Backwards
<1>4. /\ Later(Head(f.input), start) <=> p <= a
      /\ a <= p => firstLater(f.input) = p - a
  <2>1. /\ Later(Head(Run(a, b)), start) <=> Passed(start) <= a
        /\ Passed(start) < b /\ a <= Passed(start) =>
              firstLater(Run(a, b)) = Passed(start) - a
    <3>1. a \in Nat /\ b \in Nat /\ b <= Len(times) BY <1>1
    <3> QED BY <3>1, RunLater
  <2> HIDE DEF firstLater
  <2> QED BY <1>1, <2>1
<1>5. ASSUME NEW q \in 0 .. NofEntries - 1
      PROVE /\ q \in Int /\ q - 1 \in Int /\ Entry(q) = Run(Upto(q - 1), Upto(q))
            /\ Upto(q - 1) \in Nat /\ Upto(q) \in Nat /\ Upto(q) <= Len(times)
            /\ Upto(q - 1) <= Upto(q)
            /\ Filled(q) <=> Upto(q - 1) < Upto(q)
            /\ Filled(q) => (Later(Head(Entry(q)), start) <=> p <= Upto(q - 1))
  <2>1. q \in Int /\ q - 1 \in Int BY <1>1
  <2>2. Upto(q - 1) \in Nat /\ Upto(q) \in Nat /\ Upto(q) \in 0 .. Len(times) BY <2>1, UptoIs
  <2>3. /\ Entry(q) = Run(Upto(q - 1), Upto(q)) /\ Upto(q - 1) <= Upto(q)
        /\ Filled(q) <=> Upto(q - 1) < Upto(q)
    BY <2>1, EntryIs
  <2>4. Upto(q) <= Len(times) BY <1>1, <2>2
  <2>5. Upto(q - 1) < Upto(q) => (Later(Head(Entry(q)), start) <=> p <= Upto(q - 1))
    BY <2>2, <2>3, <2>4, RunLater
  <2> QED BY <2>1, <2>2, <2>3, <2>4, <2>5
\* The entry of a datum before the place is in `before'.
<1>6. ASSUME NEW n \in Data, n <= p, i > -1, n <= Upto(i - 1)
      PROVE layout[n] \in before /\ n <= Upto(layout[n])
  <2> DEFINE l == layout[n]
  <2>1. /\ l \in 0 .. NofEntries - 1 /\ l \in Int /\ n \in Nat
        /\ Upto(l - 1) < n /\ n <= Upto(l) /\ Filled(l)
    BY EntryOfDatum
  <2>2. l <= i - 1
    <3>1. i - 1 \in Int BY <1>1
    <3> QED BY <1>6, <3>1, UptoIs
  <2> HIDE DEF l
  <2>3. ~(p <= Upto(l - 1)) BY <1>2, <1>5, <1>6, <2>1
  <2>4. l \in 0 .. i - 1 /\ ~Later(Head(Entry(l)), start)
    <3> HIDE DEF p
    <3> QED BY <1>1, <1>5, <2>1, <2>2, <2>3
  <2> QED BY <2>1, <2>4 DEF l
<1>7. CASE ~Later(Head(f.input), start)
  <2>1. a < p BY <1>1, <1>2, <1>4, <1>7
  <2>2. r = [fBranchIndex |-> i, startIndex |-> p - a]
    <3>1. firstLater(f.input) = p - a BY <1>1, <1>2, <1>4, <2>1
    <3> HIDE DEF firstLater, p
    <3> QED BY <1>3, <1>7, <3>1
  <2>3. p - a \in Int /\ p - a >= -1 /\ p - a # -1 BY <1>1, <1>2, <2>1
  <2> HIDE DEF r
  <2>4. IsFound(r) BY <1>1, <2>2, <2>3 DEF IsFound
  <2>5. InEntry(i, a, b) => StartAt(r) = p
    <3> SUFFICES ASSUME InEntry(i, a, b) PROVE StartAt(r) = p OBVIOUS
    <3>1. a = Upto(i - 1) /\ b = Upto(i) BY DEF InEntry
    <3>2. a + (p - a) = p /\ ~(p > b) BY <1>1, <1>2
    <3> HIDE DEF p
    <3> QED BY <2>2, <2>3, <3>1, <3>2 DEF StartAt
  <2> QED BY <2>4, <2>5 DEF r
<1>8. CASE Later(Head(f.input), start) /\ before = {}
  <2>0. p <= a BY <1>4, <1>8
  <2>1. r = IF i < 0 THEN [fBranchIndex |-> i, startIndex |-> -1]
            ELSE [fBranchIndex |-> 0, startIndex |-> 0]
    <3> HIDE DEF r, firstLater, before
    <3> QED BY <1>3, <1>8
  <2> HIDE DEF r
  <2>2. IsFound(r) BY <1>1, <2>1 DEF IsFound
  <2>3. ASSUME InEntry(i, a, b) PROVE StartAt(r) = p
    <3>1. i > -1 /\ a = Upto(i - 1) BY <2>3 DEF InEntry
    <3>2. p = 0
      <4> SUFFICES ASSUME p # 0 PROVE FALSE OBVIOUS
      <4>1. p \in Data BY <1>2, BranchTypes
      <4>2. p <= p /\ p <= Upto(i - 1) BY <1>2, <2>0, <3>1
      <4> HIDE DEF p, before
      <4> QED BY <1>6, <1>8, <3>1, <4>1, <4>2
    <3>3. r = [fBranchIndex |-> 0, startIndex |-> 0] BY <1>1, <2>1, <3>1
    <3>4. Upto(0 - 1) = 0 /\ Upto(0) \in Nat
      <4>1. 0 \in Int /\ 0 - 1 = -1 OBVIOUS
      <4> QED BY <4>1, UptoEnds, UptoIs
    <3> HIDE DEF p
    <3> QED BY <3>2, <3>3, <3>4 DEF StartAt
  <2> QED BY <2>2, <2>3 DEF r
<1>9. CASE Later(Head(f.input), start) /\ before # {}
  <2>0. p <= a BY <1>4, <1>9
  <2>1. k \in before /\ \A q \in before : q <= k
    <3>1. before \in SUBSET Int /\ \A q \in before : q <= i - 1 BY <1>1
    <3>2. i - 1 \in Int BY <1>1
    <3> HIDE DEF before
    <3> QED BY <1>9, <3>1, <3>2, MaxIs
  <2>2. /\ k \in 0 .. i - 1 /\ k \in 0 .. NofEntries - 1 /\ k \in Int /\ Filled(k)
        /\ ~Later(Head(Entry(k)), start)
    <3>1. k \in 0 .. i - 1 /\ Filled(k) /\ ~Later(Head(Entry(k)), start) BY <2>1
    <3> HIDE DEF k
    <3> QED BY <1>1, <3>1
  <2>3. r = IF Later(Last(Entry(k)), start)
            THEN [fBranchIndex |-> k, startIndex |-> firstLater(Entry(k))]
            ELSE [fBranchIndex |-> NextFilled(k), startIndex |-> 0]
    <3> HIDE DEF r, firstLater, before, k
    <3> QED BY <1>3, <1>9
  <2> HIDE DEF k, r
  <2>4. /\ Entry(k) = Run(Upto(k - 1), Upto(k)) /\ Upto(k - 1) \in Nat /\ Upto(k) \in Nat
        /\ Upto(k - 1) < Upto(k) /\ Upto(k) <= Len(times) /\ Upto(k - 1) < p
    <3> HIDE DEF p, before
    <3>1. ~(p <= Upto(k - 1)) BY <1>5, <2>2
    <3> QED BY <1>2, <1>5, <2>2, <3>1 DEF p
  <2>5. /\ Later(Last(Entry(k)), start) <=> p < Upto(k)
        /\ p < Upto(k) => firstLater(Entry(k)) = p - Upto(k - 1)
    <3>1. /\ Later(Last(Run(Upto(k - 1), Upto(k))), start) <=> Passed(start) < Upto(k)
          /\ Passed(start) < Upto(k) /\ Upto(k - 1) <= Passed(start) =>
                firstLater(Run(Upto(k - 1), Upto(k))) = Passed(start) - Upto(k - 1)
      BY <2>4, RunLater
    <3>2. Upto(k - 1) <= p BY <1>2, <2>4
    <3> HIDE DEF firstLater
    <3> QED BY <2>4, <3>1, <3>2
  <2>6. CASE p < Upto(k)
    <3>1. r = [fBranchIndex |-> k, startIndex |-> p - Upto(k - 1)]
      <4> HIDE DEF firstLater, p, before
      <4> QED BY <2>3, <2>5, <2>6
    <3>2. p - Upto(k - 1) \in Int /\ p - Upto(k - 1) >= -1 /\ p - Upto(k - 1) # -1
          /\ Upto(k - 1) + (p - Upto(k - 1)) = p /\ ~(p > Upto(k))
      BY <1>2, <2>4, <2>6
    <3> HIDE DEF p
    <3>3. IsFound(r) BY <1>1, <2>2, <3>1, <3>2 DEF IsFound
    <3>4. StartAt(r) = p BY <3>1, <3>2 DEF StartAt
    <3> QED BY <3>3, <3>4 DEF r, p
  <2>7. CASE ~(p < Upto(k))
    <3> DEFINE nf == NextFilled(k)
               ahead == {q \in k + 1 .. NofEntries - 1 : Filled(q)}
    <3>1. r = [fBranchIndex |-> nf, startIndex |-> 0]
      <4> HIDE DEF firstLater, p, before, nf
      <4>1. ~Later(Last(Entry(k)), start) BY <2>5, <2>7
      <4>2. nf = NextFilled(k) BY DEF nf
      <4> QED BY <2>3, <4>1, <4>2
    <3>2. nf = IF ahead = {} THEN NofEntries - 1 ELSE Min(ahead) BY DEF NextFilled
    <3>3. ahead # {} => nf \in ahead /\ \A q \in ahead : nf <= q
      <4>1. ahead \in SUBSET Int /\ k + 1 \in Nat /\ \A q \in ahead : k + 1 <= q BY <1>1, <2>2
      <4> HIDE DEF ahead, nf
      <4> QED BY <3>2, <4>1, MinIs
    <3>4. nf \in k .. NofEntries - 1 /\ nf \in Int
      <4>1. ahead # {} => nf \in k + 1 .. NofEntries - 1 BY <3>3
      <4> HIDE DEF ahead, nf
      <4> QED BY <1>1, <2>2, <3>2, <4>1
    <3> HIDE DEF nf
    <3>5. IsFound(r) BY <1>1, <2>2, <3>1, <3>4 DEF IsFound
    <3>6. ASSUME InEntry(i, a, b) PROVE StartAt(r) = p
      <4>1. i > -1 /\ a = Upto(i - 1) /\ b = Upto(i) BY <3>6 DEF InEntry
      <4>2. i \in 0 .. NofEntries - 1 BY <1>1, <4>1
      <4>3. Filled(i)
        <5> HIDE DEF p, before, ahead
        <5> QED BY <1>5, <4>1, <4>2
      <4>4. i \in ahead BY <2>2, <4>2, <4>3
      <4>5. nf \in ahead /\ nf <= i BY <3>3, <4>4
      <4>6. nf \in k + 1 .. NofEntries - 1 /\ nf - 1 \in Int /\ k <= nf - 1 BY <4>5, <2>2
      <4>7. \A q \in k + 1 .. nf - 1 : ~Filled(q)
        <5> SUFFICES ASSUME NEW q \in k + 1 .. nf - 1, Filled(q) PROVE FALSE OBVIOUS
        <5>0. q \in k + 1 .. NofEntries - 1 BY <1>1, <2>2, <3>4
        <5>1. q \in ahead BY <5>0
        <5>2. nf <= q BY <3>3, <4>4, <5>1
        <5> QED BY <2>2, <3>4, <5>2
      <4>8. Upto(k) = Upto(nf - 1) BY <2>2, <4>6, <4>7, NoneFilled
      <4>9. p = Upto(k)
        <5> SUFFICES ASSUME Upto(k) < p PROVE FALSE
          <6> HIDE DEF p
          <6> QED BY <1>2, <2>4, <2>7
        <5>1. p \in Data BY <1>2, <2>4, BranchTypes
        <5>2. p <= p /\ p <= Upto(i - 1) BY <1>2, <2>0, <4>1
        <5>3. layout[p] \in before /\ p <= Upto(layout[p])
          <6> HIDE DEF p, before
          <6> QED BY <1>6, <4>1, <5>1, <5>2
        <5>4. layout[p] <= k BY <2>1, <5>3
        <5>5. p <= Upto(k)
          <6> HIDE DEF before
          <6> QED BY <2>2, <5>1, <5>4, UptoIs
        <5> QED BY <1>2, <2>4, <5>5
      <4>10. Upto(nf - 1) \in Nat /\ Upto(nf) \in Nat /\ Upto(nf - 1) <= Upto(nf)
        <5> HIDE DEF p, before, ahead
        <5>1. nf \in 0 .. NofEntries - 1 BY <2>2, <4>6
        <5> QED BY <1>5, <5>1
      <4>11. StartAt(r) = Upto(nf - 1) BY <3>1, <4>10 DEF StartAt
      <4> QED BY <4>8, <4>9, <4>11
    <3> QED BY <3>5, <3>6 DEF r
  <2> QED BY <2>6, <2>7
<1> QED BY <1>7, <1>8, <1>9

\* FindStartIndex finds the first datum later than start, provided that some read has
\* gone before it.
LEMMA FindStartIndexIs ==
    ASSUME BranchOK, NEW index \in -1 .. NofEntries - 1, NEW start \in Int
    PROVE LET r == FindStartIndex(index, start)
          IN  /\ IsFound(r)
              /\ index > -1 /\ Settled(index) => StartAt(r) = Passed(start)
<1> DEFINE r == FindStartIndex(index, start)
           o == Opening(index)
           f == Forwards(o, start)
           ready == index > -1 /\ Settled(index)
<1>1. r = IF o.input = << >> THEN [fBranchIndex |-> NofEntries - 1, startIndex |-> -1]
          ELSE IF f.input = << >> THEN [fBranchIndex |-> f.index, startIndex |-> -1]
          ELSE Backwards(f, start)
  BY DEF FindStartIndex
<1>2. PICK i, a, b : IsPlace(o, i, a, b) /\ (ready => (InEntry(i, a, b) /\ a < b) \/ Len(times) = 0)
  BY OpeningIs
<1> HIDE DEF o
<1>3. /\ o.input = Run(a, b) /\ a \in Nat /\ b \in Nat /\ a <= b /\ b <= Len(times)
      /\ NofEntries \in Nat \ {0} /\ Len(times) \in Nat
  BY <1>2, BranchTypes DEF IsPlace
<1>4. o.input = << >> <=> a = b BY <1>3, RunProps
<1>5. Passed(start) \in 0 .. Len(times) /\ Passed(start) \in Nat BY PassedIs
\* Nothing was found: all data come before.
<1>6. ASSUME r = [fBranchIndex |-> NofEntries - 1, startIndex |-> -1],
             ready => Passed(start) = Len(times)
      PROVE IsFound(r) /\ (ready => StartAt(r) = Passed(start))
  <2> HIDE DEF r, ready
  <2>1. IsFound(r) BY <1>3, <1>6 DEF IsFound
  <2>2. StartAt(r) = Upto(NofEntries - 1) BY <1>6 DEF StartAt
  <2> QED BY <1>6, <2>1, <2>2, UptoEnds
<1>7. CASE a = b
  <2>1. r = [fBranchIndex |-> NofEntries - 1, startIndex |-> -1]
    <3> HIDE DEF r, f
    <3> QED BY <1>1, <1>4, <1>7
  <2>2. ready => Passed(start) = Len(times)
    <3>1. ASSUME ready PROVE Passed(start) = Len(times)
      <4>1. Len(times) = 0 BY <1>2, <1>3, <1>7, <3>1
      <4> QED BY <1>5, <4>1
    <3> QED BY <3>1
  <2> QED BY <1>6, <2>1, <2>2
<1>8. CASE a # b
  <2>1. a < b /\ (ready => InEntry(i, a, b))
    <3>1. a < b /\ Len(times) # 0 BY <1>3, <1>8
    <3> HIDE DEF ready
    <3> QED BY <1>2, <3>1
  <2>2. \/ /\ f = [index |-> NofEntries - 1, input |-> << >>]
           /\ InEntry(i, a, b) => Passed(start) = Len(times)
        \/ \E j, c, d : /\ IsPlace(f, j, c, d) /\ c < d /\ Passed(start) < d
                        /\ InEntry(i, a, b) => InEntry(j, c, d)
    BY <1>2, <2>1, ForwardsIs
  <2>3. CASE /\ f = [index |-> NofEntries - 1, input |-> << >>]
             /\ InEntry(i, a, b) => Passed(start) = Len(times)
    <3>1. r = [fBranchIndex |-> NofEntries - 1, startIndex |-> -1]
      <4> HIDE DEF r, f
      <4> QED BY <1>1, <1>4, <1>8, <2>3
    <3> QED BY <1>6, <2>1, <2>3, <3>1
  <2>4. CASE \E j, c, d : /\ IsPlace(f, j, c, d) /\ c < d /\ Passed(start) < d
                          /\ InEntry(i, a, b) => InEntry(j, c, d)
    <3> HIDE DEF f
    <3>1. PICK j, c, d : /\ IsPlace(f, j, c, d) /\ c < d /\ Passed(start) < d
                         /\ InEntry(i, a, b) => InEntry(j, c, d)
      BY <2>4
    <3>2. f.input # << >>
      <4>1. f.input = Run(c, d) /\ c \in Nat /\ d \in Nat /\ c <= d /\ c # d
        BY <3>1 DEF IsPlace
      <4> QED BY <4>1, RunProps
    <3>3. r = Backwards(f, start)
      <4> HIDE DEF r
      <4> QED BY <1>1, <1>4, <1>8, <3>2
    <3>4. /\ IsFound(Backwards(f, start))
          /\ InEntry(j, c, d) => StartAt(Backwards(f, start)) = Passed(start)
      BY <3>1, BackwardsIs
    <3> HIDE DEF r, ready
    <3> QED BY <2>1, <3>1, <3>3, <3>4 DEF r, ready
  <2> QED BY <2>2, <2>3, <2>4
<1> QED BY <1>7, <1>8

\* What GetData starts from when a start is given.
RangeFrom(r) ==
    LET entry == Entry(r.fBranchIndex)
    IN  [fBranchIndex |-> r.fBranchIndex,
         fBufferArray |-> IF r.startIndex > -1
                          THEN SubSeq(entry, r.startIndex + 1, Len(entry))
                          ELSE << >>,
         fOutputArray |-> << >>]

LEMMA RangeFromIs ==
    ASSUME BranchOK, NEW r, IsFound(r)
    PROVE BufferAt(RangeFrom(r), StartAt(r))
<1> DEFINE k == r.fBranchIndex
           s == r.startIndex
           a == Upto(k - 1)
           b == Upto(k)
           c == StartAt(r)
<1>1. k \in -1 .. NofEntries - 1 /\ k \in Int /\ k - 1 \in Int /\ s \in Int /\ s >= -1
  BY BranchTypes DEF IsFound
<1>2. a \in Nat /\ b \in Nat /\ a <= b /\ Entry(k) = Run(a, b)
  <2> HIDE DEF k
  <2> QED BY <1>1, UptoIs, EntryIs
<1>3. c = IF s = -1 \/ a + s > b THEN b ELSE a + s BY DEF StartAt
<1> HIDE DEF a, b, c, k, s
<1>4. Len(Run(a, b)) = b - a /\ Run(a, b) \in Seq(Nat) BY <1>2, RunProps
<1>5. c \in 0 .. b /\ c \in Nat /\ c <= b BY <1>1, <1>2, <1>3
<1>6. Run(c, b) \in Seq(Nat) BY <1>2, <1>5, RunProps
<1>7. << >> = Run(b, b) /\ << >> \in Seq(Nat) BY <1>2, RunProps
<1>8. (IF s > -1 THEN SubSeq(Entry(k), s + 1, Len(Entry(k))) ELSE << >>) = Run(c, b)
  <2>1. CASE s = -1 BY <1>3, <1>7, <2>1
  <2>2. CASE s > -1 /\ a + s > b
    <3>1. s + 1 \in Int /\ b - a \in Int /\ b - a < s + 1 BY <1>1, <1>2, <2>2
    <3>2. SubSeq(Run(a, b), s + 1, b - a) = << >> BY <3>1, SubSeqEmpty
    <3>3. c = b BY <1>3, <2>2
    <3>4. SubSeq(Entry(k), s + 1, Len(Entry(k))) = << >> BY <1>2, <1>4, <3>2
    <3> QED BY <1>7, <2>2, <3>3, <3>4
  <2>3. CASE s > -1 /\ ~(a + s > b)
    <3>1. s \in 0 .. b - a BY <1>1, <1>2, <2>3
    <3>2. SubSeq(Run(a, b), s + 1, b - a) = Run(a + s, b) BY <1>2, <3>1, RunSub
    <3>3. c = a + s BY <1>1, <1>3, <2>3
    <3>4. SubSeq(Entry(k), s + 1, Len(Entry(k))) = Run(c, b) BY <1>2, <1>4, <3>2, <3>3
    <3> QED BY <2>3, <3>4
  <2> QED BY <1>1, <2>1, <2>2, <2>3
<1>9. RangeFrom(r) = [fBranchIndex |-> k, fBufferArray |-> Run(c, b), fOutputArray |-> << >>]
  BY <1>8 DEF RangeFrom, k, s
<1>10. BufferAt(RangeFrom(r), c) BY <1>1, <1>5, <1>6, <1>7, <1>9 DEF BufferAt, b
<1> QED BY <1>10 DEF c

LEMMA GetDataRangeIs ==
    ASSUME BranchOK, NEW b, b.fBranchIndex \in -1 .. NofEntries - 1,
           NEW start \in Int, NEW stop \in Int
    PROVE \E c \in Nat :
              LET d == MovedTo(c, stop)
                  after == GetDataRange(b, start, stop)
              IN  /\ d \in Nat /\ c <= d /\ d <= Len(times)
                  /\ BufferAt(after, d)
                  /\ after.fOutputArray = Run(c, d)
                  /\ after.fBranchIndex > -1 /\ Settled(after.fBranchIndex)
                  /\ b.fBranchIndex > -1 /\ Settled(b.fBranchIndex) => c = Passed(start)
<1> DEFINE r == FindStartIndex(b.fBranchIndex, start)
           c == StartAt(r)
           d == MovedTo(c, stop)
           after == GetDataRange(b, start, stop)
<1>1. /\ IsFound(r)
      /\ b.fBranchIndex > -1 /\ Settled(b.fBranchIndex) => c = Passed(start)
  BY FindStartIndexIs
<1>2. after = GetData(RangeFrom(r), stop) BY DEF GetDataRange, RangeFrom
<1>3. RangeFrom(r).fOutputArray = << >> BY DEF RangeFrom
<1> HIDE DEF r
<1>4. BufferAt(RangeFrom(r), c) BY <1>1, RangeFromIs
<1> HIDE DEF c
<1>5. /\ c \in Nat /\ d \in Nat /\ c <= d /\ d <= Len(times)
      /\ BufferAt(GetData(RangeFrom(r), stop), d)
      /\ GetData(RangeFrom(r), stop).fOutputArray = RangeFrom(r).fOutputArray \o Run(c, d)
      /\ GetData(RangeFrom(r), stop).fBranchIndex > -1
      /\ Settled(GetData(RangeFrom(r), stop).fBranchIndex)
  BY <1>4, GetDataIs
<1> HIDE DEF d, after
<1>6. Run(c, d) \in Seq(Nat) BY <1>5, RunProps
<1>7. << >> \o Run(c, d) = Run(c, d) BY <1>6, ConcatEmptySeq
<1>8. /\ BufferAt(after, d) /\ after.fOutputArray = Run(c, d)
      /\ after.fBranchIndex > -1 /\ Settled(after.fBranchIndex)
  BY <1>2, <1>3, <1>5, <1>7
<1> QED BY <1>1, <1>5, <1>8 DEF d, after

-----------------------------------------------------------------------------
(* The inductive invariant. *)

\* The buffer holds the data from the cursor on that have been read, the output the
\* data before it.
CursorInv ==
    /\ BranchOK
    /\ BufferAt(tsBuffer, Cursor)
    /\ tsBuffer.fBranchIndex > -1 => Settled(tsBuffer.fBranchIndex)
    /\ request = << >> => tsBuffer.fOutputArray = << >>
    /\ request # << >> =>
          \E c \in Nat : c <= Cursor /\ tsBuffer.fOutputArray = Run(c, Cursor)

\* All entries have been read and all data handed out.
AllGiven == tsBuffer.fBranchIndex = NofEntries - 1 /\ tsBuffer.fBufferArray = << >>

\* How the counter of the stop function and the requests for one time are related when
\* the loop asks, and when it tests.
CountInv ==
    LET n == functor.fSameTimeRequestCounter
    IN  /\ pc \in {"test", "done"} => request = << >>
        /\ pc = "exec" /\ request = << >> =>
              /\ functor.fOldTime = functor.fRequestTime
              /\ \/ sameAsked = 0 /\ functor.fRequestTime = -1
                 \/ sameAsked \in 1 .. 10 /\ functor.fRequestTime = fTime /\ n = sameAsked - 1
        /\ pc = "test" \/ (pc = "exec" /\ request # << >>) =>
              \/ AllGiven
              \/ /\ functor.fRequestTime = fTime
                 /\ functor.fOldTime = fTime => sameAsked \in 2 .. 11 /\ n = sameAsked - 2
                 /\ functor.fOldTime # fTime => sameAsked = 1

FunctorType == functor \in [fRequestTime : Int, fOldTime : Int, fSameTimeRequestCounter : 0 .. 10]

ReadsInv == TypeOK /\ FunctorType /\ CursorInv /\ CountInv /\ EndsWhenProcessed

\* Where the cursor of a buffer object is.
LEMMA CursorOf ==
    ASSUME BranchOK, NEW b, NEW c, BufferAt(b, c)
    PROVE Upto(b.fBranchIndex) - Len(b.fBufferArray) = c /\ c \in Nat
<1>1. b.fBranchIndex \in Int BY BranchTypes DEF BufferAt
<1>2. Upto(b.fBranchIndex) \in Nat BY <1>1, UptoIs
<1>3. c \in Nat /\ c <= Upto(b.fBranchIndex) /\ b.fBufferArray = Run(c, Upto(b.fBranchIndex))
  BY <1>2 DEF BufferAt
<1>4. Len(b.fBufferArray) = Upto(b.fBranchIndex) - c BY <1>2, <1>3, RunProps
<1> QED BY <1>2, <1>3, <1>4

LEMMA CursorIs == Cursor = Upto(tsBuffer.fBranchIndex) - Len(tsBuffer.fBufferArray)
  BY DEF Cursor, DataRead, Upto

\* Every request leaves the buffer as the inductive invariant says.
LEMMA BufferAfter ==
    ASSUME BranchOK, UNCHANGED <<times, layout>>, request' # << >>, NEW d, NEW c \in Nat,
           BufferAt(tsBuffer', d), d \in Nat, c <= d, tsBuffer'.fOutputArray = Run(c, d),
           Settled(tsBuffer'.fBranchIndex)
    PROVE CursorInv' /\ Cursor' = d
<1>1. BranchOK' BY DEF BranchOK, Layouts, Data
<1>2. \A k : Upto(k)' = Upto(k) BY DEF Upto, Data
<1>3. Cursor' = Upto(tsBuffer'.fBranchIndex) - Len(tsBuffer'.fBufferArray)
  BY DEF Cursor, DataRead, Upto, Data
<1>4. Cursor' = d BY <1>3, CursorOf
<1>5. BufferAt(tsBuffer, Cursor)'
  <2>1. \A b, e : BufferAt(b, e)' <=> BufferAt(b, e) BY DEF BufferAt, Upto, Data
  <2> QED BY <1>4, <2>1
<1>6. Settled(tsBuffer.fBranchIndex)' BY DEF Settled, Upto, Data
<1>7. (\E e \in Nat : e <= Cursor /\ tsBuffer.fOutputArray = Run(e, Cursor))'
  BY <1>4
<1> QED BY <1>1, <1>4, <1>5, <1>6, <1>7 DEF CursorInv

LEMMA ReadsInit == Init => ReadsInv
<1> SUFFICES ASSUME Init PROVE ReadsInv OBVIOUS
<1> USE DEF Init
<1>1. /\ Limits \subseteq Nat /\ MaxTime \in Nat /\ NofEntries \in Nat \ {0} /\ BranchOK
  BY ReadsAssumption, EntriesAssumption DEF ReadsAssumption, EntriesAssumption, BranchOK
<1>2. TypeOK /\ FunctorType BY <1>1 DEF TypeOK, FunctorType, MaxAsked, EmptyTSBuffer
<1>3. BufferAt(tsBuffer, 0)
  <2>1. Upto(-1) = 0 BY <1>1, UptoEnds
  <2>2. Run(0, 0) = << >> /\ << >> \in Seq(Nat) BY RunProps
  <2> QED BY <1>1, <2>1, <2>2 DEF BufferAt, EmptyTSBuffer
<1>4. Cursor = 0 BY <1>1, <1>3, CursorOf, CursorIs
<1>5. CursorInv BY <1>1, <1>3, <1>4 DEF CursorInv, EmptyTSBuffer
<1>6. CountInv BY <1>1 DEF CountInv
<1>7. EndsWhenProcessed BY DEF EndsWhenProcessed
<1> QED BY <1>2, <1>5, <1>6, <1>7 DEF ReadsInv

\* What a request of the client leaves of the parts that are about the loop.
LEMMA ClientStep ==
    ASSUME ReadsInv, pc = "client", UNCHANGED <<times, layout, pc, loop>>,
           NEW r, request = << >>, request' = r, r # << >>,
           r \in {<<stop>> : stop \in Limits} \cup (Limits \X Limits),
           NEW d, NEW c \in Nat, BufferAt(tsBuffer', d), d \in Nat, c <= d,
           tsBuffer'.fOutputArray = Run(c, d), Settled(tsBuffer'.fBranchIndex)
    PROVE ReadsInv'
<1>1. CursorInv' /\ Cursor' = d BY BufferAfter DEF ReadsInv, CursorInv
<1>2. tsBuffer'.fBranchIndex \in -1 .. NofEntries - 1 BY DEF BufferAt
<1>3. TypeOK' BY <1>2 DEF ReadsInv, TypeOK, loop
<1>4. FunctorType' BY DEF ReadsInv, FunctorType, loop
<1>5. CountInv' BY DEF ReadsInv, CountInv, loop
<1>6. EndsWhenProcessed' BY DEF EndsWhenProcessed
<1> QED BY <1>1, <1>3, <1>4, <1>5, <1>6 DEF ReadsInv

LEMMA ReadToIs ==
    ASSUME ReadsInv, NEW stop \in Limits, ReadTo(stop)
    PROVE ReadsInv' /\ tsBuffer'.fOutputArray = Run(Cursor, MovedTo(Cursor, stop))
          /\ Cursor' = MovedTo(Cursor, stop)
<1> DEFINE c == Cursor
           d == MovedTo(c, stop)
<1>1. BranchOK /\ BufferAt(tsBuffer, c) /\ tsBuffer.fOutputArray = << >>
  BY DEF ReadsInv, CursorInv, ReadTo, Request
<1>2. stop \in Int BY ReadsAssumption DEF ReadsAssumption
<1>3. tsBuffer' = GetData(tsBuffer, stop) BY DEF ReadTo, Request
<1> HIDE DEF c
<1>4. /\ c \in Nat /\ d \in Nat /\ c <= d /\ BufferAt(tsBuffer', d)
      /\ tsBuffer'.fOutputArray = tsBuffer.fOutputArray \o Run(c, d)
      /\ Settled(tsBuffer'.fBranchIndex)
  BY <1>1, <1>2, <1>3, GetDataIs
<1> HIDE DEF d
<1>5. tsBuffer'.fOutputArray = Run(c, d)
  <2>1. Run(c, d) \in Seq(Nat) BY <1>4, RunProps
  <2> QED BY <1>1, <1>4, <2>1, ConcatEmptySeq
<1>6. /\ pc = "client" /\ request = << >> /\ request' = <<stop>>
      /\ UNCHANGED <<times, layout, pc, loop>>
  BY DEF ReadTo, Request
<1>7. <<stop>> # << >> BY EmptySeq
<1>8. ReadsInv' BY <1>4, <1>5, <1>6, <1>7, ClientStep
<1>9. Cursor' = d BY <1>1, <1>4, <1>5, <1>6, <1>7, BufferAfter
<1> QED BY <1>5, <1>8, <1>9 DEF c, d

LEMMA ReadRangeIs ==
    ASSUME ReadsInv, NEW start \in Limits, NEW stop \in Limits, ReadRange(start, stop)
    PROVE /\ ReadsInv'
          /\ ~OpensWithRange =>
                LET from == Passed(start)
                IN  /\ tsBuffer'.fOutputArray = Run(from, MovedTo(from, stop))
                    /\ Cursor' = MovedTo(from, stop)
<1>1. BranchOK /\ tsBuffer.fBranchIndex \in -1 .. NofEntries - 1
  BY DEF ReadsInv, CursorInv, TypeOK
<1>2. stop \in Int /\ start \in Int BY ReadsAssumption DEF ReadsAssumption
<1>3. tsBuffer' = GetDataRange(tsBuffer, start, stop) BY DEF ReadRange, Request
<1>4. PICK c \in Nat :
          LET d == MovedTo(c, stop)
          IN  /\ d \in Nat /\ c <= d /\ BufferAt(tsBuffer', d)
              /\ tsBuffer'.fOutputArray = Run(c, d) /\ Settled(tsBuffer'.fBranchIndex)
              /\ tsBuffer.fBranchIndex > -1 /\ Settled(tsBuffer.fBranchIndex) => c = Passed(start)
  BY <1>1, <1>2, <1>3, GetDataRangeIs
<1> DEFINE d == MovedTo(c, stop)
<1>5. /\ d \in Nat /\ c <= d /\ BufferAt(tsBuffer', d)
      /\ tsBuffer'.fOutputArray = Run(c, d) /\ Settled(tsBuffer'.fBranchIndex)
      /\ tsBuffer.fBranchIndex > -1 /\ Settled(tsBuffer.fBranchIndex) => c = Passed(start)
  BY <1>4
<1> HIDE DEF d
<1>6. /\ pc = "client" /\ request = << >> /\ request' = <<start, stop>>
      /\ UNCHANGED <<times, layout, pc, loop>>
      /\ OpensWithRange \/ tsBuffer.fBranchIndex > -1
  BY DEF ReadRange, Request
<1>7. <<start, stop>> # << >> /\ <<start, stop>> \in Limits \X Limits BY EmptySeq
<1>8. ReadsInv' BY <1>5, <1>6, <1>7, ClientStep
<1>9. Cursor' = d BY <1>1, <1>5, <1>6, <1>7, BufferAfter
<1>10. ~OpensWithRange => c = Passed(start) BY <1>5, <1>6 DEF ReadsInv, CursorInv
<1> QED BY <1>5, <1>8, <1>9, <1>10 DEF d

\* The stop function is not called only when all data have been handed out.
LEMMA NothingAhead ==
    ASSUME BranchOK, NEW b, NEW c, BufferAt(b, c), NEW stop \in Int, b.fBufferArray = << >>,
           ~ \E k \in b.fBranchIndex + 1 .. NofEntries - 1 : Filled(k)
    PROVE GetData(b, stop).fBranchIndex = NofEntries - 1 /\ GetData(b, stop).fBufferArray = << >>
<1> DEFINE bi == b.fBranchIndex
           d == MovedTo(c, stop)
           after == GetData(b, stop)
<1>1. /\ bi \in -1 .. NofEntries - 1 /\ bi \in Int /\ NofEntries - 1 \in Int /\ bi <= NofEntries - 1
      /\ NofEntries \in Nat \ {0}
  BY BranchTypes DEF BufferAt
<1>2. Upto(bi) = Len(times) /\ Len(times) \in Nat
  <2>1. Upto(bi) = Upto(NofEntries - 1)
    <3> HIDE DEF bi
    <3>1. \A q \in bi + 1 .. NofEntries - 1 : ~Filled(q) BY DEF bi
    <3> QED BY <1>1, <3>1, NoneFilled
  <2> QED BY <2>1, UptoEnds, BranchTypes
<1>3. c = Len(times)
  <2>1. c \in 0 .. Upto(bi) /\ Run(c, Upto(bi)) = << >> BY DEF BufferAt
  <2>2. c \in Nat /\ Upto(bi) \in Nat /\ c <= Upto(bi) BY <1>2, <2>1
  <2>3. c = Upto(bi)
    <3> HIDE DEF bi
    <3> QED BY <2>1, <2>2, RunProps
  <2> QED BY <1>2, <2>3
<1>4. PICK k \in 0 .. NofEntries - 1 :
          /\ ReadUpTo(b, stop) = [fBranchIndex |-> k, fBufferArray |-> Run(c, Upto(k)),
                                  fOutputArray |-> b.fOutputArray]
          /\ k = NofEntries - 1 \/ (c < Upto(k) /\ Passed(stop) < Upto(k))
  BY ReadUpToIs
<1>5. k \in Int /\ Upto(k) \in 0 .. Len(times)
  <2>1. k \in Int BY <1>1
  <2> QED BY <2>1, UptoIs
<1>6. k = NofEntries - 1 BY <1>2, <1>3, <1>4, <1>5
<1>7. after.fBranchIndex = NofEntries - 1 BY <1>4, <1>6 DEF GetData
<1>8. d \in Nat /\ c <= d /\ d <= Len(times) /\ BufferAt(after, d) BY GetDataIs
<1> HIDE DEF after, d
<1>9. d = Len(times) BY <1>2, <1>3, <1>8
<1>10. after.fBufferArray = Run(Len(times), Len(times)) BY <1>7, <1>8, <1>9, UptoEnds DEF BufferAt
<1>11. after.fBufferArray = << >> BY <1>2, <1>10, RunProps
<1> QED BY <1>7, <1>11 DEF after

LEMMA ExecIs ==
    ASSUME ReadsInv, Exec
    PROVE /\ ReadsInv'
          /\ \E time \in Limits : /\ request' = <<time>>
                                  /\ tsBuffer'.fOutputArray = Run(Cursor, MovedTo(Cursor, time))
                                  /\ Cursor' = MovedTo(Cursor, time)
<1>1. PICK step \in Steps :
          LET time == IF fTime + step < MaxTime THEN fTime + step ELSE MaxTime
          IN  /\ Request(<<time>>, GetData(tsBuffer, time))
              /\ functor' = Requested(tsBuffer, time)
              /\ fTime' = time
              /\ sameAsked' = IF time # fTime THEN 1
                              ELSE IF sameAsked < MaxAsked THEN sameAsked + 1 ELSE MaxAsked
  BY DEF Exec
<1> DEFINE time == IF fTime + step < MaxTime THEN fTime + step ELSE MaxTime
           c == Cursor
           d == MovedTo(c, time)
<1>2. time \in 0 .. MaxTime /\ time \in Limits /\ time \in Nat /\ time \in Int
  <2>1. step \in Nat /\ MaxTime \in Nat /\ 0 .. MaxTime \subseteq Limits
    BY ReadsAssumption DEF ReadsAssumption
  <2>2. fTime \in 0 .. MaxTime BY DEF ReadsInv, TypeOK
  <2> QED BY <2>1, <2>2
<1>3. /\ Request(<<time>>, GetData(tsBuffer, time))
      /\ functor' = Requested(tsBuffer, time)
      /\ fTime' = time
      /\ sameAsked' = IF time # fTime THEN 1
                      ELSE IF sameAsked < MaxAsked THEN sameAsked + 1 ELSE MaxAsked
  BY <1>1
<1> HIDE DEF time
<1>4. /\ request = << >> /\ request' = <<time>> /\ tsBuffer' = GetData(tsBuffer, time)
      /\ UNCHANGED <<times, layout, pc>>
  BY <1>3 DEF Request
<1>5. pc = "exec" BY DEF Exec
<1>6. BranchOK /\ BufferAt(tsBuffer, c) /\ tsBuffer.fOutputArray = << >>
  BY <1>4 DEF ReadsInv, CursorInv
<1> HIDE DEF c
<1>7. /\ c \in Nat /\ d \in Nat /\ c <= d /\ BufferAt(tsBuffer', d)
      /\ tsBuffer'.fOutputArray = tsBuffer.fOutputArray \o Run(c, d)
      /\ Settled(tsBuffer'.fBranchIndex)
  BY <1>2, <1>4, <1>6, GetDataIs
<1> HIDE DEF d
<1>8. tsBuffer'.fOutputArray = Run(c, d)
  <2>1. Run(c, d) \in Seq(Nat) BY <1>7, RunProps
  <2> QED BY <1>6, <1>7, <2>1, ConcatEmptySeq
<1>9. <<time>> # << >> BY EmptySeq
<1>10. CursorInv' /\ Cursor' = d BY <1>4, <1>6, <1>7, <1>8, <1>9, BufferAfter
<1>11. functor' = [functor EXCEPT !.fRequestTime = time] \/ (functor' = functor /\ AllGiven')
  <2>1. CASE tsBuffer.fBufferArray # << >>
             \/ (\E k \in tsBuffer.fBranchIndex + 1 .. NofEntries - 1 : Filled(k))
    BY <1>3, <2>1 DEF Requested
  <2>2. CASE ~(tsBuffer.fBufferArray # << >>
               \/ (\E k \in tsBuffer.fBranchIndex + 1 .. NofEntries - 1 : Filled(k)))
    <3>1. /\ GetData(tsBuffer, time).fBranchIndex = NofEntries - 1
          /\ GetData(tsBuffer, time).fBufferArray = << >>
      BY <1>2, <1>6, <2>2, NothingAhead
    <3>2. AllGiven' BY <1>4, <3>1 DEF AllGiven
    <3>3. functor' = functor BY <1>3, <2>2 DEF Requested
    <3> QED BY <3>2, <3>3
  <2> QED BY <2>1, <2>2
<1>12. FunctorType' BY <1>2, <1>11 DEF ReadsInv, FunctorType
<1>13. sameAsked \in 0 .. 11 /\ sameAsked' \in 0 .. 11
  BY <1>3 DEF ReadsInv, TypeOK, MaxAsked
<1>14. CountInv'
  <2>1. ASSUME functor' = [functor EXCEPT !.fRequestTime = time]
        PROVE /\ functor'.fRequestTime = fTime'
              /\ functor'.fOldTime = fTime' =>
                    sameAsked' \in 2 .. 11 /\ functor'.fSameTimeRequestCounter = sameAsked' - 2
              /\ functor'.fOldTime # fTime' => sameAsked' = 1
    <3>1. /\ functor'.fRequestTime = time /\ functor'.fOldTime = functor.fOldTime
          /\ functor'.fSameTimeRequestCounter = functor.fSameTimeRequestCounter
      BY <2>1 DEF ReadsInv, FunctorType
    <3>2. /\ functor.fOldTime = functor.fRequestTime
          /\ \/ sameAsked = 0 /\ functor.fRequestTime = -1
             \/ /\ sameAsked \in 1 .. 10 /\ functor.fRequestTime = fTime
                /\ functor.fSameTimeRequestCounter = sameAsked - 1
      BY <1>4, <1>5 DEF ReadsInv, CountInv
    <3>3. CASE sameAsked = 0 /\ functor.fRequestTime = -1
      <4>1. functor'.fOldTime # fTime' BY <1>2, <1>3, <3>1, <3>2, <3>3
      <4>2. sameAsked' = 1 BY <1>3, <3>3 DEF MaxAsked
      <4> QED BY <1>3, <3>1, <4>1, <4>2
    <3>4. CASE /\ sameAsked \in 1 .. 10 /\ functor.fRequestTime = fTime
               /\ functor.fSameTimeRequestCounter = sameAsked - 1
      <4>1. CASE time = fTime
        <5>1. sameAsked' = sameAsked + 1 BY <1>3, <3>4, <4>1 DEF MaxAsked
        <5> QED BY <1>3, <3>1, <3>2, <3>4, <4>1, <5>1
      <4>2. CASE time # fTime BY <1>3, <3>1, <3>2, <3>4, <4>2
      <4> QED BY <4>1, <4>2
    <3> QED BY <3>2, <3>3, <3>4
  <2>2. pc' = "exec" /\ request' # << >> BY <1>4, <1>5, <1>9
  <2> QED BY <1>11, <2>1, <2>2 DEF CountInv
<1>15. TypeOK'
  <2>1. tsBuffer'.fBranchIndex \in -1 .. NofEntries - 1 BY <1>7 DEF BufferAt
  <2>2. functor'.fSameTimeRequestCounter \in 0 .. 10 BY <1>12 DEF FunctorType
  <2>3. fTime' \in 0 .. MaxTime BY <1>2, <1>3
  <2> QED BY <1>2, <1>4, <1>5, <1>13, <2>1, <2>2, <2>3 DEF TypeOK, MaxAsked
<1>16. EndsWhenProcessed' BY <1>4, <1>5 DEF EndsWhenProcessed
<1>17. ReadsInv' BY <1>10, <1>12, <1>14, <1>15, <1>16 DEF ReadsInv
<1> QED BY <1>2, <1>4, <1>8, <1>10, <1>17 DEF c, d

\* A step that changes the buffer object only by emptying the output, or not at all.
LEMMA BufferStays ==
    ASSUME CursorInv, UNCHANGED <<times, layout>>, request' = << >>,
           tsBuffer' = [tsBuffer EXCEPT !.fOutputArray = << >>]
    PROVE CursorInv' /\ Cursor' = Cursor
<1>1. BranchOK' BY DEF CursorInv, BranchOK, Layouts, Data
<1>2. /\ tsBuffer' \in [fBranchIndex : -1 .. NofEntries - 1, fBufferArray : Seq(Nat),
                        fOutputArray : Seq(Nat)]
      /\ tsBuffer'.fBranchIndex = tsBuffer.fBranchIndex
      /\ tsBuffer'.fBufferArray = tsBuffer.fBufferArray
      /\ tsBuffer'.fOutputArray = << >>
  <2>1. tsBuffer \in [fBranchIndex : -1 .. NofEntries - 1, fBufferArray : Seq(Nat),
                      fOutputArray : Seq(Nat)]
    BY DEF CursorInv, BufferAt
  <2>2. << >> \in Seq(Nat) BY EmptySeq
  <2> QED BY <2>1, <2>2
<1>3. Cursor' = Cursor BY <1>2 DEF Cursor, DataRead, Data
<1>4. \A k : Upto(k)' = Upto(k) BY DEF Upto, Data
<1>5. BufferAt(tsBuffer, Cursor)'
  <2>1. BufferAt(tsBuffer, Cursor) BY DEF CursorInv
  <2>2. BufferAt(tsBuffer', Cursor) BY <1>2, <2>1 DEF BufferAt
  <2>3. \A b, e : BufferAt(b, e)' <=> BufferAt(b, e) BY DEF BufferAt, Upto, Data
  <2> QED BY <1>3, <2>2, <2>3
<1>6. (tsBuffer.fBranchIndex > -1 => Settled(tsBuffer.fBranchIndex))'
  BY <1>2 DEF CursorInv, Settled, Upto, Data
<1> QED BY <1>1, <1>2, <1>3, <1>5, <1>6 DEF CursorInv

LEMMA TakeDataIs ==
    ASSUME ReadsInv, TakeData
    PROVE ReadsInv' /\ Cursor' = Cursor
<1> USE DEF ReadsInv, TakeData
<1>1. CursorInv' /\ Cursor' = Cursor BY BufferStays
<1>2. tsBuffer'.fBranchIndex = tsBuffer.fBranchIndex /\ tsBuffer'.fBufferArray = tsBuffer.fBufferArray
  BY DEF CursorInv, BufferAt
<1>3. TypeOK' BY <1>2 DEF TypeOK, loop
<1>4. FunctorType' BY DEF FunctorType, loop
<1>5. pc \in {"client", "exec"} BY DEF CountInv, TypeOK
<1>6. CountInv'
  <2>1. AllGiven' <=> AllGiven BY <1>2 DEF AllGiven
  <2>2. CASE pc = "client" BY <2>2 DEF CountInv
  <2>3. CASE pc = "exec" BY <2>1, <2>3 DEF CountInv, loop
  <2> QED BY <1>5, <2>2, <2>3
<1>7. EndsWhenProcessed' BY <1>5 DEF EndsWhenProcessed
<1> QED BY <1>1, <1>3, <1>4, <1>6, <1>7

LEMMA TestLoopIs ==
    ASSUME ReadsInv, TestLoop
    PROVE ReadsInv' /\ Cursor' = Cursor /\ UNCHANGED <<times, request, tsBuffer>>
<1>0. /\ pc = "test" /\ UNCHANGED <<times, layout, fTime, tsBuffer, request, sameAsked>>
      /\ request = << >> /\ tsBuffer.fOutputArray = << >>
  BY DEF TestLoop, ReadsInv, CountInv, CursorInv
<1>1. tsBuffer = [tsBuffer EXCEPT !.fOutputArray = << >>]
  BY <1>0 DEF ReadsInv, CursorInv, BufferAt
<1>2. CursorInv' /\ Cursor' = Cursor BY <1>0, <1>1, BufferStays DEF ReadsInv
<1>3. ASSUME AllDataProcessed(tsBuffer) PROVE ReadsInv'
  <2>1. pc' = "done" /\ functor' = functor BY <1>3 DEF TestLoop
  <2>2. BranchOK /\ tsBuffer.fBranchIndex = NofEntries - 1 /\ tsBuffer.fBufferArray = << >>
    <3>1. NofEntries \in Nat \ {0} BY EntriesAssumption DEF EntriesAssumption
    <3> QED BY <1>3, <3>1 DEF AllDataProcessed, ReadsInv, TypeOK, CursorInv
  <2>3. Cursor = Len(times)
    <3>1. Len(tsBuffer.fBufferArray) = 0 BY <2>2, EmptySeq
    <3> QED BY <2>2, <3>1, CursorIs, UptoEnds, BranchTypes
  <2>4. EndsWhenProcessed' BY <1>0, <1>2, <2>3 DEF EndsWhenProcessed
  <2>5. TypeOK' /\ FunctorType' BY <1>0, <2>1 DEF ReadsInv, TypeOK, FunctorType
  <2>6. CountInv' BY <1>0, <2>1 DEF CountInv
  <2> QED BY <1>2, <2>4, <2>5, <2>6 DEF ReadsInv
<1>4. ASSUME ~AllDataProcessed(tsBuffer) PROVE ReadsInv'
  <2>1. functor' = TimeOut(functor) /\ pc' = IF TimedOut(functor') THEN "done" ELSE "exec"
    BY <1>4 DEF TestLoop
  <2>2. ~AllGiven
    <3>1. NofEntries \in Nat \ {0} BY EntriesAssumption DEF EntriesAssumption
    <3> QED BY <1>0, <1>4, <3>1 DEF AllDataProcessed, AllGiven
  <2>3. /\ functor.fRequestTime = fTime
        /\ functor.fOldTime = fTime =>
              sameAsked \in 2 .. 11 /\ functor.fSameTimeRequestCounter = sameAsked - 2
        /\ functor.fOldTime # fTime => sameAsked = 1
    BY <1>0, <2>2 DEF ReadsInv, CountInv
  <2>4. functor \in [fRequestTime : Int, fOldTime : Int, fSameTimeRequestCounter : 0 .. 10]
    BY DEF ReadsInv, FunctorType
  <2>5. /\ functor' \in [fRequestTime : Int, fOldTime : Int, fSameTimeRequestCounter : 0 .. 10]
        /\ functor'.fRequestTime = fTime /\ functor'.fOldTime = fTime
        /\ sameAsked \in 1 .. 11 /\ functor'.fSameTimeRequestCounter = sameAsked - 1
    <3>1. CASE functor.fOldTime = fTime
      <4>1. functor' = [functor EXCEPT !.fSameTimeRequestCounter = @ + 1]
        BY <2>1, <2>3, <3>1 DEF TimeOut
      <4> QED BY <2>3, <2>4, <3>1, <4>1
    <3>2. CASE functor.fOldTime # fTime
      <4>1. functor' = [functor EXCEPT !.fOldTime = functor.fRequestTime, !.fSameTimeRequestCounter = 0]
        BY <2>1, <2>3, <3>2 DEF TimeOut
      <4>2. /\ functor'.fRequestTime = fTime /\ functor'.fOldTime = fTime
            /\ functor'.fSameTimeRequestCounter = 0
        BY <2>3, <2>4, <4>1
      <4>3. functor' \in [fRequestTime : Int, fOldTime : Int, fSameTimeRequestCounter : 0 .. 10]
        <5>1. functor' = [fRequestTime |-> functor.fRequestTime, fOldTime |-> functor.fRequestTime,
                          fSameTimeRequestCounter |-> 0]
          BY <2>4, <4>1
        <5>2. functor.fRequestTime \in Int BY <2>4
        <5> QED BY <5>1, <5>2
      <4>4. sameAsked = 1 BY <2>3, <3>2
      <4> QED BY <4>2, <4>3, <4>4
    <3> QED BY <3>1, <3>2
  <2>6. \/ pc' = "done" /\ sameAsked = 11
        \/ pc' = "exec" /\ sameAsked \in 1 .. 10
    BY <2>1, <2>5 DEF TimedOut
  <2>7. TypeOK' /\ FunctorType'
    BY <1>0, <2>5, <2>6 DEF ReadsInv, TypeOK, FunctorType, MaxAsked
  <2>8. CountInv' BY <1>0, <2>5, <2>6 DEF CountInv
  <2>9. EndsWhenProcessed' BY <1>0, <2>6 DEF EndsWhenProcessed
  <2> QED BY <1>2, <2>7, <2>8, <2>9 DEF ReadsInv
<1> QED BY <1>0, <1>2, <1>3, <1>4

-----------------------------------------------------------------------------
(* The theorems. *)

\* The inductive invariant holds in every behaviour.
THEOREM ReadsInvariant == Spec => []ReadsInv
<1>1. Init => ReadsInv BY ReadsInit
<1>2. ReadsInv /\ [Next]_vars => ReadsInv'
  <2> SUFFICES ASSUME ReadsInv, [Next]_vars PROVE ReadsInv' OBVIOUS
  <2>1. ASSUME NEW stop \in Limits, ReadTo(stop) PROVE ReadsInv' BY <2>1, ReadToIs
  <2>2. ASSUME NEW start \in Limits, NEW stop \in Limits, ReadRange(start, stop) PROVE ReadsInv'
    BY <2>2, ReadRangeIs
  <2>3. CASE Exec BY <2>3, ExecIs
  <2>4. CASE TakeData BY <2>4, TakeDataIs
  <2>5. CASE TestLoop BY <2>5, TestLoopIs
  <2>6. CASE UNCHANGED vars
    <3>1. Cursor' = Cursor BY <2>6 DEF vars, Cursor, DataRead, Data
    <3>2. /\ BranchOK' <=> BranchOK
          /\ \A k : Upto(k)' = Upto(k)
      BY <2>6 DEF vars, BranchOK, Layouts, Data, Upto
    <3>3. CursorInv'
      <4>1. BufferAt(tsBuffer, Cursor)' <=> BufferAt(tsBuffer, Cursor)
        BY <2>6, <3>1, <3>2 DEF vars, BufferAt
      <4>2. Settled(tsBuffer.fBranchIndex)' <=> Settled(tsBuffer.fBranchIndex)
        BY <2>6, <3>2 DEF vars, Settled
      <4> QED BY <2>6, <3>1, <3>2, <4>1, <4>2 DEF vars, ReadsInv, CursorInv
    <3>4. TypeOK' /\ FunctorType' BY <2>6 DEF vars, loop, ReadsInv, TypeOK, FunctorType
    <3>5. CountInv' BY <2>6 DEF vars, loop, ReadsInv, CountInv, AllGiven
    <3>6. EndsWhenProcessed' BY <2>6, <3>1 DEF vars, loop, ReadsInv, EndsWhenProcessed
    <3> QED BY <3>3, <3>4, <3>5, <3>6 DEF ReadsInv
  <2> QED BY <2>1, <2>2, <2>3, <2>4, <2>5, <2>6 DEF Next
<1> QED BY <1>1, <1>2, PTL DEF Spec

\* However the data are cut into entries and whatever is asked for, buffer and output
\* are runs of consecutive data and the buffer ends with the last datum of the entries
\* read: nothing is skipped (GetData, FindStartIndex).
THEOREM BufferEndsAtIndex == Spec => []BufferEndsAtBranchIndex
<1>1. ReadsInv => BufferEndsAtBranchIndex
  <2> SUFFICES ASSUME ReadsInv PROVE BufferEndsAtBranchIndex OBVIOUS
  <2> DEFINE u == Upto(tsBuffer.fBranchIndex)
             c == Cursor
  <2>1. BranchOK /\ BufferAt(tsBuffer, c) BY DEF ReadsInv, CursorInv
  <2>2. /\ tsBuffer.fBranchIndex \in Int /\ c \in 0 .. u
        /\ tsBuffer.fBufferArray = Run(c, u)
    BY <2>1, BranchTypes DEF BufferAt
  <2>3. /\ u \in Nat /\ u <= Len(times) /\ Len(times) \in Nat /\ Data = 1 .. Len(times)
        /\ DataRead = 1 .. u
    <3>1. u \in 0 .. Len(times) /\ u \in Nat /\ DataRead = 1 .. u
      BY <2>1, <2>2, UptoIs DEF DataRead
    <3> QED BY <2>1, <3>1, BranchTypes
  <2> HIDE DEF u
  <2>4. c \in Nat /\ c <= u BY <2>2, <2>3
  <2>5. \E a, b \in Nat : a <= b /\ b <= Len(times) /\ tsBuffer.fOutputArray = Run(a, b)
    <3>1. CASE request = << >>
      <4>1. tsBuffer.fOutputArray = << >> BY <3>1 DEF ReadsInv, CursorInv
      <4>2. Run(0, 0) = << >> BY RunProps
      <4>3. 0 \in Nat /\ 0 <= 0 /\ 0 <= Len(times) BY <2>3
      <4>4. tsBuffer.fOutputArray = Run(0, 0) BY <4>1, <4>2, Zenon
      <4> QED BY <4>3, <4>4, Zenon
    <3>2. CASE request # << >>
      <4>1. \E a \in Nat : a <= c /\ tsBuffer.fOutputArray = Run(a, c)
        BY <3>2 DEF ReadsInv, CursorInv
      <4> QED BY <2>3, <2>4, <4>1
    <3> QED BY <3>1, <3>2
  <2> HIDE DEF c
  <2>6. ASSUME NEW a \in Nat, NEW b \in Nat, a <= b, b <= Len(times), NEW i \in DOMAIN Run(a, b)
        PROVE Run(a, b)[i] \in Data /\ Run(a, b)[i] = Run(a, b)[1] + i - 1
    <3>1. i \in 1 .. b - a /\ \A j \in 1 .. b - a : Run(a, b)[j] = a + j BY DEF Run
    <3>2. 1 \in 1 .. b - a BY <3>1
    <3> QED BY <2>3, <2>6, <3>1, <3>2
  <2>7. ASSUME NEW array \in {tsBuffer.fBufferArray, tsBuffer.fOutputArray}, NEW i \in DOMAIN array
        PROVE array[i] \in Data /\ array[i] = array[1] + i - 1
    <3>1. \E a, b \in Nat : a <= b /\ b <= Len(times) /\ array = Run(a, b)
      BY <2>2, <2>3, <2>4, <2>5
    <3> QED BY <2>6, <3>1
  <2>8. ASSUME tsBuffer.fBufferArray # << >>
        PROVE /\ Last(tsBuffer.fBufferArray) \in DataRead
              /\ \A n \in DataRead : n <= Last(tsBuffer.fBufferArray)
    <3>1. c # u BY <2>2, <2>3, <2>4, <2>8, RunProps
    <3>2. Len(Run(c, u)) = u - c /\ u - c \in 1 .. u - c BY <2>3, <2>4, <3>1, RunProps
    <3>3. Run(c, u)[u - c] = u BY <2>3, <2>4, <3>2 DEF Run
    <3>4. Last(tsBuffer.fBufferArray) = u BY <2>2, <3>2, <3>3 DEF Last
    <3> QED BY <2>3, <2>4, <3>1, <3>4
  <2>9. TypeOK BY DEF ReadsInv
  <2> QED BY <2>7, <2>8, <2>9 DEF BufferEndsAtBranchIndex
<1> QED BY <1>1, ReadsInvariant, PTL

\* The loop stops with data left only for a task that asked for one time more than ten
\* times in a row (StopTime::TimeOut, AllDataProcessed).
THEOREM EndsProcessed == Spec => []EndsWhenProcessed
<1>1. ReadsInv => EndsWhenProcessed BY DEF ReadsInv
<1> QED BY <1>1, ReadsInvariant, PTL

\* If no request for a window comes first, the buffer over any entries gives exactly
\* what a cursor over the data gives for the same requests: the refinement.
THEOREM ReadsAsCursor ==
    ASSUME OpensWithRange = FALSE
    PROVE Spec => ReadsLikeCursor
<1>1. Init => Promise!Init
  <2> SUFFICES ASSUME Init PROVE Promise!Init OBVIOUS
  <2>1. Cursor = 0
    <3>1. BranchOK /\ tsBuffer = EmptyTSBuffer BY DEF Init, BranchOK
    <3>2. Upto(-1) = 0 /\ Len(<< >>) = 0 BY <3>1, UptoEnds, EmptySeq
    <3> QED BY <3>1, <3>2, CursorIs DEF EmptyTSBuffer
  <2> QED BY <2>1 DEF Init, Promise!Init, EmptyTSBuffer
<1>2. ReadsInv /\ [Next]_vars => [Promise!Next]_Promise!vars
  <2> SUFFICES ASSUME ReadsInv, [Next]_vars PROVE [Promise!Next]_Promise!vars OBVIOUS
  <2>1. ASSUME NEW stop \in Limits, ReadTo(stop) PROVE Promise!ReadTo(stop)
    <3>1. /\ tsBuffer'.fOutputArray = Run(Cursor, MovedTo(Cursor, stop))
          /\ Cursor' = MovedTo(Cursor, stop)
      BY <2>1, ReadToIs
    <3>2. request = << >> /\ request' = <<stop>> /\ times' = times
      BY <2>1 DEF ReadTo, Request
    <3> QED BY <3>1, <3>2 DEF Promise!ReadTo, Promise!Give, Run, MovedTo, Passed
  <2>2. ASSUME NEW start \in Limits, NEW stop \in Limits, ReadRange(start, stop)
        PROVE Promise!ReadRange(start, stop)
    <3>1. /\ tsBuffer'.fOutputArray = Run(Passed(start), MovedTo(Passed(start), stop))
          /\ Cursor' = MovedTo(Passed(start), stop)
      BY <2>2, ReadRangeIs
    <3>2. request = << >> /\ request' = <<start, stop>> /\ times' = times
      BY <2>2 DEF ReadRange, Request
    <3> QED BY <3>1, <3>2 DEF Promise!ReadRange, Promise!Give, Run, MovedTo, Passed
  <2>3. ASSUME Exec PROVE \E time \in Limits : Promise!ReadTo(time)
    <3>1. PICK time \in Limits : /\ request' = <<time>>
                                 /\ tsBuffer'.fOutputArray = Run(Cursor, MovedTo(Cursor, time))
                                 /\ Cursor' = MovedTo(Cursor, time)
      BY <2>3, ExecIs
    <3>2. request = << >> /\ times' = times BY <2>3 DEF Exec, Request
    <3>3. Promise!ReadTo(time)
      BY <3>1, <3>2 DEF Promise!ReadTo, Promise!Give, Run, MovedTo, Passed
    <3> QED BY <3>3
  <2>4. ASSUME TakeData PROVE Promise!Take
    <3>1. Cursor' = Cursor BY <2>4, TakeDataIs
    <3>2. tsBuffer'.fOutputArray = << >>
      BY <2>4 DEF TakeData, ReadsInv, CursorInv, BufferAt
    <3> QED BY <2>4, <3>1, <3>2 DEF TakeData, Promise!Take
  <2>5. CASE TestLoop
    <3>1. Cursor' = Cursor /\ UNCHANGED <<times, request, tsBuffer>> BY <2>5, TestLoopIs
    <3> QED BY <3>1 DEF Promise!vars
  <2>6. CASE UNCHANGED vars
    <3>1. Cursor' = Cursor BY <2>6 DEF vars, Cursor, DataRead, Data
    <3> QED BY <2>6, <3>1 DEF vars, Promise!vars
  <2>7. Next \/ UNCHANGED vars OBVIOUS
  <2> QED BY <2>1, <2>2, <2>3, <2>4, <2>5, <2>6, <2>7 DEF Next, Promise!Next
<1> QED BY <1>1, <1>2, ReadsInvariant, PTL DEF Spec, ReadsLikeCursor, Promise!Spec

-----------------------------------------------------------------------------
(* Simulated events: the operations of the stack. *)

\* A particle as far as the stack needs it.
Particles == [mother : Int, hard : BOOLEAN]

\* The stacks that differ from s in the particles they have and in the secondaries that
\* were pushed.
StacksFrom(s) ==
    [parts : Seq(Particles), lifo : Seq(Nat), current : {s.current}, moved : {s.moved},
     points : {s.points}, index : Int, first : Int, n : Nat, options : {s.options}]

\* A stack, whose list of tracks to be done holds its own particles.
IsStack(s) ==
    s \in StacksFrom(s) /\ s.current \in Int /\ s.lifo \in Seq(1 .. NParticles(s))

\* What is pushed is a new particle and changes nothing else.
LEMMA PushedIs ==
    ASSUME NEW s, IsStack(s), NEW done \in BOOLEAN, NEW parent \in Int, NEW hard \in BOOLEAN
    PROVE LET p == Pushed(s, done, parent, hard) IN
          /\ p \in StacksFrom(s) /\ IsStack(p)
          /\ p.parts = Append(s.parts, [mother |-> parent, hard |-> hard])
          /\ p.lifo = IF done THEN Append(s.lifo, NParticles(s) + 1) ELSE s.lifo
          /\ p.index = s.index /\ p.first = s.first /\ p.n = s.n
<1> DEFINE x == [mother |-> parent, hard |-> hard]
<1>1. x \in Particles BY DEF Particles
<1>2. s.parts \in Seq(Particles) /\ s.lifo \in Seq(Nat) BY DEF IsStack, StacksFrom
<1> HIDE DEF x
<1>3. Append(s.parts, x) \in Seq(Particles) BY <1>1, <1>2
<1>4. NParticles(s) + 1 \in Nat BY <1>2 DEF NParticles
<1>5. PICK l \in Seq(Nat) : l = IF done THEN Append(s.lifo, NParticles(s) + 1) ELSE s.lifo
  <2>1. Append(s.lifo, NParticles(s) + 1) \in Seq(Nat) BY <1>2, <1>4
  <2> QED BY <1>2, <2>1, Zenon
<1>6. PICK ps \in Seq(Particles) : ps = Append(s.parts, x) BY <1>3
<1>7. Pushed(s, done, parent, hard) = [s EXCEPT !.parts = ps, !.lifo = l]
  BY <1>5, <1>6 DEF Pushed, x
<1>8. PICK p : p = [s EXCEPT !.parts = ps, !.lifo = l] OBVIOUS
<1>9. /\ p \in StacksFrom(s) /\ p.parts = ps /\ p.lifo = l
      /\ p.index = s.index /\ p.first = s.first /\ p.n = s.n
      /\ p.current = s.current /\ p.moved = s.moved /\ p.points = s.points /\ p.options = s.options
  BY <1>8 DEF IsStack, StacksFrom
<1>10. StacksFrom(p) = StacksFrom(s) BY <1>9 DEF StacksFrom
<1>11. l \in Seq(1 .. NParticles(p))
  <2>1. PICK n \in Nat : n = NParticles(s) BY <1>2 DEF NParticles
  <2>2. NParticles(p) = n + 1 BY <1>1, <1>2, <1>6, <1>9, <2>1 DEF NParticles
  <2>3. s.lifo \in Seq(1 .. n) BY <2>1 DEF IsStack
  <2>4. s.lifo \in Seq(1 .. n + 1) /\ n + 1 \in 1 .. n + 1 BY <2>1, <2>3
  <2>5. Append(s.lifo, n + 1) \in Seq(1 .. n + 1) BY <2>4
  <2> QED BY <1>5, <2>1, <2>2, <2>4, <2>5, Zenon
<1>12. IsStack(p) BY <1>9, <1>10, <1>11 DEF IsStack
<1> QED BY <1>5, <1>6, <1>7, <1>8, <1>9, <1>12 DEF x

\* So is a secondary of fast simulation, but for the indices.
LEMMA SecondaryIs ==
    ASSUME NEW s, IsStack(s), NEW parent \in Int
    PROVE LET p == FastSimPushSecondary(s, parent, TRUE) IN
          /\ p \in StacksFrom(s) /\ IsStack(p)
          /\ p.parts = Append(s.parts, [mother |-> parent, hard |-> TRUE])
          /\ p.lifo = Append(s.lifo, NParticles(s) + 1)
          /\ p.index = s.index /\ p.n = s.n + 1
          /\ p.first = IF s.n = 0 THEN NParticles(s) + 1 ELSE s.first
<1>1. PICK q : q = Pushed(s, TRUE, parent, TRUE) OBVIOUS
<1>2. /\ q \in StacksFrom(s) /\ IsStack(q)
      /\ q.parts = Append(s.parts, [mother |-> parent, hard |-> TRUE])
      /\ q.lifo = Append(s.lifo, NParticles(s) + 1)
      /\ q.index = s.index /\ q.first = s.first /\ q.n = s.n
  BY <1>1, PushedIs
<1>3. s.parts \in Seq(Particles) /\ s.n \in Nat /\ s.first \in Int BY DEF IsStack, StacksFrom
<1>4. NParticles(q) = NParticles(s) + 1 /\ NParticles(s) \in Nat
  <2>1. [mother |-> parent, hard |-> TRUE] \in Particles BY DEF Particles
  <2> QED BY <1>2, <1>3, <2>1 DEF NParticles
<1>5. PICK f \in Int : f = IF s.n = 0 THEN NParticles(s) + 1 ELSE s.first BY <1>3, <1>4
<1>6. PICK p : p = [q EXCEPT !.first = f, !.n = s.n + 1] OBVIOUS
<1>7. FastSimPushSecondary(s, parent, TRUE) = p
  BY <1>1, <1>2, <1>4, <1>5, <1>6 DEF FastSimPushSecondary, IsStack, StacksFrom
<1>8. /\ p \in StacksFrom(s) /\ p.parts = q.parts /\ p.lifo = q.lifo
      /\ p.index = q.index /\ p.first = f /\ p.n = s.n + 1
      /\ p.current = s.current /\ p.moved = s.moved /\ p.points = s.points /\ p.options = s.options
  <2>1. s.n + 1 \in Nat BY <1>3
  <2>2. PICK m \in Nat : m = s.n + 1 BY <2>1
  <2>3. p = [q EXCEPT !.first = f, !.n = m] BY <1>6, <2>2
  <2>4. q \in StacksFrom(s) BY <1>2
  <2>5. p \in StacksFrom(s) BY <2>3, <2>4 DEF StacksFrom
  <2>6. p.parts = q.parts /\ p.lifo = q.lifo /\ p.index = q.index /\ p.first = f /\ p.n = m
    BY <2>3, <2>4 DEF StacksFrom
  <2>7. /\ p.current = s.current /\ p.moved = s.moved /\ p.points = s.points
        /\ p.options = s.options
    BY <2>5 DEF StacksFrom
  <2> QED BY <2>2, <2>5, <2>6, <2>7
<1>9. StacksFrom(p) = StacksFrom(s) BY <1>8 DEF StacksFrom
<1>10. NParticles(p) = NParticles(q) BY <1>8 DEF NParticles
<1>11. IsStack(p) BY <1>2, <1>8, <1>9, <1>10 DEF IsStack
<1> QED BY <1>2, <1>5, <1>7, <1>8, <1>11

\* The primaries of an event on an empty stack.
LEMMA AddedIs ==
    ASSUME NEW s, IsStack(s), s.parts = << >>, NEW ps \in Seq([track : BOOLEAN, hard : BOOLEAN])
    PROVE /\ Added(s, ps) \in StacksFrom(s) /\ IsStack(Added(s, ps))
          /\ Added(s, ps).n = s.n /\ Added(s, ps).index = s.index /\ Added(s, ps).first = s.first
          /\ NParticles(Added(s, ps)) = Len(ps)
          /\ \A i \in 1 .. Len(ps) : Added(s, ps).parts[i].mother = NoTrack
<1>1. \A m \in DOMAIN ps : ps[m] \in [track : BOOLEAN, hard : BOOLEAN]
  <2>1. PICK R : R = [track : BOOLEAN, hard : BOOLEAN] OBVIOUS
  <2>2. ps \in Seq(R) BY <2>1
  <2>3. \A m \in DOMAIN ps : ps[m] \in R BY <2>2
  <2> QED BY <2>1, <2>3
<1>2. PICK n \in Nat : n = Len(ps) /\ DOMAIN ps = 1 .. n OBVIOUS
<1> DEFINE Round(x, m) == Pushed(x, ps[m].track, NoTrack, ps[m].hard)
           Body(g, m) == IF m = 0 THEN s ELSE Round(g[m - 1], m)
           Unfolds(g) == g = [m \in 0 .. n |-> Body(g, m)]
           P == {x \in StacksFrom(s) : IsStack(x)}
           step == [m \in 1 .. n |-> [x \in P |-> Round(x, m)]]
<1>3. ASSUME NEW m \in 1 .. n, NEW x \in P
      PROVE /\ Round(x, m) \in P
            /\ Round(x, m).parts = Append(x.parts, [mother |-> NoTrack, hard |-> ps[m].hard])
            /\ Round(x, m).index = x.index /\ Round(x, m).first = x.first /\ Round(x, m).n = x.n
  <2>1. ps[m].track \in BOOLEAN /\ ps[m].hard \in BOOLEAN /\ NoTrack \in Int
    <3>1. ps[m] \in [track : BOOLEAN, hard : BOOLEAN] BY <1>1, <1>2
    <3>2. NoTrack \in Int BY DEF NoTrack
    <3> QED BY <3>1, <3>2
  <2>2. IsStack(x) /\ x \in StacksFrom(s) OBVIOUS
  <2>3. StacksFrom(x) = StacksFrom(s) BY <2>2 DEF StacksFrom
  <2>4. PICK p : p = Round(x, m) OBVIOUS
  <2>5. /\ p \in StacksFrom(x) /\ IsStack(p)
        /\ p.parts = Append(x.parts, [mother |-> NoTrack, hard |-> ps[m].hard])
        /\ p.index = x.index /\ p.first = x.first /\ p.n = x.n
    BY <2>1, <2>2, <2>4, PushedIs
  <2> QED BY <2>3, <2>4, <2>5
<1>4. s \in P BY DEF IsStack
<1>5. Added(s, ps) = (CHOOSE g : Unfolds(g))[n] BY <1>2 DEF Added
<1>6. \E g : Unfolds(g)
  <2> HIDE DEF P, Round
  <2>1. step \in [1 .. n -> [P -> P]] BY <1>3
  <2>2. PICK t : t = step OBVIOUS
  <2>3. \A m \in 1 .. n, x \in P : t[m][x] = Round(x, m) BY <2>2
  <2> HIDE DEF step
  <2>4. PICK g \in [0 .. n -> P] : g[0] = s /\ \A k \in 1 .. n : g[k] = t[k][g[k - 1]]
    <3>1. t \in [1 .. n -> [P -> P]] BY <2>1, <2>2
    <3>2. \E g : IsLoop(g, n, P, s, t) BY <1>4, <3>1, RecursionExists
    <3> QED BY <3>2 DEF IsLoop
  <2>5. \A k \in 0 .. n : g[k] = Body(g, k)
    <3> TAKE k \in 0 .. n
    <3>1. CASE k = 0 BY <2>4, <3>1
    <3>2. CASE k # 0
      <4>1. k \in 1 .. n /\ k - 1 \in 0 .. n BY <3>2
      <4> QED BY <2>3, <2>4, <3>2, <4>1
    <3> QED BY <3>1, <3>2
  <2>6. Unfolds(g)
    <3> HIDE DEF Body
    <3> QED BY <2>5
  <2> HIDE DEF Unfolds
  <2> QED BY <2>6
<1>7. PICK g : Unfolds(g) /\ Added(s, ps) = g[n]
  <2> HIDE DEF Unfolds
  <2> QED BY <1>5, <1>6
<1>8. \A m \in 0 .. n : g[m] = Body(g, m)
  <2> HIDE DEF Body
  <2> QED BY <1>7
<1>9. g[0] = s BY <1>8
<1>10. ASSUME NEW m \in 0 .. n - 1 PROVE g[m + 1] = Round(g[m], m + 1)
  <2>1. m + 1 \in 0 .. n /\ m + 1 # 0 /\ (m + 1) - 1 = m OBVIOUS
  <2> HIDE DEF Round
  <2> QED BY <1>8, <2>1
<1> DEFINE Good(m) == /\ g[m] \in P /\ g[m].n = s.n /\ g[m].index = s.index /\ g[m].first = s.first
                      /\ Len(g[m].parts) = m
                      /\ \A i \in 1 .. m : g[m].parts[i].mother = NoTrack
           T == {m \in 0 .. n : Good(m)}
<1>11. 0 \in T
  <2>1. Len(g[0].parts) = 0 BY <1>9
  <2> HIDE DEF P
  <2> QED BY <1>4, <1>9, <2>1
<1>12. ASSUME NEW m \in 0 .. n - 1, m \in T PROVE m + 1 \in T
  <2>1. m + 1 \in 1 .. n /\ m + 1 \in 0 .. n /\ g[m] \in P BY <1>12
  <2>2. PICK x, y : x \in P /\ x = g[m] /\ y = g[m + 1] /\ y = Round(x, m + 1)
    <3> HIDE DEF P, Round
    <3> QED BY <1>10, <2>1
  <2>3. PICK e : e = [mother |-> NoTrack, hard |-> ps[m + 1].hard] OBVIOUS
  <2>4. y \in P /\ y.parts = Append(x.parts, e) /\ y.index = x.index /\ y.first = x.first /\ y.n = x.n
    <3> HIDE DEF P, Round
    <3> QED BY <1>3, <2>1, <2>2, <2>3
  <2>5. x.parts \in Seq(Particles) /\ Len(x.parts) = m BY <1>12, <2>2 DEF StacksFrom
  <2>6. e \in Particles
    <3>1. ps[m + 1] \in [track : BOOLEAN, hard : BOOLEAN] BY <1>1, <1>2, <2>1
    <3>2. NoTrack \in Int BY DEF NoTrack
    <3>3. ps[m + 1].hard \in BOOLEAN BY <3>1
    <3> QED BY <2>3, <3>2, <3>3 DEF Particles
  <2>7. /\ Len(y.parts) = m + 1 /\ y.parts[m + 1] = e
        /\ \A i \in 1 .. m : y.parts[i] = x.parts[i]
    BY <2>4, <2>5, <2>6
  <2>8. \A i \in 1 .. m + 1 : y.parts[i].mother = NoTrack
    <3> TAKE i \in 1 .. m + 1
    <3>1. CASE i = m + 1 BY <2>3, <2>7, <3>1
    <3>2. CASE i # m + 1
      <4>1. i \in 1 .. m BY <3>2
      <4>2. x.parts[i].mother = NoTrack BY <1>12, <2>2, <4>1
      <4> QED BY <2>7, <4>1, <4>2
    <3> QED BY <3>1, <3>2
  <2>9. x.n = s.n /\ x.index = s.index /\ x.first = s.first BY <1>12, <2>2
  <2> HIDE DEF P
  <2> QED BY <2>1, <2>2, <2>4, <2>7, <2>8, <2>9
<1>13. n \in T
  <2>1. 0 \in Int /\ 0 \in Nat /\ n \in Int /\ n \in 0 .. n OBVIOUS
  <2>2. PICK X : X = T OBVIOUS
  <2> HIDE DEF T
  <2>3. 0 .. n \subseteq X BY <1>11, <1>12, <2>1, <2>2, InductionUpTo
  <2> QED BY <2>1, <2>2, <2>3
<1>14. Good(n) BY <1>13
<1>15. g[n] \in StacksFrom(s) /\ IsStack(g[n]) BY <1>14
<1> HIDE DEF P
<1> QED BY <1>2, <1>7, <1>14, <1>15 DEF NParticles

\* t is s with n secondaries that were pushed for its current track.
SecondariesOf(s, n, t) ==
    /\ t \in StacksFrom(s) /\ IsStack(t)
    /\ t.index = s.index /\ t.n = s.n + n
    /\ t.first = IF s.n = 0 /\ n # 0 THEN NParticles(s) + 1 ELSE s.first
    /\ NParticles(t) = NParticles(s) + n
    /\ \A i \in 1 .. NParticles(s) : t.parts[i] = s.parts[i]
    /\ \A i \in 1 .. n : t.parts[NParticles(s) + i].mother = GetCurrentTrackNumber(s)

\* The secondaries of one call, all of the particle the call is about.
LEMMA SecondariesAre ==
    ASSUME NEW s, IsStack(s), GetCurrentTrackNumber(s) \in Int, NEW n \in Nat
    PROVE SecondariesOf(s, n, SecondariesPushed(s, n))
<1>1. PICK r : r = SecondariesPushed(s, n) OBVIOUS
<1>2. PICK c \in Int : c = GetCurrentTrackNumber(s) OBVIOUS
<1>3. PICK b \in Nat : b = NParticles(s) /\ b = Len(s.parts) BY DEF IsStack, StacksFrom, NParticles
<1> DEFINE Round(x) == FastSimPushSecondary(x, c, TRUE)
           Body(g, m) == IF m = 0 THEN s ELSE Round(g[m - 1])
           Unfolds(g) == g = [m \in 0 .. n |-> Body(g, m)]
           P == {x \in StacksFrom(s) : IsStack(x)}
           step == [m \in 1 .. n |-> [x \in P |-> Round(x)]]
<1>4. ASSUME NEW x \in P
      PROVE /\ Round(x) \in P
            /\ Round(x).parts = Append(x.parts, [mother |-> c, hard |-> TRUE])
            /\ Round(x).index = x.index /\ Round(x).n = x.n + 1
            /\ Round(x).first = IF x.n = 0 THEN NParticles(x) + 1 ELSE x.first
  <2>1. IsStack(x) /\ x \in StacksFrom(s) OBVIOUS
  <2>2. StacksFrom(x) = StacksFrom(s) BY <2>1 DEF StacksFrom
  <2>3. PICK p : p = Round(x) OBVIOUS
  <2>4. /\ p \in StacksFrom(x) /\ IsStack(p)
        /\ p.parts = Append(x.parts, [mother |-> c, hard |-> TRUE])
        /\ p.index = x.index /\ p.n = x.n + 1
        /\ p.first = IF x.n = 0 THEN NParticles(x) + 1 ELSE x.first
    BY <2>1, <2>3, SecondaryIs
  <2> QED BY <2>2, <2>3, <2>4
<1>5. s \in P BY DEF IsStack
<1>6. SecondariesPushed(s, n) = (CHOOSE g : Unfolds(g))[n] BY <1>2 DEF SecondariesPushed
<1>7. \E g : Unfolds(g)
  <2> HIDE DEF P, Round
  <2>1. step \in [1 .. n -> [P -> P]] BY <1>4
  <2>2. PICK t : t = step OBVIOUS
  <2>3. \A m \in 1 .. n, x \in P : t[m][x] = Round(x) BY <2>2
  <2> HIDE DEF step
  <2>4. PICK g \in [0 .. n -> P] : g[0] = s /\ \A k \in 1 .. n : g[k] = t[k][g[k - 1]]
    <3>1. t \in [1 .. n -> [P -> P]] BY <2>1, <2>2
    <3>2. \E g : IsLoop(g, n, P, s, t) BY <1>5, <3>1, RecursionExists
    <3> QED BY <3>2 DEF IsLoop
  <2>5. \A k \in 0 .. n : g[k] = Body(g, k)
    <3> TAKE k \in 0 .. n
    <3>1. CASE k = 0 BY <2>4, <3>1
    <3>2. CASE k # 0
      <4>1. k \in 1 .. n /\ k - 1 \in 0 .. n BY <3>2
      <4> QED BY <2>3, <2>4, <3>2, <4>1
    <3> QED BY <3>1, <3>2
  <2>6. Unfolds(g)
    <3> HIDE DEF Body
    <3> QED BY <2>5
  <2> HIDE DEF Unfolds
  <2> QED BY <2>6
<1>8. PICK g : Unfolds(g) /\ SecondariesPushed(s, n) = g[n]
  <2> HIDE DEF Unfolds
  <2> QED BY <1>6, <1>7
<1>9. \A m \in 0 .. n : g[m] = Body(g, m)
  <2> HIDE DEF Body
  <2> QED BY <1>8
<1>10. g[0] = s
  <2>1. 0 \in 0 .. n OBVIOUS
  <2> QED BY <1>9, <2>1
<1>11. ASSUME NEW m \in 0 .. n - 1 PROVE g[m + 1] = Round(g[m])
  <2>1. m + 1 \in 0 .. n /\ m + 1 # 0 /\ (m + 1) - 1 = m OBVIOUS
  <2> HIDE DEF Round
  <2> QED BY <1>9, <2>1
<1> DEFINE Good(m) == /\ g[m] \in P /\ g[m].n = s.n + m /\ g[m].index = s.index
                      /\ g[m].first = (IF s.n = 0 /\ m # 0 THEN b + 1 ELSE s.first)
                      /\ Len(g[m].parts) = b + m
                      /\ \A i \in 1 .. b : g[m].parts[i] = s.parts[i]
                      /\ \A i \in 1 .. m : g[m].parts[b + i].mother = c
           T == {m \in 0 .. n : Good(m)}
<1>12. s.n \in Nat BY DEF IsStack, StacksFrom
<1>13. 0 \in T
  <2>1. s.n = s.n + 0 /\ b = b + 0 /\ 0 \in 0 .. n /\ 1 .. 0 = {} BY <1>3, <1>12
  <2> HIDE DEF P
  <2> QED BY <1>3, <1>5, <1>10, <2>1
<1>14. ASSUME NEW m \in 0 .. n - 1, m \in T PROVE m + 1 \in T
  <2>1. m + 1 \in 1 .. n /\ m + 1 \in 0 .. n /\ m \in Nat /\ g[m] \in P BY <1>14
  <2>2. PICK x, y : x \in P /\ x = g[m] /\ y = g[m + 1] /\ y = Round(x)
    <3> HIDE DEF P, Round
    <3> QED BY <1>11, <2>1
  <2>3. PICK e : e = [mother |-> c, hard |-> TRUE] OBVIOUS
  <2>4. /\ y \in P /\ y.parts = Append(x.parts, e) /\ y.index = x.index /\ y.n = x.n + 1
        /\ y.first = IF x.n = 0 THEN NParticles(x) + 1 ELSE x.first
    <3> HIDE DEF P, Round
    <3> QED BY <1>4, <2>2, <2>3
  <2>5. x.parts \in Seq(Particles) /\ Len(x.parts) = b + m BY <1>14, <2>2 DEF StacksFrom
  <2>6. e \in Particles BY <2>3 DEF Particles
  <2>7. /\ Len(y.parts) = b + m + 1 /\ y.parts[b + m + 1] = e
        /\ \A i \in 1 .. b + m : y.parts[i] = x.parts[i]
    BY <2>1, <2>4, <2>5, <2>6
  <2>8. \A i \in 1 .. m + 1 : y.parts[b + i].mother = c
    <3> TAKE i \in 1 .. m + 1
    <3>1. CASE i = m + 1
      <4>1. m \in Nat /\ b \in Nat BY <1>3, <2>1
      <4>2. b + i = b + m + 1 BY <3>1, <4>1
      <4> QED BY <2>3, <2>7, <4>2
    <3>2. CASE i # m + 1
      <4>1. i \in 1 .. m /\ b + i \in 1 .. b + m BY <1>3, <2>1, <3>2
      <4>2. x.parts[b + i].mother = c BY <1>14, <2>2, <4>1
      <4> QED BY <2>7, <4>1, <4>2
    <3> QED BY <3>1, <3>2
  <2>9. \A i \in 1 .. b : y.parts[i] = s.parts[i]
    <3> TAKE i \in 1 .. b
    <3>1. i \in 1 .. b + m BY <1>3, <2>1
    <3>2. x.parts[i] = s.parts[i] BY <1>14, <2>2
    <3> QED BY <2>7, <3>1, <3>2
  <2>10. x.n = s.n + m /\ x.index = s.index BY <1>14, <2>2
  <2>11. x.first = IF s.n = 0 /\ m # 0 THEN b + 1 ELSE s.first BY <1>14, <2>2
  <2>12. y.first = IF s.n = 0 /\ m + 1 # 0 THEN b + 1 ELSE s.first
    <3>1. NParticles(x) = b + m BY <2>5 DEF NParticles
    <3>2. CASE x.n = 0
      <4>1. s.n = 0 /\ m = 0 BY <1>12, <2>1, <2>10, <3>2
      <4> QED BY <1>3, <2>4, <3>1, <3>2, <4>1
    <3>3. CASE x.n # 0
      <4>1. y.first = x.first BY <2>4, <3>3
      <4>2. s.n # 0 \/ m # 0 BY <1>12, <2>1, <2>10, <3>3
      <4> QED BY <2>1, <2>11, <4>1, <4>2
    <3> QED BY <3>2, <3>3
  <2>13. y.n = s.n + (m + 1) /\ Len(y.parts) = b + (m + 1)
    <3>1. y.n = (s.n + m) + 1 BY <2>4, <2>10
    <3>2. Len(y.parts) = b + m + 1 BY <2>7
    <3>3. s.n \in Nat /\ m \in Nat /\ b \in Nat BY <1>3, <1>12, <2>1
    <3> QED BY <3>1, <3>2, <3>3
  <2> HIDE DEF P
  <2> QED BY <2>1, <2>2, <2>4, <2>8, <2>9, <2>10, <2>12, <2>13
<1>15. n \in T
  <2>1. 0 \in Int /\ 0 \in Nat /\ n \in Int /\ n \in 0 .. n OBVIOUS
  <2>2. PICK X : X = T OBVIOUS
  <2> HIDE DEF T
  <2>3. 0 .. n \subseteq X BY <1>13, <1>14, <2>1, <2>2, InductionUpTo
  <2> QED BY <2>1, <2>2, <2>3
<1>16. Good(n) BY <1>15
<1>17. g[n] \in StacksFrom(s) /\ IsStack(g[n]) BY <1>16
<1> HIDE DEF P
<1>18. /\ r \in StacksFrom(s) /\ IsStack(r)
       /\ r.index = s.index /\ r.n = s.n + n
       /\ r.first = IF s.n = 0 /\ n # 0 THEN NParticles(s) + 1 ELSE s.first
       /\ NParticles(r) = NParticles(s) + n
       /\ \A i \in 1 .. NParticles(s) : r.parts[i] = s.parts[i]
       /\ \A i \in 1 .. n : r.parts[NParticles(s) + i].mother = GetCurrentTrackNumber(s)
  BY <1>1, <1>2, <1>3, <1>8, <1>16, <1>17 DEF NParticles
<1> QED BY <1>1, <1>18, Zenon DEF SecondariesOf

\* The track a particle that is moved goes on as.
LEMMA MovedIs ==
    ASSUME NEW s, IsStack(s), NEW hard \in BOOLEAN, NParticles(s) + 1 \notin DOMAIN s.moved
    PROVE LET p == FastSimMoveParticleTo(s, hard) IN
          /\ IsStack(p)
          /\ p.parts = Append(s.parts, [mother |-> FirstTrack, hard |-> hard])
          /\ p.current = s.current /\ p.points = s.points /\ p.options = s.options
          /\ p.index = NParticles(s) + 1 /\ p.first = s.first /\ p.n = s.n
          /\ DOMAIN p.moved = DOMAIN s.moved \cup {NParticles(s) + 1}
          /\ \A i \in DOMAIN s.moved : p.moved[i] = s.moved[i]
          /\ p.moved[NParticles(s) + 1] = Original(s, GetCurrentTrackNumber(s))
<1>1. FirstTrack \in Int BY DEF FirstTrack
<1>2. PICK q : q = Pushed(s, TRUE, FirstTrack, hard) OBVIOUS
<1>3. /\ q \in StacksFrom(s) /\ IsStack(q)
      /\ q.parts = Append(s.parts, [mother |-> FirstTrack, hard |-> hard])
      /\ q.index = s.index /\ q.first = s.first /\ q.n = s.n
  BY <1>1, <1>2, PushedIs
<1>4. s.parts \in Seq(Particles) BY DEF IsStack, StacksFrom
<1>5. PICK m \in Nat : m = NParticles(q) /\ m = NParticles(s) + 1
  <2>1. [mother |-> FirstTrack, hard |-> hard] \in Particles BY <1>1 DEF Particles
  <2> QED BY <1>3, <1>4, <2>1 DEF NParticles
<1>6. q.current = s.current /\ q.moved = s.moved /\ q.points = s.points /\ q.options = s.options
  BY <1>3 DEF StacksFrom
<1>7. PICK v : v = Original(s, GetCurrentTrackNumber(s)) OBVIOUS
<1>8. PICK w : w = WithEntry(s.moved, m, v) OBVIOUS
<1>9. /\ DOMAIN w = DOMAIN s.moved \cup {m} /\ w[m] = v
      /\ \A i \in DOMAIN s.moved : w[i] = s.moved[i]
  BY <1>5, <1>8 DEF WithEntry
<1>10. PICK p : p = [q EXCEPT !.index = m, !.moved = w] OBVIOUS
<1>11. FastSimMoveParticleTo(s, hard) = p
  BY <1>2, <1>5, <1>6, <1>7, <1>8, <1>10 DEF FastSimMoveParticleTo
<1>12. /\ p.parts = q.parts /\ p.lifo = q.lifo /\ p.current = q.current /\ p.moved = w
       /\ p.points = q.points /\ p.index = m /\ p.first = q.first /\ p.n = q.n /\ p.options = q.options
  BY <1>3, <1>10 DEF StacksFrom
<1>13. IsStack(p)
  <2>1. p \in StacksFrom(p)
    <3>1. /\ q.parts \in Seq(Particles) /\ q.lifo \in Seq(Nat) /\ q.first \in Int /\ q.n \in Nat
      BY <1>3 DEF StacksFrom
    <3>2. p = [parts |-> p.parts, lifo |-> p.lifo, current |-> p.current, moved |-> p.moved,
               points |-> p.points, index |-> p.index, first |-> p.first, n |-> p.n,
               options |-> p.options]
      BY <1>3, <1>10 DEF StacksFrom
    <3>3. /\ p.parts \in Seq(Particles) /\ p.lifo \in Seq(Nat) /\ p.index \in Int /\ p.first \in Int
          /\ p.n \in Nat
      BY <1>5, <1>12, <3>1
    <3> QED BY <3>2, <3>3 DEF StacksFrom
  <2>2. NParticles(p) = NParticles(q) BY <1>12 DEF NParticles
  <2> QED BY <1>3, <1>12, <2>1, <2>2 DEF IsStack
<1> QED BY <1>3, <1>5, <1>6, <1>7, <1>9, <1>11, <1>12, <1>13

\* FastSimStopParticle changes an index.
LEMMA StoppedIs ==
    ASSUME NEW s, IsStack(s)
    PROVE LET p == FastSimStopParticle(s) IN
          /\ IsStack(p) /\ p.parts = s.parts /\ p.current = s.current /\ p.moved = s.moved
          /\ p.points = s.points /\ p.options = s.options
          /\ p.index = Stopped /\ p.first = s.first /\ p.n = s.n
<1>1. PICK k \in Int : k = Stopped BY DEF Stopped
<1>2. PICK p : p = [s EXCEPT !.index = k] OBVIOUS
<1>3. FastSimStopParticle(s) = p BY <1>1, <1>2 DEF FastSimStopParticle
<1>4. /\ p \in StacksFrom(s) /\ p.parts = s.parts /\ p.current = s.current /\ p.moved = s.moved
      /\ p.points = s.points /\ p.options = s.options /\ p.lifo = s.lifo
      /\ p.index = k /\ p.first = s.first /\ p.n = s.n
  BY <1>2 DEF IsStack, StacksFrom
<1>5. StacksFrom(p) = StacksFrom(s) /\ NParticles(p) = NParticles(s) BY <1>4 DEF StacksFrom, NParticles
<1>6. IsStack(p) BY <1>4, <1>5 DEF IsStack
<1> QED BY <1>1, <1>3, <1>4, <1>6

\* What a call of FastSimProcessParticle makes of the stack.
Calls(s, before, after, m, s1, s2, s3) ==
    /\ s1 = SecondariesPushed(s, before)
    /\ m = 1 => s2 = FastSimMoveParticleTo(s1, s.parts[s.current].hard)
    /\ m = 0 => s2 = FastSimStopParticle(s1)
    /\ s3 = SecondariesPushed(s2, after)

\* The stack t after a call for particle c of a stack s with b particles, in which m tells
\* whether the particle was moved.
Called(s, b, c, before, after, m, t) ==
    /\ IsStack(t) /\ b \in Nat /\ m \in 0 .. 1
    /\ NParticles(t) = b + before + m + after
    /\ t.current = s.current /\ t.points = s.points /\ t.options = s.options
    /\ t.index = (IF m = 1 THEN b + before + 1 ELSE Stopped)
    /\ t.n = s.n + before + after
    /\ s.n = 0 => /\ before # 0 => t.first = b + 1
                  /\ before = 0 /\ after # 0 => t.first = b + m + 1
    /\ \A i \in 1 .. b : t.parts[i] = s.parts[i]
    /\ \A j \in 1 .. before + m + after :
          t.parts[b + j].mother = IF m = 1 /\ j = before + 1 THEN FirstTrack ELSE c
    /\ DOMAIN t.moved = DOMAIN s.moved \cup (IF m = 1 THEN {b + before + 1} ELSE {})
    /\ \A i \in DOMAIN s.moved : t.moved[i] = s.moved[i]
    /\ m = 1 => t.moved[b + before + 1] = c

\* A call pushes the secondaries, and between them the track a moved particle goes on as.
LEMMA CallIs ==
    ASSUME NEW s, IsStack(s), NEW b, b = NParticles(s), DOMAIN s.moved \subseteq 1 .. b,
           s.current \in 1 .. b, NEW c \in 1 .. b, c = GetCurrentTrackNumber(s), c \notin DOMAIN s.moved,
           NEW before \in Nat, NEW after \in Nat, NEW m \in 0 .. 1,
           NEW s1, NEW s2, NEW s3, Calls(s, before, after, m, s1, s2, s3)
    PROVE Called(s, b, c, before, after, m, s3) /\ NParticles(s2) = b + before + m
<1>1. /\ s1 = SecondariesPushed(s, before)
      /\ m = 1 => s2 = FastSimMoveParticleTo(s1, s.parts[s.current].hard)
      /\ m = 0 => s2 = FastSimStopParticle(s1)
      /\ s3 = SecondariesPushed(s2, after)
  BY DEF Calls
<1>2. s.parts \in Seq(Particles) /\ s.n \in Nat BY DEF IsStack, StacksFrom
<1>3. b \in Nat /\ m \in 0 .. 1 /\ c \in Int BY <1>2 DEF NParticles
<1>4. /\ s1 \in StacksFrom(s) /\ IsStack(s1)
      /\ s1.n = s.n + before
      /\ s1.first = (IF s.n = 0 /\ before # 0 THEN b + 1 ELSE s.first)
      /\ NParticles(s1) = b + before
      /\ (\A i \in 1 .. b : s1.parts[i] = s.parts[i])
      /\ \A i \in 1 .. before : s1.parts[b + i].mother = c
  <2>1. GetCurrentTrackNumber(s) \in Int BY <1>3
  <2>2. SecondariesOf(s, before, s1) BY <1>1, <2>1, SecondariesAre
  <2> QED BY <1>3, <2>2 DEF SecondariesOf
<1>5. s1.current = s.current /\ s1.moved = s.moved /\ s1.points = s.points /\ s1.options = s.options
  BY <1>4 DEF StacksFrom
<1>6. GetCurrentTrackNumber(s1) = c /\ Original(s1, c) = c
  BY <1>5 DEF GetCurrentTrackNumber, Original
<1>7. s.parts[s.current].hard \in BOOLEAN
  <2>1. s.parts[s.current] \in Particles BY <1>2 DEF NParticles
  <2> QED BY <2>1 DEF Particles
<1>8. /\ IsStack(s2) /\ NParticles(s2) = b + before + m
      /\ s2.current = s.current /\ s2.points = s.points /\ s2.options = s.options
      /\ s2.index = (IF m = 1 THEN b + before + 1 ELSE Stopped)
      /\ s2.n = s1.n /\ s2.first = s1.first
      /\ (\A i \in 1 .. b + before : s2.parts[i] = s1.parts[i])
      /\ (m = 1 => s2.parts[b + before + 1].mother = FirstTrack)
      /\ DOMAIN s2.moved = DOMAIN s.moved \cup (IF m = 1 THEN {b + before + 1} ELSE {})
      /\ (\A i \in DOMAIN s.moved : s2.moved[i] = s.moved[i])
      /\ (m = 1 => s2.moved[b + before + 1] = c)
  <2>1. CASE m = 1
    <3>0. PICK h \in BOOLEAN : h = s.parts[s.current].hard BY <1>7
    <3>1. s2 = FastSimMoveParticleTo(s1, h) BY <1>1, <2>1, <3>0
    <3>2. NParticles(s1) + 1 \notin DOMAIN s1.moved
      <4>1. b + before + 1 \notin 1 .. b BY <1>3
      <4> QED BY <1>4, <1>5, <4>1
    <3>3. PICK e : e = [mother |-> FirstTrack, hard |-> h] OBVIOUS
    <3>4. /\ IsStack(s2) /\ s2.parts = Append(s1.parts, e)
          /\ s2.current = s1.current /\ s2.points = s1.points /\ s2.options = s1.options
          /\ s2.index = NParticles(s1) + 1 /\ s2.first = s1.first /\ s2.n = s1.n
          /\ DOMAIN s2.moved = DOMAIN s1.moved \cup {NParticles(s1) + 1}
          /\ \A i \in DOMAIN s1.moved : s2.moved[i] = s1.moved[i]
          /\ s2.moved[NParticles(s1) + 1] = Original(s1, GetCurrentTrackNumber(s1))
      <4>1. IsStack(s1) BY <1>4
      <4> QED BY <3>1, <3>2, <3>3, <4>1, MovedIs
    <3>5. e \in Particles /\ e.mother = FirstTrack BY <3>3 DEF Particles, FirstTrack
    <3>6. s1.parts \in Seq(Particles) /\ Len(s1.parts) = b + before
      BY <1>4 DEF NParticles, IsStack, StacksFrom
    <3>7. /\ Len(s2.parts) = b + before + 1 /\ s2.parts[b + before + 1] = e
          /\ \A i \in 1 .. b + before : s2.parts[i] = s1.parts[i]
      <4>1. PICK n \in Nat : n = b + before BY <1>3
      <4>2. s2.parts = Append(s1.parts, e) BY <3>4
      <4>3. /\ Len(s2.parts) = n + 1 /\ s2.parts[n + 1] = e
            /\ \A i \in 1 .. n : s2.parts[i] = s1.parts[i]
        <5>1. PICK ps \in Seq(Particles) : ps = s1.parts /\ Len(ps) = n BY <3>6, <4>1
        <5>2. s2.parts = Append(ps, e) BY <4>2, <5>1
        <5>3. Len(Append(ps, e)) = n + 1 /\ Append(ps, e)[n + 1] = e
              /\ \A i \in 1 .. n : Append(ps, e)[i] = ps[i]
          BY <3>5, <5>1
        <5> QED BY <5>1, <5>2, <5>3
      <4> QED BY <4>1, <4>3
    <3>8. NParticles(s2) = b + before + m BY <2>1, <3>1, <3>7 DEF NParticles
    <3> QED BY <1>4, <1>5, <1>6, <2>1, <3>4, <3>5, <3>7, <3>8
  <2>2. CASE m = 0
    <3>1. s2 = FastSimStopParticle(s1) BY <1>1, <2>2
    <3>2. /\ IsStack(s2) /\ s2.parts = s1.parts /\ s2.current = s1.current /\ s2.moved = s1.moved
          /\ s2.points = s1.points /\ s2.options = s1.options
          /\ s2.index = Stopped /\ s2.first = s1.first /\ s2.n = s1.n
      BY <1>4, <3>1, StoppedIs
    <3>3. NParticles(s2) = b + before + m
      <4>1. NParticles(s2) = NParticles(s1) BY <3>2 DEF NParticles
      <4>2. b + before = b + before + m BY <1>3, <2>2
      <4> QED BY <1>4, <4>1, <4>2
    <3> QED BY <1>4, <1>5, <2>2, <3>2, <3>3
  <2> QED BY <2>1, <2>2
<1>9. GetCurrentTrackNumber(s2) = c
  <2> DEFINE new == IF m = 1 THEN {b + before + 1} ELSE {}
  <2>0. /\ s2.current = s.current /\ DOMAIN s2.moved = DOMAIN s.moved \cup new
        /\ \A i \in DOMAIN s.moved : s2.moved[i] = s.moved[i]
    BY <1>8
  <2>1. s.current \in DOMAIN s2.moved <=> s.current \in DOMAIN s.moved
    <3>1. s.current # b + before + 1 BY <1>3
    <3>2. s.current \notin new BY <3>1
    <3> HIDE DEF new
    <3> QED BY <2>0, <3>2
  <2> HIDE DEF new
  <2>2. c = Original(s, s.current) BY DEF GetCurrentTrackNumber
  <2>3. Original(s2, s2.current) = Original(s, s.current) BY <2>0, <2>1 DEF Original
  <2> QED BY <2>2, <2>3 DEF GetCurrentTrackNumber
<1>10. PICK k \in Nat : k = b + before + m BY <1>3
<1>11. /\ s3 \in StacksFrom(s2) /\ IsStack(s3)
       /\ s3.index = s2.index /\ s3.n = s2.n + after
       /\ s3.first = (IF s2.n = 0 /\ after # 0 THEN k + 1 ELSE s2.first)
       /\ NParticles(s3) = k + after
       /\ (\A i \in 1 .. k : s3.parts[i] = s2.parts[i])
       /\ \A i \in 1 .. after : s3.parts[k + i].mother = c
  <2>1. GetCurrentTrackNumber(s2) \in Int /\ NParticles(s2) = k BY <1>3, <1>8, <1>9, <1>10
  <2>2. IsStack(s2) BY <1>8
  <2>3. PICK r : r = SecondariesPushed(s2, after) /\ r = s3 BY <1>1
  <2>4. /\ r \in StacksFrom(s2) /\ IsStack(r)
        /\ r.index = s2.index /\ r.n = s2.n + after
        /\ r.first = IF s2.n = 0 /\ after # 0 THEN NParticles(s2) + 1 ELSE s2.first
        /\ NParticles(r) = NParticles(s2) + after
        /\ \A i \in 1 .. NParticles(s2) : r.parts[i] = s2.parts[i]
        /\ \A i \in 1 .. after : r.parts[NParticles(s2) + i].mother = GetCurrentTrackNumber(s2)
    <3>1. GetCurrentTrackNumber(s2) \in Int BY <2>1
    <3>2. SecondariesOf(s2, after, r) BY <2>2, <2>3, <3>1, SecondariesAre
    <3> QED BY <3>2, Zenon DEF SecondariesOf
  <2>5. NParticles(s2) = k BY <2>1
  <2>6. \A i \in 1 .. after : r.parts[k + i].mother = c BY <1>9, <2>4, <2>5
  <2>7. \A i \in 1 .. k : r.parts[i] = s2.parts[i] BY <2>4, <2>5
  <2>8. /\ r \in StacksFrom(s2) /\ IsStack(r) /\ r.index = s2.index /\ r.n = s2.n + after
        /\ r.first = (IF s2.n = 0 /\ after # 0 THEN k + 1 ELSE s2.first) /\ NParticles(r) = k + after
    BY <2>4, <2>5
  <2>9. r = s3 BY <2>3
  <2> QED BY <2>6, <2>7, <2>8, <2>9
<1>12. (\A i \in 1 .. k : s3.parts[i] = s2.parts[i])
        /\ \A i \in 1 .. after : s3.parts[k + i].mother = c
  BY <1>11
<1>13. (\A i \in 1 .. b + before : s2.parts[i] = s1.parts[i])
       /\ (m = 1 => s2.parts[b + before + 1].mother = FirstTrack)
  BY <1>8
<1>14. (\A i \in 1 .. b : s1.parts[i] = s.parts[i])
       /\ (\A i \in 1 .. before : s1.parts[b + i].mother = c)
  BY <1>4
<1>15. /\ s3.current = s2.current /\ s3.moved = s2.moved /\ s3.points = s2.points
       /\ s3.options = s2.options
  BY <1>11 DEF StacksFrom
<1>16. \A i \in 1 .. b : s3.parts[i] = s.parts[i]
  <2> TAKE i \in 1 .. b
  <2>1. i \in 1 .. k /\ i \in 1 .. b + before BY <1>3, <1>10
  <2> QED BY <1>14, <1>13, <1>12, <2>1
<1>17. ASSUME NEW j \in 1 .. before + m + after
       PROVE s3.parts[b + j].mother = IF m = 1 /\ j = before + 1 THEN FirstTrack ELSE c
  <2>1. CASE j <= before
    <3>1. j \in 1 .. before /\ b + j \in 1 .. b + before /\ b + j \in 1 .. k /\ j # before + 1
      BY <1>3, <1>10, <2>1
    <3> QED BY <1>14, <1>13, <1>12, <3>1
  <2>2. CASE j = before + 1 /\ m = 1
    <3>1. b + j = b + before + 1 /\ b + j \in 1 .. k BY <1>3, <1>10, <2>2
    <3> QED BY <1>13, <1>12, <2>2, <3>1
  <2>3. CASE j > before /\ ~(m = 1 /\ j = before + 1)
    <3>1. j > before + m BY <1>3, <2>3
    <3>2. j - (before + m) \in 1 .. after /\ k + (j - (before + m)) = b + j BY <1>3, <1>10, <3>1
    <3> QED BY <1>12, <2>3, <3>2
  <2> QED BY <2>1, <2>2, <2>3
<1>18. s3.n = s.n + before + after BY <1>2, <1>4, <1>8, <1>11
<1>19. ASSUME s.n = 0
       PROVE /\ before # 0 => s3.first = b + 1
             /\ before = 0 /\ after # 0 => s3.first = b + m + 1
  <2>1. s2.n = before BY <1>4, <1>8, <1>19
  <2>2. CASE before # 0 BY <1>4, <1>8, <1>11, <1>19, <2>1, <2>2
  <2>3. CASE before = 0
    <3>1. k = b + m BY <1>3, <1>10, <2>3
    <3> QED BY <1>11, <2>1, <2>3, <3>1
  <2> QED BY <2>2, <2>3
<1>20. NParticles(s3) = b + before + m + after BY <1>10, <1>11
<1>21. /\ IsStack(s3) /\ s3.current = s.current /\ s3.points = s.points /\ s3.options = s.options
       /\ s3.index = (IF m = 1 THEN b + before + 1 ELSE Stopped)
  BY <1>8, <1>11, <1>15
<1>22. /\ DOMAIN s3.moved = DOMAIN s.moved \cup (IF m = 1 THEN {b + before + 1} ELSE {})
       /\ \A i \in DOMAIN s.moved : s3.moved[i] = s.moved[i]
       /\ m = 1 => s3.moved[b + before + 1] = c
  <2> DEFINE new == IF m = 1 THEN {b + before + 1} ELSE {}
  <2>1. /\ DOMAIN s2.moved = DOMAIN s.moved \cup new
        /\ \A i \in DOMAIN s.moved : s2.moved[i] = s.moved[i]
        /\ m = 1 => s2.moved[b + before + 1] = c
    BY <1>8
  <2>2. s3.moved = s2.moved BY <1>15
  <2> HIDE DEF new
  <2>3. /\ DOMAIN s3.moved = DOMAIN s.moved \cup new
        /\ \A i \in DOMAIN s.moved : s3.moved[i] = s.moved[i]
        /\ m = 1 => s3.moved[b + before + 1] = c
    BY <2>1, <2>2
  <2> QED BY <2>3, Zenon DEF new
<1>23. NParticles(s2) = b + before + m BY <1>8
<1>24. b \in Nat /\ m \in 0 .. 1 BY <1>3
<1>25. Called(s, b, c, before, after, m, s3)
  BY <1>16, <1>17, <1>18, <1>19, <1>20, <1>21, <1>22, <1>24, Zenon DEF Called
<1> QED BY <1>23, <1>25

-----------------------------------------------------------------------------
(* Simulated events: the inductive invariant. *)

\* Who the particles of a stack really are, and who made them: of and mother are the
\* history.  What fast simulation moved is a track that goes on as one it did not make.
Line(s, of, mother) ==
    /\ of \in Seq(Nat) /\ mother \in Seq(Int)
    /\ Len(of) = NParticles(s) /\ Len(mother) = NParticles(s)
    /\ DOMAIN s.moved \subseteq 2 .. NParticles(s)
    /\ \A i \in DOMAIN s.moved : /\ s.moved[i] \in 1 .. i - 1 /\ s.moved[i] \notin DOMAIN s.moved
                                 /\ s.parts[i].mother = FirstTrack
    /\ \A i \in 1 .. NParticles(s) :
          /\ s.parts[i].mother \in {NoTrack} \cup 1 .. i - 1
          /\ mother[i] \in {NoTrack} \cup 1 .. i - 1
          /\ of[i] = Original(s, i)
          /\ i \notin DOMAIN s.moved => mother[i] = Original(s, s.parts[i].mother)

\* The histories.
Truths == [of : Seq(Nat), mother : Seq(Int), maker : Seq(Nat), pushed : Seq(Nat), refused : BOOLEAN]

\* Between the events nothing is left of one.
Cleared ==
    /\ stack.parts = << >> /\ DOMAIN stack.points = {}
    /\ points = << >> /\ truth = NoTruth /\ created = << >>

\* The state has its shape, and is cleared between the events.
ShapeInv ==
    /\ simSetup \in SimSetups /\ phase \in {"begin", "next", "track", "done", "exit"}
    /\ IsStack(stack) /\ stack.options = simSetup.options
    /\ todo \subseteq 1 .. NParticles(stack)
    /\ truth \in Truths
    /\ phase = "track" => stack.current \in 1 .. NParticles(stack)
    /\ phase \notin {"next", "track"} => Cleared

\* The history and the stack agree on who the particles are.
LineInv == Line(stack, truth.of, truth.mother)

\* The points in pts that particle i left in detector d.
LeftIn(pts, maker, i, d) == {q \in DOMAIN pts : maker[q] = i /\ pts[q].det = d}

\* A point names the track that really left it, and is counted for that track.
Credited(s, pts, maker) ==
    /\ pts \in Seq([det : Detectors, track : Nat])
    /\ maker \in Seq(Nat) /\ Len(maker) = Len(pts)
    /\ \A q \in DOMAIN pts :
          /\ pts[q].track \in (1 .. NParticles(s)) \ DOMAIN s.moved
          /\ maker[q] = pts[q].track
    /\ \A i \in Nat, d \in Detectors : Copies(s, i, d) = Cardinality(LeftIn(pts, maker, i, d))

\* They agree on who left the points.
PointInv == Credited(stack, points, truth.maker)

\* Geant4 has been given what was pushed, and nothing is left to be given.
FastInv == Engine = "Geant4" => stack.n = 0 /\ created = truth.pushed

\* The number of the event that got the last of g, if n have been counted.
LastNumber(g, n) == IF Last(g) = NoEventID THEN n ELSE Last(g)

\* Every event without a number of its own is counted, and a request not to save one is kept.
EventInv ==
    /\ events \in 0 .. NEvents /\ fSaveCurrentEvent = ~truth.refused /\ given \in Seq(Int)
    /\ phase \in {"next", "track"} =>
          events < NEvents /\ fEventNr \in 0 .. events + 1 /\ header = LastNumber(given, fEventNr)
    /\ phase \notin {"next", "track"} => fEventNr \in 0 .. events
    /\ phase # "exit" => fEventNr = Cardinality(Unnumbered)

\* The inductive invariant.
SimInv == ShapeInv /\ LineInv /\ PointInv /\ FastInv /\ EventInv

\* What is assumed of the setups.
LEMMA SetupIs ==
    ASSUME simSetup \in SimSetups
    PROVE /\ Engine \in {"Geant3", "Geant4"} /\ NEvents \in Nat \ {0}
          /\ MaxParticles \in Nat /\ MaxPoints \in Nat /\ simSetup.options.minPoints \in Nat
          /\ simSetup.options.secondaries \in BOOLEAN /\ simSetup.options.mothers \in BOOLEAN
          /\ GivenIds \subseteq Int
  BY SimAssumption DEF Engine, NEvents, MaxParticles, MaxPoints, GivenIds, NoEventID

\* t is s with n particles more, and of2 and mother2 say who these are.
Grown(s, of, mother, b, t, n, of2, mother2) ==
    /\ b = NParticles(s) /\ NParticles(t) = b + n
    /\ \A i \in 1 .. b : t.parts[i] = s.parts[i]
    /\ of2 \in Seq(Nat) /\ mother2 \in Seq(Int) /\ Len(of2) = b + n /\ Len(mother2) = b + n
    /\ \A i \in 1 .. b : of2[i] = of[i] /\ mother2[i] = mother[i]
    /\ DOMAIN t.moved \cap (1 .. b) = DOMAIN s.moved /\ DOMAIN t.moved \subseteq 2 .. b + n
    /\ \A i \in DOMAIN s.moved : t.moved[i] = s.moved[i]
    /\ \A i \in DOMAIN t.moved : i > b => /\ t.moved[i] \in (1 .. b) \ DOMAIN s.moved
                                        /\ t.parts[i].mother = FirstTrack
    /\ \A i \in b + 1 .. b + n :
          /\ t.parts[i].mother \in {NoTrack} \cup 1 .. i - 1
          /\ mother2[i] \in {NoTrack} \cup 1 .. i - 1
          /\ of2[i] = Original(t, i)
          /\ i \notin DOMAIN t.moved => mother2[i] = Original(t, t.parts[i].mother)

\* A particle that is on the stack remains who it is when others are added.
LEMMA LineGrows ==
    ASSUME NEW s, NEW of, NEW mother, Line(s, of, mother), NEW b \in Nat, NEW t, NEW n \in Nat,
           NEW of2, NEW mother2, Grown(s, of, mother, b, t, n, of2, mother2)
    PROVE Line(t, of2, mother2)
<1>1. /\ b = NParticles(s) /\ NParticles(t) = b + n
      /\ (\A i \in 1 .. b : t.parts[i] = s.parts[i])
      /\ of2 \in Seq(Nat) /\ mother2 \in Seq(Int) /\ Len(of2) = b + n /\ Len(mother2) = b + n
      /\ (\A i \in 1 .. b : of2[i] = of[i] /\ mother2[i] = mother[i])
      /\ DOMAIN t.moved \cap (1 .. b) = DOMAIN s.moved /\ DOMAIN t.moved \subseteq 2 .. b + n
      /\ \A i \in DOMAIN s.moved : t.moved[i] = s.moved[i]
  BY DEF Grown
<1>2. \A i \in DOMAIN t.moved : i > b => /\ t.moved[i] \in (1 .. b) \ DOMAIN s.moved
                                         /\ t.parts[i].mother = FirstTrack
  BY DEF Grown
<1>3. \A i \in b + 1 .. b + n :
          /\ t.parts[i].mother \in {NoTrack} \cup 1 .. i - 1
          /\ mother2[i] \in {NoTrack} \cup 1 .. i - 1
          /\ of2[i] = Original(t, i)
          /\ i \notin DOMAIN t.moved => mother2[i] = Original(t, t.parts[i].mother)
  BY DEF Grown
<1>4. DOMAIN s.moved \subseteq 1 .. b BY <1>1 DEF Line
<1>5. DOMAIN t.moved \subseteq Nat \ {0} BY <1>1
<1>6. \A i \in {NoTrack} \cup 1 .. b : Original(t, i) = Original(s, i)
  <2> TAKE i \in {NoTrack} \cup 1 .. b
  <2>1. i \in DOMAIN t.moved <=> i \in DOMAIN s.moved
    <3>1. CASE i \in 1 .. b BY <1>1, <3>1
    <3>2. CASE i = NoTrack
      <4>1. i \notin Nat BY <3>2 DEF NoTrack
      <4> QED BY <1>4, <1>5, <4>1
    <3> QED BY <3>1, <3>2
  <2> QED BY <1>1, <2>1 DEF Original
<1>7. ASSUME NEW i \in DOMAIN t.moved
      PROVE /\ t.moved[i] \in 1 .. i - 1 /\ t.moved[i] \notin DOMAIN t.moved
            /\ t.parts[i].mother = FirstTrack
  <2>1. CASE i \in 1 .. b
    <3>1. i \in DOMAIN s.moved /\ t.moved[i] = s.moved[i] BY <1>1, <2>1
    <3>2. s.moved[i] \in 1 .. i - 1 /\ s.moved[i] \notin DOMAIN s.moved /\ s.parts[i].mother = FirstTrack
      BY <3>1 DEF Line
    <3>3. s.moved[i] \in 1 .. b BY <2>1, <3>2
    <3> QED BY <1>1, <2>1, <3>1, <3>2, <3>3
  <2>2. CASE i \notin 1 .. b
    <3>1. i \in b + 1 .. b + n BY <1>1, <2>2
    <3>2. i > b BY <3>1
    <3>3. t.moved[i] \in (1 .. b) \ DOMAIN s.moved /\ t.parts[i].mother = FirstTrack BY <1>2, <3>2
    <3>4. 1 .. b \subseteq 1 .. i - 1 BY <3>1
    <3> QED BY <1>1, <3>3, <3>4
  <2> QED BY <2>1, <2>2
<1>8. ASSUME NEW i \in 1 .. b + n
      PROVE /\ t.parts[i].mother \in {NoTrack} \cup 1 .. i - 1
            /\ mother2[i] \in {NoTrack} \cup 1 .. i - 1
            /\ of2[i] = Original(t, i)
            /\ i \notin DOMAIN t.moved => mother2[i] = Original(t, t.parts[i].mother)
  <2>1. CASE i \in 1 .. b
    <3>1. /\ s.parts[i].mother \in {NoTrack} \cup 1 .. i - 1
          /\ mother[i] \in {NoTrack} \cup 1 .. i - 1
          /\ of[i] = Original(s, i)
          /\ i \notin DOMAIN s.moved => mother[i] = Original(s, s.parts[i].mother)
      BY <1>1, <2>1 DEF Line
    <3>2. s.parts[i].mother \in {NoTrack} \cup 1 .. b
      <4>1. 1 .. i - 1 \subseteq 1 .. b BY <2>1
      <4> QED BY <3>1, <4>1
    <3>3. t.parts[i] = s.parts[i] /\ of2[i] = of[i] /\ mother2[i] = mother[i] BY <1>1, <2>1
    <3>4. i \in DOMAIN t.moved <=> i \in DOMAIN s.moved BY <1>1, <2>1
    <3> QED BY <1>6, <2>1, <3>1, <3>2, <3>3, <3>4
  <2>2. CASE i \notin 1 .. b
    <3>1. i \in b + 1 .. b + n BY <2>2
    <3> QED BY <1>3, <3>1
  <2> QED BY <2>1, <2>2
<1> QED BY <1>1, <1>7, <1>8 DEF Line

\* An empty stack.
LEMMA EmptyIs ==
    ASSUME NEW o, NEW s, s = EmptyStack(o)
    PROVE /\ IsStack(s) /\ s.parts = << >> /\ DOMAIN s.points = {} /\ DOMAIN s.moved = {}
          /\ s.options = o /\ s.n = 0 /\ NParticles(s) = 0
<1>1. NoTrack \in Int /\ NotMoved \in Int BY DEF NoTrack, NotMoved
<1>2. /\ s.parts = << >> /\ s.lifo = << >> /\ s.current = NoTrack /\ s.moved = << >>
      /\ s.points = EmptyBag /\ s.index = NotMoved /\ s.first = NotMoved /\ s.n = 0 /\ s.options = o
  BY DEF EmptyStack
<1>3. << >> \in Seq(Particles) /\ << >> \in Seq(Nat) /\ Len(<< >>) = 0 OBVIOUS
<1>4. s \in StacksFrom(s)
  <2>1. s = [parts |-> s.parts, lifo |-> s.lifo, current |-> s.current, moved |-> s.moved,
             points |-> s.points, index |-> s.index, first |-> s.first, n |-> s.n,
             options |-> s.options]
    BY <1>2 DEF EmptyStack
  <2>2. /\ s.parts \in Seq(Particles) /\ s.lifo \in Seq(Nat) /\ s.index \in Int /\ s.first \in Int
        /\ s.n \in Nat
    BY <1>1, <1>2, <1>3
  <2> QED BY <2>1, <2>2 DEF StacksFrom
<1>5. NParticles(s) = 0 BY <1>2, <1>3 DEF NParticles
<1>6. s.lifo \in Seq(1 .. NParticles(s)) BY <1>2
<1>7. IsStack(s) BY <1>1, <1>2, <1>4, <1>6 DEF IsStack
<1>8. DOMAIN s.moved = {} BY <1>2
<1>9. DOMAIN s.points = {} BY <1>2 DEF EmptyBag, SetToBag
<1> QED BY <1>2, <1>5, <1>7, <1>8, <1>9

\* A stack that was reset is as empty as one that is new.
LEMMA ResetIs ==
    ASSUME NEW s, IsStack(s), NEW t, t = Reset(s)
    PROVE /\ IsStack(t) /\ t.parts = << >> /\ DOMAIN t.points = {} /\ DOMAIN t.moved = {}
          /\ t.options = s.options /\ t.n = s.n /\ NParticles(t) = 0
<1>1. PICK e : e = EmptyStack(s.options) OBVIOUS
<1>2. /\ IsStack(e) /\ e.parts = << >> /\ DOMAIN e.points = {} /\ DOMAIN e.moved = {}
      /\ e.options = s.options /\ NParticles(e) = 0
  BY <1>1, EmptyIs
<1>3. s.index \in Int /\ s.first \in Int /\ s.n \in Nat BY DEF IsStack, StacksFrom
<1>4. t = [e EXCEPT !.index = s.index, !.first = s.first, !.n = s.n] BY <1>1 DEF Reset
<1>5. e \in StacksFrom(e) BY <1>2 DEF IsStack
<1>6. /\ t \in StacksFrom(e) /\ t.parts = e.parts /\ t.lifo = e.lifo /\ t.current = e.current
      /\ t.moved = e.moved /\ t.points = e.points /\ t.options = e.options /\ t.n = s.n
  BY <1>3, <1>4, <1>5 DEF StacksFrom
<1>7. StacksFrom(t) = StacksFrom(e) /\ NParticles(t) = NParticles(e)
  BY <1>6 DEF StacksFrom, NParticles
<1>8. IsStack(t) BY <1>2, <1>6, <1>7 DEF IsStack
<1> QED BY <1>2, <1>6, <1>7, <1>8

\* Who the particles are depends only on them and on those that were moved.
LEMMA LineSame ==
    ASSUME NEW s, NEW of, NEW mother, Line(s, of, mother), NEW t, t.parts = s.parts, t.moved = s.moved
    PROVE Line(t, of, mother)
<1>1. NParticles(t) = NParticles(s) BY DEF NParticles
<1>2. \A i : Original(t, i) = Original(s, i) BY DEF Original
<1> QED BY <1>1, <1>2 DEF Line

\* Where nothing is on the stack nothing is to be said.
LEMMA ClearedIs ==
    ASSUME NEW s, IsStack(s), s.parts = << >>, DOMAIN s.points = {}, DOMAIN s.moved = {}
    PROVE /\ Line(s, NoTruth.of, NoTruth.mother) /\ Credited(s, << >>, NoTruth.maker)
          /\ NoTruth \in Truths /\ NParticles(s) = 0
<1>1. NParticles(s) = 0 BY DEF NParticles
<1>2. /\ NoTruth.of = << >> /\ NoTruth.mother = << >> /\ NoTruth.maker = << >>
      /\ NoTruth.pushed = << >> /\ NoTruth.refused = FALSE
  BY DEF NoTruth
<1>3. NoTruth \in Truths
  <2>1. << >> \in Seq(Nat) /\ << >> \in Seq(Int) OBVIOUS
  <2> QED BY <2>1 DEF NoTruth, Truths
<1>4. Line(s, NoTruth.of, NoTruth.mother)
  <2>1. << >> \in Seq(Nat) /\ << >> \in Seq(Int) /\ Len(<< >>) = 0 /\ 1 .. 0 = {} OBVIOUS
  <2> QED BY <1>1, <1>2, <2>1 DEF Line
<1>5. Credited(s, << >>, NoTruth.maker)
  <2>1. ASSUME NEW i \in Nat, NEW d \in Detectors
        PROVE Copies(s, i, d) = Cardinality(LeftIn(<< >>, << >>, i, d))
    <3>1. LeftIn(<< >>, << >>, i, d) = {} BY DEF LeftIn
    <3>2. Copies(s, i, d) = 0 BY DEF Copies
    <3> QED BY <3>1, <3>2, FS_EmptySet
  <2>2. << >> \in Seq([det : Detectors, track : Nat]) /\ << >> \in Seq(Nat) /\ Len(<< >>) = 0
    OBVIOUS
  <2> QED BY <1>2, <2>1, <2>2 DEF Credited
<1> QED BY <1>1, <1>3, <1>4, <1>5

\* The initial states.
LEMMA SimInitIs == SimInit => SimInv
<1> SUFFICES ASSUME SimInit PROVE SimInv
  OBVIOUS
<1>1. simSetup \in SimSetups /\ stack = EmptyStack(simSetup.options) BY DEF SimInit
<1>2. /\ IsStack(stack) /\ stack.parts = << >> /\ DOMAIN stack.points = {} /\ DOMAIN stack.moved = {}
      /\ stack.options = simSetup.options /\ stack.n = 0 /\ NParticles(stack) = 0
  BY <1>1, EmptyIs
<1>3. Cleared BY <1>2 DEF Cleared, SimInit
<1>4. LineInv /\ PointInv /\ truth \in Truths
  BY <1>2, <1>3, ClearedIs DEF Cleared, LineInv, PointInv
<1>5. ShapeInv BY <1>1, <1>2, <1>3, <1>4 DEF ShapeInv, SimInit
<1>6. FastInv BY <1>2, <1>3 DEF FastInv, Cleared, NoTruth
<1>7. EventInv
  <2>1. 0 \in 0 .. NEvents BY <1>1, SetupIs
  <2>2. Unnumbered = {} /\ given \in Seq(Int) BY DEF SimInit, Unnumbered
  <2>3. Cardinality(Unnumbered) = 0 BY <2>2, FS_EmptySet
  <2>4. phase = "begin" /\ events = 0 /\ fEventNr = 0 /\ fSaveCurrentEvent = ~truth.refused
    BY DEF SimInit, NoTruth
  <2>5. fEventNr \in 0 .. events BY <2>4
  <2>6. phase \notin {"next", "track"} BY <2>4
  <2>7. events \in 0 .. NEvents /\ fEventNr = Cardinality(Unnumbered) BY <2>1, <2>3, <2>4
  <2> QED BY <2>2, <2>4, <2>5, <2>6, <2>7 DEF EventInv
<1> QED BY <1>4, <1>5, <1>6, <1>7 DEF SimInv

-----------------------------------------------------------------------------
(* The actions keep it. *)

\* Finishing an event leaves nothing of it.
LEMMA FinishEventIs ==
    ASSUME NEW s, IsStack(s), s.options = simSetup.options, NEW id, FinishEvent(s, id),
           simSetup' = simSetup, simSetup \in SimSetups
    PROVE /\ IsStack(stack') /\ stack'.options = simSetup.options /\ Cleared'
          /\ LineInv' /\ PointInv' /\ truth' \in Truths
          /\ stack'.n = s.n /\ todo' = {} /\ NParticles(stack') = 0
          /\ fSaveCurrentEvent' = ~truth'.refused /\ created' = truth'.pushed
<1>1. stack' = Reset(s) BY DEF FinishEvent
<1>2. /\ IsStack(stack') /\ stack'.parts = << >> /\ DOMAIN stack'.points = {}
      /\ DOMAIN stack'.moved = {} /\ stack'.options = s.options /\ stack'.n = s.n
      /\ NParticles(stack') = 0
  BY <1>1, ResetIs
<1>3. Cleared' BY <1>2 DEF Cleared, FinishEvent, NoTruth
<1>4. LineInv' /\ PointInv' /\ truth' \in Truths
  <2>1. points' = << >> /\ truth' = NoTruth BY DEF FinishEvent
  <2>2. /\ Line(stack', NoTruth.of, NoTruth.mother) /\ Credited(stack', << >>, NoTruth.maker)
        /\ NoTruth \in Truths
    BY <1>2, ClearedIs
  <2> QED BY <2>1, <2>2 DEF LineInv, PointInv
<1>5. todo' = {} /\ fSaveCurrentEvent' = ~truth'.refused /\ created' = truth'.pushed
  BY DEF FinishEvent, SaveAgain, NoTruth
<1> QED BY <1>2, <1>3, <1>4, <1>5

\* The lists of particles a generator may deliver.
LEMMA BoundedIs ==
    ASSUME NEW T, T \subseteq BOOLEAN, NEW n \in Int, NEW ps \in BoundedSeq([track : T, hard : {TRUE}], n)
    PROVE ps \in Seq([track : BOOLEAN, hard : BOOLEAN])
<1>1. PICK m \in 0 .. n : ps \in [1 .. m -> [track : T, hard : {TRUE}]]
  BY DEF BoundedSeq, SeqOf
<1>2. m \in Nat OBVIOUS
<1>3. PICK R : R = [track : BOOLEAN, hard : BOOLEAN] OBVIOUS
<1>4. ps \in [1 .. m -> R]
  <2>1. [track : T, hard : {TRUE}] \subseteq R BY <1>3
  <2> QED BY <1>1, <2>1
<1>5. ps \in Seq(R) BY <1>2, <1>4
<1> QED BY <1>3, <1>5

\* The primaries of an event, on a stack with nothing on it.
LEMMA PrimariesAre ==
    ASSUME NEW s, IsStack(s), s.parts = << >>, DOMAIN s.points = {}, DOMAIN s.moved = {},
           NEW ps \in Seq([track : BOOLEAN, hard : BOOLEAN]), NEW t, t = Added(s, ps),
           NEW of, of = [i \in DOMAIN ps |-> i], NEW mother, mother = [i \in DOMAIN ps |-> NoTrack]
    PROVE /\ IsStack(t) /\ t.options = s.options /\ t.n = s.n /\ NParticles(t) = Len(ps)
          /\ DOMAIN t.moved = {} /\ DOMAIN t.points = {}
          /\ Line(t, of, mother) /\ Credited(t, << >>, << >>)
<1>1. /\ t \in StacksFrom(s) /\ IsStack(t) /\ t.n = s.n /\ NParticles(t) = Len(ps)
      /\ \A i \in 1 .. Len(ps) : t.parts[i].mother = NoTrack
  BY AddedIs
<1>2. t.moved = s.moved /\ t.points = s.points /\ t.options = s.options BY <1>1 DEF StacksFrom
<1>3. PICK n \in Nat : n = Len(ps) /\ DOMAIN ps = 1 .. n OBVIOUS
<1>4. Line(t, of, mother)
  <2>1. of \in Seq(Nat) /\ Len(of) = n BY <1>3
  <2>2. mother \in Seq(Int) /\ Len(mother) = n
    <3>1. NoTrack \in Int BY DEF NoTrack
    <3>2. mother \in [1 .. n -> Int] BY <1>3, <3>1
    <3> QED BY <1>3, <3>2
  <2>3. ASSUME NEW i \in 1 .. n
        PROVE /\ t.parts[i].mother \in {NoTrack} \cup 1 .. i - 1
              /\ mother[i] \in {NoTrack} \cup 1 .. i - 1
              /\ of[i] = Original(t, i)
              /\ mother[i] = Original(t, t.parts[i].mother)
    <3>1. t.parts[i].mother = NoTrack /\ mother[i] = NoTrack /\ of[i] = i BY <1>1, <1>3
    <3> QED BY <1>2, <3>1 DEF Original
  <2> QED BY <1>1, <1>2, <1>3, <2>1, <2>2, <2>3 DEF Line
<1>5. Credited(t, << >>, << >>)
  <2>1. ASSUME NEW i \in Nat, NEW d \in Detectors
        PROVE Copies(t, i, d) = Cardinality(LeftIn(<< >>, << >>, i, d))
    <3>1. LeftIn(<< >>, << >>, i, d) = {} BY DEF LeftIn
    <3>2. Copies(t, i, d) = 0 BY <1>2 DEF Copies
    <3> QED BY <3>1, <3>2, FS_EmptySet
  <2>2. << >> \in Seq([det : Detectors, track : Nat]) /\ << >> \in Seq(Nat) /\ Len(<< >>) = 0
    OBVIOUS
  <2> QED BY <2>1, <2>2 DEF Credited
<1> QED BY <1>1, <1>2, <1>4, <1>5

\* What holds between the events.
LEMMA BetweenEvents ==
    ASSUME SimInv, phase \notin {"next", "track"}
    PROVE /\ stack.parts = << >> /\ DOMAIN stack.points = {} /\ DOMAIN stack.moved = {}
          /\ points = << >> /\ truth = NoTruth /\ created = << >> /\ NParticles(stack) = 0
<1>1. Cleared /\ IsStack(stack) BY DEF SimInv, ShapeInv
<1>2. NParticles(stack) = 0 BY <1>1 DEF Cleared, NParticles
<1>3. DOMAIN stack.moved = {} BY <1>2 DEF SimInv, LineInv, Line
<1> QED BY <1>1, <1>2, <1>3 DEF Cleared

\* The events without a number of their own when there is one event more.
LEMMA OneMoreGiven ==
    ASSUME given \in Seq(Int), NEW id \in Int, given' = Append(given, id)
    PROVE /\ given' \in Seq(Int) /\ Last(given') = id
          /\ Cardinality(Unnumbered) \in Nat
          /\ id = NoEventID => Cardinality(Unnumbered') = Cardinality(Unnumbered) + 1
          /\ id # NoEventID => Cardinality(Unnumbered') = Cardinality(Unnumbered)
<1>1. PICK n \in Nat : n = Len(given) /\ DOMAIN given = 1 .. n OBVIOUS
<1>2. /\ given' \in Seq(Int) /\ Len(given') = n + 1 /\ DOMAIN given' = 1 .. n + 1
      /\ given'[n + 1] = id /\ \A k \in 1 .. n : given'[k] = given[k]
  BY <1>1
<1>3. Last(given') = id BY <1>2 DEF Last
<1>4. Unnumbered = {k \in 1 .. n : given[k] = NoEventID} BY <1>1 DEF Unnumbered
<1>5. Unnumbered' = {k \in 1 .. n + 1 : given'[k] = NoEventID} BY <1>2 DEF Unnumbered
<1>6. IsFiniteSet(Unnumbered) /\ Cardinality(Unnumbered) \in Nat
  <2>1. IsFiniteSet(1 .. n) BY <1>1, FS_Interval
  <2>2. Unnumbered \subseteq 1 .. n BY <1>4
  <2> QED BY <2>1, <2>2, FS_Subset, FS_CardinalityType
<1>7. ASSUME id = NoEventID PROVE Cardinality(Unnumbered') = Cardinality(Unnumbered) + 1
  <2>1. Unnumbered' = Unnumbered \cup {n + 1} BY <1>1, <1>2, <1>4, <1>5, <1>7
  <2>2. n + 1 \notin Unnumbered BY <1>1, <1>4
  <2> QED BY <1>6, <2>1, <2>2, FS_AddElement
<1>8. ASSUME id # NoEventID PROVE Unnumbered' = Unnumbered
  BY <1>1, <1>2, <1>4, <1>5, <1>8
<1> QED BY <1>2, <1>3, <1>6, <1>7, <1>8

\* Each action keeps the invariant: a new event,
LEMMA GenerateEventIs == ASSUME SimInv, GenerateEvent PROVE SimInv'
<1>1. phase = "begin" /\ events < NEvents BY DEF GenerateEvent
<1>2. PICK ps \in BoundedSeq([track : BOOLEAN, hard : {TRUE}], MaxParticles - 1) :
        /\ AddTracks(ps)
        /\ todo' = IF Engine = "Geant4" THEN {i \in DOMAIN ps : ps[i].track} ELSE {}
  BY DEF GenerateEvent
<1>3. simSetup \in SimSetups /\ MaxParticles - 1 \in Int BY SetupIs DEF SimInv, ShapeInv
<1>4. ps \in Seq([track : BOOLEAN, hard : BOOLEAN]) BY <1>3, BoundedIs
<1>5. /\ stack.parts = << >> /\ DOMAIN stack.points = {} /\ DOMAIN stack.moved = {}
      /\ points = << >> /\ truth = NoTruth /\ IsStack(stack)
  BY <1>1, BetweenEvents DEF SimInv, ShapeInv
<1>6. /\ stack' = Added(stack, ps)
      /\ truth' = [NoTruth EXCEPT !.of = [i \in DOMAIN ps |-> i],
                                  !.mother = [i \in DOMAIN ps |-> NoTrack]]
  BY <1>2 DEF AddTracks
<1>7. PICK of, mother : of = [i \in DOMAIN ps |-> i] /\ mother = [i \in DOMAIN ps |-> NoTrack]
  OBVIOUS
<1>8. /\ IsStack(stack') /\ stack'.options = stack.options /\ stack'.n = stack.n
      /\ NParticles(stack') = Len(ps)
      /\ Line(stack', of, mother) /\ Credited(stack', << >>, << >>)
  BY <1>4, <1>5, <1>6, <1>7, PrimariesAre
<1>9. /\ truth'.of = of /\ truth'.mother = mother /\ truth'.maker = << >> /\ truth'.pushed = << >>
      /\ truth'.refused = FALSE /\ truth' \in Truths
  <2>1. truth' = [NoTruth EXCEPT !.of = of, !.mother = mother] BY <1>6, <1>7
  <2>2. of \in Seq(Nat) /\ mother \in Seq(Int) BY <1>8 DEF Line
  <2>3. << >> \in Seq(Nat) OBVIOUS
  <2> QED BY <2>1, <2>2, <2>3 DEF NoTruth, Truths
<1>10. UNCHANGED <<simSetup, events, points, fSaveCurrentEvent>> /\ phase' = "next" /\ created' = << >>
       /\ \E id \in GivenIds : NumberEvent(id) /\ given' = Append(given, id)
  BY DEF GenerateEvent
<1>11. LineInv' /\ PointInv' BY <1>5, <1>8, <1>9, <1>10 DEF LineInv, PointInv
<1>12. ShapeInv'
  <2>1. todo' \subseteq 1 .. Len(ps) BY <1>2, <1>4
  <2>2. stack'.options = simSetup'.options BY <1>8, <1>10 DEF SimInv, ShapeInv
  <2> QED BY <1>3, <1>8, <1>9, <1>10, <2>1, <2>2 DEF ShapeInv
<1>13. FastInv' BY <1>8, <1>9, <1>10 DEF SimInv, FastInv, Engine
<1>14. EventInv'
  <2>1. /\ events \in 0 .. NEvents /\ fEventNr \in 0 .. events
        /\ fSaveCurrentEvent = ~truth.refused
        /\ given \in Seq(Int) /\ fEventNr = Cardinality(Unnumbered)
    BY <1>1 DEF SimInv, EventInv
  <2>2. NEvents \in Nat /\ NEvents' = NEvents BY <1>3, <1>10, SetupIs DEF NEvents
  <2>3. truth.refused = FALSE BY <1>5 DEF NoTruth
  <2>4. PICK id \in GivenIds : NumberEvent(id) /\ given' = Append(given, id) BY <1>10
  <2>5. id \in Int BY <1>3, <2>4, SetupIs
  <2>6. /\ given' \in Seq(Int) /\ Last(given') = id
        /\ id = NoEventID => Cardinality(Unnumbered') = Cardinality(Unnumbered) + 1
        /\ id # NoEventID => Cardinality(Unnumbered') = Cardinality(Unnumbered)
    BY <2>1, <2>4, <2>5, OneMoreGiven
  <2>7. header' = LastNumber(given', fEventNr') /\ fEventNr' = Cardinality(Unnumbered')
    BY <2>1, <2>4, <2>6 DEF NumberEvent, LastNumber
  <2>8. fEventNr' \in 0 .. events' + 1 /\ events' < NEvents' /\ events' \in 0 .. NEvents'
    BY <1>1, <1>10, <2>1, <2>2, <2>4 DEF NumberEvent
  <2> QED BY <1>9, <1>10, <2>1, <2>3, <2>6, <2>7, <2>8 DEF EventInv
<1> QED BY <1>11, <1>12, <1>13, <1>14 DEF SimInv

\* the end of a generator,
LEMMA GeneratorEndsIs == ASSUME SimInv, GeneratorEnds PROVE SimInv'
<1>1. phase = "begin" /\ events < NEvents BY DEF GeneratorEnds
<1>2. PICK ps \in BoundedSeq([track : {TRUE}, hard : {TRUE}], MaxParticles - 1),
           id \in GivenIds :
        FinishEvent(Added(stack, ps), id) /\ given' = Append(given, id)
  BY DEF GeneratorEnds
<1>3. simSetup \in SimSetups /\ MaxParticles - 1 \in Int /\ NEvents \in Nat
  BY SetupIs DEF SimInv, ShapeInv
<1>4. ps \in Seq([track : BOOLEAN, hard : BOOLEAN])
  <2>1. {TRUE} \subseteq BOOLEAN OBVIOUS
  <2> QED BY <1>3, <2>1, BoundedIs
<1>5. /\ stack.parts = << >> /\ DOMAIN stack.points = {} /\ DOMAIN stack.moved = {} /\ IsStack(stack)
  BY <1>1, BetweenEvents DEF SimInv, ShapeInv
<1>6. PICK s : s = Added(stack, ps) OBVIOUS
<1>7. IsStack(s) /\ s.options = stack.options /\ s.n = stack.n
  <2>1. PICK of, mother : of = [i \in DOMAIN ps |-> i] /\ mother = [i \in DOMAIN ps |-> NoTrack]
    OBVIOUS
  <2> QED BY <1>4, <1>5, <1>6, <2>1, PrimariesAre
<1>8. UNCHANGED <<simSetup, events, fEventNr>> /\ phase' = "exit" BY DEF GeneratorEnds
<1>9. /\ IsStack(stack') /\ stack'.options = simSetup.options /\ Cleared'
      /\ LineInv' /\ PointInv' /\ truth' \in Truths
      /\ stack'.n = s.n /\ todo' = {} /\ NParticles(stack') = 0
      /\ fSaveCurrentEvent' = ~truth'.refused /\ created' = truth'.pushed
  <2>1. s.options = simSetup.options BY <1>7 DEF SimInv, ShapeInv
  <2>2. FinishEvent(s, id) BY <1>2, <1>6
  <2> QED BY <1>3, <1>7, <1>8, <2>1, <2>2, FinishEventIs
<1>10. ShapeInv' BY <1>3, <1>8, <1>9 DEF ShapeInv
<1>11. FastInv' BY <1>7, <1>8, <1>9 DEF SimInv, FastInv, Engine
<1>12. EventInv'
  <2>1. NEvents' = NEvents BY <1>8 DEF NEvents
  <2>2. id \in Int BY <1>2, <1>3, SetupIs
  <2>3. given \in Seq(Int) /\ events \in 0 .. NEvents /\ fEventNr \in 0 .. events
    BY <1>1 DEF SimInv, EventInv
  <2>4. given' \in Seq(Int) BY <1>2, <2>2, <2>3
  <2> QED BY <1>8, <1>9, <2>1, <2>3, <2>4 DEF EventInv
<1> QED BY <1>9, <1>10, <1>11, <1>12 DEF SimInv

\* the end of an event,
LEMMA EngineFinishesEventIs == ASSUME SimInv, EngineFinishesEvent PROVE SimInv'
<1>1. /\ phase = "next" /\ FinishEvent(stack, header) /\ events' = events + 1
      /\ phase' \in {"done", "begin"} /\ UNCHANGED <<simSetup, header, fEventNr, given>>
  BY DEF EngineFinishesEvent
<1>2. /\ simSetup \in SimSetups /\ IsStack(stack) /\ stack.options = simSetup.options
  BY DEF SimInv, ShapeInv
<1>3. /\ IsStack(stack') /\ stack'.options = simSetup.options /\ Cleared'
      /\ LineInv' /\ PointInv' /\ truth' \in Truths
      /\ stack'.n = stack.n /\ todo' = {} /\ NParticles(stack') = 0
      /\ fSaveCurrentEvent' = ~truth'.refused /\ created' = truth'.pushed
  BY <1>1, <1>2, FinishEventIs
<1>4. ShapeInv' BY <1>1, <1>2, <1>3 DEF ShapeInv
<1>5. FastInv' BY <1>1, <1>3 DEF SimInv, FastInv, Engine
<1>6. EventInv'
  <2>1. NEvents' = NEvents /\ NEvents \in Nat BY <1>1, <1>2, SetupIs DEF NEvents
  <2>2. /\ events \in 0 .. NEvents /\ events < NEvents /\ fEventNr \in 0 .. events + 1
        /\ given \in Seq(Int) /\ fEventNr = Cardinality(Unnumbered)
    BY <1>1 DEF SimInv, EventInv
  <2>3. events' \in 0 .. NEvents /\ fEventNr' \in 0 .. events' BY <1>1, <2>1, <2>2
  <2>4. Unnumbered' = Unnumbered BY <1>1 DEF Unnumbered
  <2> QED BY <1>1, <1>3, <2>1, <2>2, <2>3, <2>4 DEF EventInv
<1> QED BY <1>3, <1>4, <1>5, <1>6 DEF SimInv

\* The track the engine takes up next.
LEMMA TakenIs ==
    ASSUME NEW s, IsStack(s), NEW i \in 1 .. NParticles(s), NEW t, t = [s EXCEPT !.current = i]
    PROVE /\ IsStack(t) /\ t.parts = s.parts /\ t.moved = s.moved /\ t.points = s.points
          /\ t.options = s.options /\ t.n = s.n /\ t.current = i /\ NParticles(t) = NParticles(s)
<1>1. s.parts \in Seq(Particles) BY DEF IsStack, StacksFrom
<1>2. i \in Int BY <1>1 DEF NParticles
<1>3. /\ t.parts = s.parts /\ t.lifo = s.lifo /\ t.current = i /\ t.moved = s.moved
      /\ t.points = s.points /\ t.index = s.index /\ t.first = s.first /\ t.n = s.n
      /\ t.options = s.options
  BY DEF IsStack, StacksFrom
<1>4. t \in StacksFrom(t) BY <1>3 DEF IsStack, StacksFrom
<1>5. NParticles(t) = NParticles(s) BY <1>3 DEF NParticles
<1>6. IsStack(t) BY <1>2, <1>3, <1>4, <1>5 DEF IsStack
<1> QED BY <1>3, <1>5, <1>6

\* Taking a track from the stack.
LEMMA PoppedIs ==
    ASSUME NEW s, IsStack(s), s.lifo # << >>, NEW t, t = Popped(s)
    PROVE /\ IsStack(t) /\ t.parts = s.parts /\ t.moved = s.moved /\ t.points = s.points
          /\ t.options = s.options /\ t.n = s.n /\ t.current \in 1 .. NParticles(t)
          /\ NParticles(t) = NParticles(s)
<1>1. s.parts \in Seq(Particles) /\ s.lifo \in Seq(Nat) BY DEF IsStack, StacksFrom
<1>2. PICK b \in Nat : b = NParticles(s) BY <1>1 DEF NParticles
<1>3. s.lifo \in Seq(1 .. b) BY <1>2 DEF IsStack
<1>4. PICK n \in Nat \ {0} : n = Len(s.lifo) BY <1>3
<1>5. PICK i \in 1 .. b : i = Last(s.lifo)
  <2>1. s.lifo[n] \in 1 .. b BY <1>3, <1>4
  <2> QED BY <1>4, <2>1 DEF Last
<1>6. PICK l \in Seq(1 .. b) : l = Front(s.lifo)
  <2>1. SubSeq(s.lifo, 1, Len(s.lifo) - 1) \in Seq(1 .. b) BY <1>3, <1>4
  <2> QED BY <2>1 DEF Front
<1>7. l \in Seq(Nat) BY <1>2
<1>8. t = [s EXCEPT !.lifo = l, !.current = i] BY <1>5, <1>6 DEF Popped
<1>9. /\ t.parts = s.parts /\ t.lifo = l /\ t.current = i /\ t.moved = s.moved
      /\ t.points = s.points /\ t.index = s.index /\ t.first = s.first /\ t.n = s.n
      /\ t.options = s.options
  BY <1>8 DEF IsStack, StacksFrom
<1>10. t \in StacksFrom(t) BY <1>7, <1>8, <1>9 DEF IsStack, StacksFrom
<1>11. NParticles(t) = b BY <1>2, <1>9 DEF NParticles
<1>12. IsStack(t) BY <1>2, <1>9, <1>10, <1>11 DEF IsStack
<1> QED BY <1>2, <1>9, <1>11, <1>12

\* Who left the points depends only on the particles, on the moved ones and on the counts.
LEMMA CreditedSame ==
    ASSUME NEW s, NEW pts, NEW maker, Credited(s, pts, maker), NEW t, t.parts = s.parts,
           t.moved = s.moved, t.points = s.points
    PROVE Credited(t, pts, maker)
<1>1. NParticles(t) = NParticles(s) BY DEF NParticles
<1>2. \A i, d : Copies(t, i, d) = Copies(s, i, d) BY DEF Copies
<1> QED BY <1>1, <1>2 DEF Credited

\* the next track,
LEMMA NextTrackIs == ASSUME SimInv, NextTrack PROVE SimInv'
<1>1. /\ phase = "next" /\ phase' = "track" /\ created' = << >>
      /\ truth' = [truth EXCEPT !.pushed = << >>]
      /\ UNCHANGED <<simSetup, events, points, header, fEventNr, given, fSaveCurrentEvent, stored>>
  BY DEF NextTrack
<1>2. /\ simSetup \in SimSetups /\ IsStack(stack) /\ stack.options = simSetup.options
      /\ todo \subseteq 1 .. NParticles(stack) /\ truth \in Truths
  BY DEF SimInv, ShapeInv
<1>3. /\ IsStack(stack') /\ stack'.parts = stack.parts /\ stack'.moved = stack.moved
      /\ stack'.points = stack.points /\ stack'.options = stack.options /\ stack'.n = stack.n
      /\ stack'.current \in 1 .. NParticles(stack') /\ NParticles(stack') = NParticles(stack)
      /\ todo' \subseteq todo
  <2>1. CASE stack.lifo # << >> /\ stack' = Popped(stack) /\ UNCHANGED todo
    BY <1>2, <2>1, PoppedIs
  <2>2. CASE \E i \in todo : stack' = [stack EXCEPT !.current = i] /\ todo' = todo \ {i}
    <3>1. PICK i \in todo : stack' = [stack EXCEPT !.current = i] /\ todo' = todo \ {i} BY <2>2
    <3>2. i \in 1 .. NParticles(stack) BY <1>2
    <3> QED BY <1>2, <3>1, <3>2, TakenIs
  <2> QED BY <2>1, <2>2 DEF NextTrack
<1>4. /\ truth'.of = truth.of /\ truth'.mother = truth.mother /\ truth'.maker = truth.maker
      /\ truth'.pushed = << >> /\ truth'.refused = truth.refused /\ truth' \in Truths
  <2>1. << >> \in Seq(Nat) OBVIOUS
  <2> QED BY <1>1, <1>2, <2>1 DEF Truths
<1>5. LineInv' BY <1>3, <1>4, LineSame DEF SimInv, LineInv
<1>6. PointInv' BY <1>1, <1>3, <1>4, CreditedSame DEF SimInv, PointInv
<1>7. ShapeInv' BY <1>1, <1>2, <1>3, <1>4 DEF ShapeInv
<1>8. FastInv' BY <1>1, <1>3, <1>4 DEF SimInv, FastInv, Engine
<1>9. EventInv' BY <1>1, <1>4 DEF SimInv, EventInv, NEvents, Unnumbered
<1> QED BY <1>5, <1>6, <1>7, <1>8, <1>9 DEF SimInv

\* the end of a track,
LEMMA EndTrackIs == ASSUME SimInv, EndTrack PROVE SimInv'
  BY DEF SimInv, ShapeInv, LineInv, PointInv, FastInv, EventInv, EndTrack, Cleared, Engine, NEvents,
         Unnumbered

\* a request not to save the event,
LEMMA DoNotSaveIs == ASSUME SimInv, DoNotSave PROVE SimInv'
<1>1. /\ phase = "track" /\ fSaveCurrentEvent' = FALSE /\ truth' = [truth EXCEPT !.refused = TRUE]
      /\ UNCHANGED <<simSetup, phase, events, stack, todo, points, header, fEventNr, given, stored,
                   created>>
  BY DEF DoNotSave
<1>2. truth \in Truths BY DEF SimInv, ShapeInv
<1>3. /\ truth'.of = truth.of /\ truth'.mother = truth.mother /\ truth'.maker = truth.maker
      /\ truth'.pushed = truth.pushed /\ truth'.refused = TRUE /\ truth' \in Truths
  BY <1>1, <1>2 DEF Truths
<1>4. LineInv' /\ PointInv' BY <1>1, <1>3 DEF SimInv, LineInv, PointInv
<1>5. ShapeInv' BY <1>1, <1>3 DEF SimInv, ShapeInv
<1>6. FastInv' BY <1>1, <1>3 DEF SimInv, FastInv, Engine
<1>7. EventInv' BY <1>1, <1>3 DEF SimInv, EventInv, NEvents, Unnumbered
<1> QED BY <1>4, <1>5, <1>6, <1>7 DEF SimInv

\* A point more is counted for the track that left it, and for no other.
LEMMA CreditedMore ==
    ASSUME NEW s, NEW pts, NEW maker, Credited(s, pts, maker), NParticles(s) \in Nat,
           NEW c \in (1 .. NParticles(s)) \ DOMAIN s.moved, NEW d \in Detectors,
           NEW t, t.parts = s.parts, t.moved = s.moved, t.points = s.points (+) SetToBag({<<c, d>>}),
           NEW pts2, pts2 = Append(pts, [det |-> d, track |-> c]),
           NEW maker2, maker2 = Append(maker, c)
    PROVE Credited(t, pts2, maker2)
<1> DEFINE R == [det : Detectors, track : Nat]
<1>1. PICK n \in Nat : n = Len(pts) /\ n = Len(maker) /\ DOMAIN pts = 1 .. n BY DEF Credited
<1>2. pts \in Seq(R) /\ maker \in Seq(Nat) BY DEF Credited
<1>3. PICK e \in R : e = [det |-> d, track |-> c] OBVIOUS
<1>4. e.det = d /\ e.track = c BY <1>3
<1> HIDE DEF R
<1>5. /\ pts2 \in Seq(R) /\ Len(pts2) = n + 1 /\ pts2[n + 1] = e /\ DOMAIN pts2 = 1 .. n + 1
      /\ \A q \in 1 .. n : pts2[q] = pts[q]
  BY <1>1, <1>2, <1>3
<1>6. /\ maker2 \in Seq(Nat) /\ Len(maker2) = n + 1 /\ maker2[n + 1] = c
      /\ \A q \in 1 .. n : maker2[q] = maker[q]
  BY <1>1, <1>2
<1>7. NParticles(t) = NParticles(s) BY DEF NParticles
<1>8. ASSUME NEW q \in 1 .. n + 1
      PROVE /\ pts2[q].track \in (1 .. NParticles(t)) \ DOMAIN t.moved
            /\ maker2[q] = pts2[q].track
  <2>1. CASE q = n + 1 BY <1>4, <1>5, <1>6, <1>7, <2>1
  <2>2. CASE q # n + 1
    <3>1. q \in 1 .. n BY <2>2
    <3>2. pts[q].track \in (1 .. NParticles(s)) \ DOMAIN s.moved /\ maker[q] = pts[q].track
      BY <1>1, <3>1 DEF Credited
    <3> QED BY <1>5, <1>6, <1>7, <3>1, <3>2
  <2> QED BY <2>1, <2>2
<1>9. ASSUME NEW i \in Nat, NEW f \in Detectors
      PROVE Copies(t, i, f) = Cardinality(LeftIn(pts2, maker2, i, f))
  <2>1. PICK L : L = LeftIn(pts, maker, i, f) OBVIOUS
  <2>2. PICK M : M = LeftIn(pts2, maker2, i, f) OBVIOUS
  <2>3. Copies(s, i, f) = Cardinality(L) BY <2>1 DEF Credited
  <2>4. L \subseteq 1 .. n BY <1>1, <2>1 DEF LeftIn
  <2>5. IsFiniteSet(L)
    <3>1. 1 \in Int /\ n \in Int OBVIOUS
    <3>2. IsFiniteSet(1 .. n) BY <3>1, FS_Interval
    <3> QED BY <2>4, <3>2, FS_Subset
  <2>6. Cardinality(L) \in Nat BY <2>5, FS_CardinalityType
  <2>7. ASSUME NEW q \in 1 .. n PROVE q \in M <=> q \in L
    BY <1>1, <1>5, <1>6, <2>1, <2>2, <2>7 DEF LeftIn
  <2>8. M \subseteq 1 .. n + 1 BY <1>5, <2>2 DEF LeftIn
  <2>9. n + 1 \in M <=> (i = c /\ f = d) BY <1>4, <1>5, <1>6, <2>2 DEF LeftIn
  <2>10. PICK B : B = SetToBag({<<c, d>>}) OBVIOUS
  <2>11. DOMAIN B = {<<c, d>>} /\ B[<<c, d>>] = 1 BY <2>10 DEF SetToBag
  <2>12. /\ DOMAIN t.points = DOMAIN s.points \cup {<<c, d>>}
         /\ \A x \in DOMAIN t.points :
              t.points[x] = (IF x \in DOMAIN s.points THEN s.points[x] ELSE 0)
                          + (IF x \in DOMAIN B THEN B[x] ELSE 0)
    BY <2>10, <2>11 DEF (+)
  <2>13. CASE i = c /\ f = d
    <3>1. M = L \cup {n + 1} /\ n + 1 \notin L
      <4>1. n + 1 \in M /\ n + 1 \notin 1 .. n BY <2>9, <2>13
      <4>2. \A q \in 1 .. n + 1 : q \in 1 .. n \/ q = n + 1 OBVIOUS
      <4>3. \A q \in M : q \in L \cup {n + 1} BY <2>7, <2>8, <4>2
      <4>4. \A q \in L \cup {n + 1} : q \in M BY <2>4, <2>7, <4>1
      <4> QED BY <2>4, <4>1, <4>3, <4>4
    <3>2. Cardinality(M) = Cardinality(L) + 1 BY <2>5, <3>1, FS_AddElement
    <3>3. <<i, f>> \in DOMAIN t.points /\ <<i, f>> \in DOMAIN B /\ B[<<i, f>>] = 1
      BY <2>11, <2>12, <2>13
    <3>4. t.points[<<i, f>>] = Copies(s, i, f) + 1 BY <2>12, <3>3 DEF Copies
    <3>5. Copies(t, i, f) = Copies(s, i, f) + 1 BY <3>3, <3>4 DEF Copies
    <3> QED BY <2>2, <2>3, <3>2, <3>5
  <2>14. CASE ~(i = c /\ f = d)
    <3>1. M = L
      <4>1. n + 1 \notin M BY <2>9, <2>14
      <4>2. \A q \in 1 .. n + 1 : q \in 1 .. n \/ q = n + 1 OBVIOUS
      <4>3. \A q \in M : q \in L BY <2>7, <2>8, <4>1, <4>2
      <4>4. \A q \in L : q \in M BY <2>4, <2>7
      <4> QED BY <4>3, <4>4
    <3>2. <<i, f>> # <<c, d>> BY <2>14
    <3>3. <<i, f>> \in DOMAIN t.points <=> <<i, f>> \in DOMAIN s.points BY <2>12, <3>2
    <3>4. Copies(t, i, f) = Copies(s, i, f)
      <4>1. CASE <<i, f>> \in DOMAIN s.points
        <5>1. <<i, f>> \notin DOMAIN B BY <2>11, <3>2
        <5>2. Copies(s, i, f) = s.points[<<i, f>>] BY <4>1 DEF Copies
        <5>3. s.points[<<i, f>>] \in Nat BY <2>3, <2>6, <5>2
        <5>4. t.points[<<i, f>>] = s.points[<<i, f>>] + 0 BY <2>12, <3>3, <4>1, <5>1
        <5> QED BY <3>3, <4>1, <5>2, <5>3, <5>4 DEF Copies
      <4>2. CASE <<i, f>> \notin DOMAIN s.points BY <3>3, <4>2 DEF Copies
      <4> QED BY <4>1, <4>2
    <3> QED BY <2>2, <2>3, <3>1, <3>4
  <2> QED BY <2>13, <2>14
<1> QED BY <1>5, <1>6, <1>8, <1>9 DEF Credited, R

\* Particles that are added, and tracks among them that go on as others, leave no points yet.
LEMMA CreditedKept ==
    ASSUME NEW s, NEW pts, NEW maker, Credited(s, pts, maker), NEW b \in Nat, b = NParticles(s),
           NEW t, NEW n \in Nat, NParticles(t) = b + n, t.points = s.points,
           DOMAIN t.moved \cap (1 .. b) = DOMAIN s.moved
    PROVE Credited(t, pts, maker)
<1>1. \A i, d : Copies(t, i, d) = Copies(s, i, d) BY DEF Copies
<1>2. ASSUME NEW q \in DOMAIN pts
      PROVE /\ pts[q].track \in (1 .. NParticles(t)) \ DOMAIN t.moved
            /\ maker[q] = pts[q].track
  <2>1. pts[q].track \in (1 .. b) \ DOMAIN s.moved /\ maker[q] = pts[q].track BY DEF Credited
  <2>2. pts[q].track \in 1 .. b + n BY <2>1
  <2> QED BY <2>1, <2>2
<1> QED BY <1>1, <1>2 DEF Credited

\* What the current track really is.
LEMMA NowIs ==
    ASSUME SimInv, phase = "track"
    PROVE /\ NParticles(stack) \in Nat /\ stack.current \in 1 .. NParticles(stack)
          /\ GetCurrentTrackNumber(stack) \in (1 .. NParticles(stack)) \ DOMAIN stack.moved
          /\ GetCurrentTrackNumber(stack) = Original(stack, stack.current)
          /\ Now = GetCurrentTrackNumber(stack)
<1>1. stack.current \in 1 .. NParticles(stack) /\ IsStack(stack) BY DEF SimInv, ShapeInv
<1>2. Line(stack, truth.of, truth.mother) BY DEF SimInv, LineInv
<1>3. NParticles(stack) \in Nat BY <1>1 DEF IsStack, StacksFrom, NParticles
<1>4. truth.of[stack.current] = Original(stack, stack.current) BY <1>1, <1>2 DEF Line
<1>5. Original(stack, stack.current) \in (1 .. NParticles(stack)) \ DOMAIN stack.moved
  <2>1. CASE stack.current \in DOMAIN stack.moved
    <3>1. /\ stack.moved[stack.current] \in 1 .. stack.current - 1
          /\ stack.moved[stack.current] \notin DOMAIN stack.moved
      BY <1>2, <2>1 DEF Line
    <3>2. stack.moved[stack.current] \in 1 .. NParticles(stack) BY <1>1, <1>3, <3>1
    <3> QED BY <2>1, <3>1, <3>2 DEF Original
  <2>2. CASE stack.current \notin DOMAIN stack.moved BY <1>1, <2>2 DEF Original
  <2> QED BY <2>1, <2>2
<1> QED BY <1>1, <1>3, <1>4, <1>5 DEF Now, GetCurrentTrackNumber

\* a point,
LEMMA ProcessHitsIs == ASSUME SimInv, ProcessHits PROVE SimInv'
<1>1. PICK d \in Detectors : LeavePoint(stack, d) BY DEF ProcessHits
<1>2. /\ phase = "track" /\ truth' = [truth EXCEPT !.maker = Append(@, Now)]
      /\ UNCHANGED <<simSetup, phase, events, todo, header, fEventNr, given, fSaveCurrentEvent, stored, created>>
  BY DEF ProcessHits
<1>3. PICK c \in (1 .. NParticles(stack)) \ DOMAIN stack.moved :
        /\ c = Now /\ c = GetCurrentTrackNumber(stack) /\ c = Original(stack, stack.current)
        /\ NParticles(stack) \in Nat /\ c \in Nat
  BY <1>2, NowIs
<1>4. /\ simSetup \in SimSetups /\ IsStack(stack) /\ stack.options = simSetup.options
      /\ todo \subseteq 1 .. NParticles(stack) /\ truth \in Truths
      /\ stack.current \in 1 .. NParticles(stack)
  BY <1>2 DEF SimInv, ShapeInv
<1>5. PICK p : p = stack.points (+) SetToBag({<<c, d>>}) OBVIOUS
<1>6. /\ stack' = [stack EXCEPT !.points = p]
      /\ points' = Append(points, [det |-> d, track |-> c])
  BY <1>1, <1>3, <1>5 DEF LeavePoint, AddPoint
<1>7. /\ stack'.parts = stack.parts /\ stack'.lifo = stack.lifo /\ stack'.current = stack.current
      /\ stack'.moved = stack.moved /\ stack'.points = p /\ stack'.index = stack.index
      /\ stack'.first = stack.first /\ stack'.n = stack.n /\ stack'.options = stack.options
      /\ NParticles(stack') = NParticles(stack)
  BY <1>4, <1>6 DEF IsStack, StacksFrom, NParticles
<1>8. IsStack(stack')
  <2>1. stack' \in StacksFrom(stack')
    <3>1. stack \in StacksFrom(stack) BY <1>4 DEF IsStack
    <3> QED BY <1>6, <1>7, <3>1 DEF StacksFrom
  <2> QED BY <1>4, <1>7, <2>1 DEF IsStack
<1>9. PICK mk : mk = Append(truth.maker, c) OBVIOUS
<1>10. /\ truth'.of = truth.of /\ truth'.mother = truth.mother /\ truth'.maker = mk
       /\ truth'.pushed = truth.pushed /\ truth'.refused = truth.refused /\ truth' \in Truths
  <2>1. truth' = [truth EXCEPT !.maker = mk] BY <1>2, <1>3, <1>4, <1>9 DEF Truths
  <2>2. mk \in Seq(Nat) BY <1>3, <1>4, <1>9 DEF Truths
  <2> QED BY <1>4, <2>1, <2>2 DEF Truths
<1>11. LineInv' BY <1>7, <1>10, LineSame DEF SimInv, LineInv
<1>12. PointInv'
  <2>1. Credited(stack, points, truth.maker) BY DEF SimInv, PointInv
  <2>2. Credited(stack', points', mk) BY <1>3, <1>5, <1>6, <1>7, <1>9, <2>1, CreditedMore
  <2> QED BY <1>10, <2>2 DEF PointInv
<1>13. ShapeInv' BY <1>2, <1>4, <1>7, <1>8, <1>10 DEF ShapeInv
<1>14. FastInv' BY <1>2, <1>7, <1>10 DEF SimInv, FastInv, Engine
<1>15. EventInv' BY <1>2, <1>10 DEF SimInv, EventInv, NEvents, Unnumbered
<1> QED BY <1>11, <1>12, <1>13, <1>14, <1>15 DEF SimInv

\* a secondary of the engine,
LEMMA MakeSecondaryIs == ASSUME SimInv, MakeSecondary PROVE SimInv'
<1>1. PICK hard \in BOOLEAN, parent \in {stack.current, GetCurrentTrackNumber(stack)} :
        stack' = Pushed(stack, Engine = "Geant3", parent, hard)
  BY DEF MakeSecondary
<1>2. /\ phase = "track"
      /\ todo' = IF Engine = "Geant4" THEN todo \cup {NParticles(stack) + 1} ELSE todo
      /\ truth' = [truth EXCEPT !.of = Append(@, NParticles(stack) + 1),
                                !.mother = Append(@, Now)]
      /\ UNCHANGED <<simSetup, phase, events, points, header, fEventNr, given, fSaveCurrentEvent, stored, created>>
  BY DEF MakeSecondary
<1>3. PICK b \in Nat, c \in Nat :
        /\ b = NParticles(stack) /\ c = Now /\ c = GetCurrentTrackNumber(stack)
        /\ c \in (1 .. b) \ DOMAIN stack.moved /\ c = Original(stack, stack.current)
        /\ stack.current \in 1 .. b
  BY <1>2, NowIs
<1>4. /\ simSetup \in SimSetups /\ IsStack(stack) /\ stack.options = simSetup.options
      /\ todo \subseteq 1 .. b /\ truth \in Truths
  BY <1>3 DEF SimInv, ShapeInv
<1>5. parent \in 1 .. b /\ Original(stack, parent) = c
  <2>1. Original(stack, c) = c BY <1>3 DEF Original
  <2> QED BY <1>3, <2>1
<1>6. PICK e : e = [mother |-> parent, hard |-> hard] /\ e.mother = parent /\ e \in Particles
  <2>1. PICK m \in Int : m = parent BY <1>5
  <2>2. PICK e : e = [mother |-> m, hard |-> hard] OBVIOUS
  <2>3. e \in Particles /\ e.mother = m BY <2>2 DEF Particles
  <2> QED BY <2>1, <2>2, <2>3
<1>7. stack' \in StacksFrom(stack) /\ IsStack(stack') /\ stack'.parts = Append(stack.parts, e)
      /\ stack'.n = stack.n
  <2>1. PICK done \in BOOLEAN : done = (Engine = "Geant3") OBVIOUS
  <2>2. stack' = Pushed(stack, done, parent, hard) BY <1>1, <2>1
  <2>3. parent \in Int BY <1>5
  <2> QED BY <1>4, <1>6, <2>2, <2>3, PushedIs
<1>8. /\ stack'.current = stack.current /\ stack'.moved = stack.moved /\ stack'.points = stack.points
      /\ stack'.options = stack.options
  BY <1>7 DEF StacksFrom
<1>9. /\ NParticles(stack') = b + 1 /\ stack'.parts[b + 1] = e
      /\ \A i \in 1 .. b : stack'.parts[i] = stack.parts[i]
  <2>1. stack.parts \in Seq(Particles) /\ Len(stack.parts) = b
    BY <1>3, <1>4 DEF IsStack, StacksFrom, NParticles
  <2> QED BY <1>6, <1>7, <2>1 DEF NParticles
<1>10. Line(stack, truth.of, truth.mother) /\ Credited(stack, points, truth.maker)
  BY DEF SimInv, LineInv, PointInv
<1>11. /\ truth.of \in Seq(Nat) /\ truth.mother \in Seq(Int) /\ Len(truth.of) = b /\ Len(truth.mother) = b
       /\ DOMAIN stack.moved \subseteq 2 .. b
  BY <1>3, <1>10 DEF Line
<1>12. PICK of2, mother2 : of2 = Append(truth.of, b + 1) /\ mother2 = Append(truth.mother, c) OBVIOUS
<1>13. /\ of2 \in Seq(Nat) /\ mother2 \in Seq(Int) /\ Len(of2) = b + 1 /\ Len(mother2) = b + 1
       /\ of2[b + 1] = b + 1 /\ mother2[b + 1] = c
       /\ \A i \in 1 .. b : of2[i] = truth.of[i] /\ mother2[i] = truth.mother[i]
  <2>1. b + 1 \in Nat /\ c \in Int OBVIOUS
  <2> QED BY <1>11, <1>12, <2>1
<1>14. /\ truth'.of = of2 /\ truth'.mother = mother2 /\ truth'.maker = truth.maker
       /\ truth'.pushed = truth.pushed /\ truth'.refused = truth.refused /\ truth' \in Truths
  <2>1. truth' = [truth EXCEPT !.of = of2, !.mother = mother2]
    BY <1>2, <1>3, <1>4, <1>12 DEF Truths
  <2> QED BY <1>4, <1>13, <2>1 DEF Truths
<1>15. Line(stack', of2, mother2)
  <2>1. b + 1 \notin DOMAIN stack'.moved BY <1>8, <1>11
  <2>2. ASSUME NEW i \in b + 1 .. b + 1
        PROVE /\ stack'.parts[i].mother \in {NoTrack} \cup 1 .. i - 1
              /\ mother2[i] \in {NoTrack} \cup 1 .. i - 1
              /\ of2[i] = Original(stack', i)
              /\ mother2[i] = Original(stack', stack'.parts[i].mother)
    <3>1. i = b + 1 /\ i - 1 = b OBVIOUS
    <3>2. Original(stack', i) = i BY <2>1, <3>1 DEF Original
    <3>3. Original(stack', parent) = c BY <1>5, <1>8 DEF Original
    <3>4. stack'.parts[i].mother = parent BY <1>6, <1>9, <3>1
    <3> QED BY <1>3, <1>5, <1>13, <3>1, <3>2, <3>3, <3>4
  <2>3. DOMAIN stack'.moved \cap (1 .. b) = DOMAIN stack.moved /\ DOMAIN stack'.moved \subseteq 2 .. b + 1
    BY <1>8, <1>11
  <2>4. \A i \in DOMAIN stack'.moved : ~(i > b) BY <1>8, <1>11
  <2>5. \A i \in DOMAIN stack.moved : stack'.moved[i] = stack.moved[i] BY <1>8
  <2>6. PICK s, t, of, mother : s = stack /\ t = stack' /\ of = truth.of /\ mother = truth.mother
    OBVIOUS
  <2>7. PICK n \in Nat : n = 1 OBVIOUS
  <2>8. Line(t, of2, mother2)
    <3>1. Line(s, of, mother) /\ b = NParticles(s) BY <1>3, <1>10, <2>6
    <3>2. NParticles(t) = b + n /\ \A i \in 1 .. b : t.parts[i] = s.parts[i] BY <1>9, <2>6, <2>7
    <3>3. /\ of2 \in Seq(Nat) /\ mother2 \in Seq(Int) /\ Len(of2) = b + n /\ Len(mother2) = b + n
          /\ \A i \in 1 .. b : of2[i] = of[i] /\ mother2[i] = mother[i]
      BY <1>13, <2>6, <2>7
    <3>4. /\ DOMAIN t.moved \cap (1 .. b) = DOMAIN s.moved /\ DOMAIN t.moved \subseteq 2 .. b + n
          /\ \A i \in DOMAIN s.moved : t.moved[i] = s.moved[i]
      BY <2>3, <2>5, <2>6, <2>7
    <3>5. \A i \in DOMAIN t.moved : i > b => /\ t.moved[i] \in (1 .. b) \ DOMAIN s.moved
                                            /\ t.parts[i].mother = FirstTrack
      BY <2>4, <2>6
    <3>6. \A i \in b + 1 .. b + n :
              /\ t.parts[i].mother \in {NoTrack} \cup 1 .. i - 1
              /\ mother2[i] \in {NoTrack} \cup 1 .. i - 1
              /\ of2[i] = Original(t, i)
              /\ i \notin DOMAIN t.moved => mother2[i] = Original(t, t.parts[i].mother)
      BY <2>2, <2>6, <2>7
    <3>7. Grown(s, of, mother, b, t, n, of2, mother2)
      BY <3>1, <3>2, <3>3, <3>4, <3>5, <3>6 DEF Grown
    <3> QED BY <3>1, <3>7, LineGrows
  <2> QED BY <2>6, <2>8
<1>16. Credited(stack', points, truth.maker)
  <2>1. DOMAIN stack'.moved \cap (1 .. b) = DOMAIN stack.moved BY <1>8, <1>11
  <2>2. 1 \in Nat OBVIOUS
  <2> QED BY <1>3, <1>8, <1>9, <1>10, <2>1, <2>2, CreditedKept
<1>17. LineInv' /\ PointInv' BY <1>2, <1>14, <1>15, <1>16 DEF LineInv, PointInv
<1>18. ShapeInv'
  <2>1. todo' \subseteq 1 .. b + 1 BY <1>2, <1>3, <1>4
  <2>2. stack'.current \in 1 .. b + 1 BY <1>3, <1>8
  <2> QED BY <1>2, <1>4, <1>7, <1>8, <1>9, <1>14, <2>1, <2>2 DEF ShapeInv
<1>19. FastInv' BY <1>2, <1>7, <1>14 DEF SimInv, FastInv, Engine
<1>20. EventInv' BY <1>2, <1>14 DEF SimInv, EventInv, NEvents, Unnumbered
<1> QED BY <1>17, <1>18, <1>19, <1>20 DEF SimInv

\* c has the m elements of s and then the n elements of t.
Joined(c, s, t, m, n) ==
    /\ Len(c) = m + n /\ \A i \in 1 .. m : c[i] = s[i]
    /\ \A j \in 1 .. n : c[m + j] = t[j]

\* That is what \o gives.
LEMMA JoinedIs ==
    ASSUME NEW S, NEW s \in Seq(S), NEW t \in Seq(S)
    PROVE s \o t \in Seq(S) /\ Joined(s \o t, s, t, Len(s), Len(t))
<1>1. IsSeq(s) /\ IsSeq(t) BY DEF IsSeq
<1>2. PICK m \in Nat, n \in Nat : m = Len(s) /\ n = Len(t) /\ DOMAIN s = 1 .. m /\ DOMAIN t = 1 .. n OBVIOUS
<1>3. PICK c : c = s \o t OBVIOUS
<1>4. Len(c) = m + n /\ (\A i \in 1 .. m : c[i] = s[i]) /\ \A j \in 1 .. n : c[m + j] = t[j]
  BY <1>1, <1>2, <1>3, ConcatIs
<1>5. c \in Seq(S) BY <1>3
<1> QED BY <1>2, <1>3, <1>4, <1>5 DEF Joined

\* What the history is given with n particles of a call: F says who they are, G who made them.
Told(n, b, c, before, m, mother, F, G) ==
    /\ F \in Seq(Nat) /\ Len(F) = n /\ G \in Seq(Int) /\ Len(G) = n
    /\ \A j \in 1 .. n : /\ (m = 1 /\ j = before + 1) => F[j] = c /\ G[j] = mother[c]
                         /\ ~(m = 1 /\ j = before + 1) => F[j] = b + j /\ G[j] = c

\* What FastSimProcessParticle adds to the history.
Entered(n, b, c, before, m) == [j \in 1 .. n |-> IF m = 1 /\ j = before + 1 THEN c ELSE b + j]
Produced(n, c, before, m, x) == [j \in 1 .. n |-> IF m = 1 /\ j = before + 1 THEN x ELSE c]

\* That is what the history needs.
LEMMA ToldIs ==
    ASSUME NEW n \in Nat, NEW b \in Nat, NEW c \in Nat, NEW before \in Nat, NEW m \in 0 .. 1,
           NEW mother, NEW x \in Int, x = mother[c]
    PROVE Told(n, b, c, before, m, mother, Entered(n, b, c, before, m), Produced(n, c, before, m, x))
<1>1. PICK F, G : F = Entered(n, b, c, before, m) /\ G = Produced(n, c, before, m, x) OBVIOUS
<1>2. /\ F = [j \in 1 .. n |-> IF m = 1 /\ j = before + 1 THEN c ELSE b + j]
      /\ G = [j \in 1 .. n |-> IF m = 1 /\ j = before + 1 THEN x ELSE c]
  BY <1>1 DEF Entered, Produced
<1>3. ASSUME NEW j \in 1 .. n
      PROVE /\ F[j] \in Nat /\ G[j] \in Int
            /\ (m = 1 /\ j = before + 1) => F[j] = c /\ G[j] = x
            /\ ~(m = 1 /\ j = before + 1) => F[j] = b + j /\ G[j] = c
  <2>1. F[j] = IF m = 1 /\ j = before + 1 THEN c ELSE b + j BY <1>2
  <2>2. G[j] = IF m = 1 /\ j = before + 1 THEN x ELSE c BY <1>2
  <2>3. b + j \in Nat /\ c \in Nat /\ c \in Int /\ x \in Int OBVIOUS
  <2> QED BY <2>1, <2>2, <2>3, Zenon
<1>4. F \in [1 .. n -> Nat] /\ G \in [1 .. n -> Int]
  <2>1. F = [j \in 1 .. n |-> F[j]] /\ G = [j \in 1 .. n |-> G[j]] BY <1>2
  <2> QED BY <1>3, <2>1, Zenon
<1>5. F \in Seq(Nat) /\ Len(F) = n /\ G \in Seq(Int) /\ Len(G) = n
  <2>1. PICK f \in [1 .. n -> Nat], g \in [1 .. n -> Int] : f = F /\ g = G BY <1>4
  <2>2. f \in Seq(Nat) /\ Len(f) = n /\ g \in Seq(Int) /\ Len(g) = n OBVIOUS
  <2> QED BY <2>1, <2>2
<1>6. \A j \in 1 .. n : /\ (m = 1 /\ j = before + 1) => F[j] = c /\ G[j] = mother[c]
                        /\ ~(m = 1 /\ j = before + 1) => F[j] = b + j /\ G[j] = c
  BY <1>3, Zenon
<1> QED BY <1>1, <1>5, <1>6, Zenon DEF Told

\* Who the particles are after a call, and who made them.
LEMMA CallLine ==
    ASSUME NEW s, NEW of, NEW mother, Line(s, of, mother), NEW b \in Nat, b = NParticles(s),
           NEW c \in Nat, c \in (1 .. b) \ DOMAIN s.moved, NEW before \in Nat, NEW after \in Nat,
           NEW m \in 0 .. 1, NEW n \in Nat, n = before + m + after,
           NEW t, Called(s, b, c, before, after, m, t),
           NEW F, NEW G, Told(n, b, c, before, m, mother, F, G)
    PROVE Line(t, of \o F, mother \o G) /\ of \o F \in Seq(Nat) /\ mother \o G \in Seq(Int)
<1> DEFINE k == b + before + 1
<1>1. /\ of \in Seq(Nat) /\ mother \in Seq(Int) /\ Len(of) = b /\ Len(mother) = b
      /\ DOMAIN s.moved \subseteq 2 .. b
      /\ mother[c] \in {NoTrack} \cup 1 .. c - 1
  BY DEF Line
<1>2. F \in Seq(Nat) /\ Len(F) = n /\ G \in Seq(Int) /\ Len(G) = n BY DEF Told
<1>3. \A j \in 1 .. n : /\ (m = 1 /\ j = before + 1) => F[j] = c /\ G[j] = mother[c]
                        /\ ~(m = 1 /\ j = before + 1) => F[j] = b + j /\ G[j] = c
  BY DEF Told
<1>4. PICK of2, mother2 : of2 = of \o F /\ mother2 = mother \o G OBVIOUS
<1>5. /\ of2 \in Seq(Nat) /\ Len(of2) = b + n /\ (\A i \in 1 .. b : of2[i] = of[i])
      /\ \A j \in 1 .. n : of2[b + j] = F[j]
  <2>1. of \o F \in Seq(Nat) /\ Joined(of \o F, of, F, Len(of), Len(F)) BY <1>1, <1>2, JoinedIs
  <2> QED BY <1>1, <1>2, <1>4, <2>1 DEF Joined
<1>6. /\ mother2 \in Seq(Int) /\ Len(mother2) = b + n /\ (\A i \in 1 .. b : mother2[i] = mother[i])
      /\ \A j \in 1 .. n : mother2[b + j] = G[j]
  <2>1. mother \o G \in Seq(Int) /\ Joined(mother \o G, mother, G, Len(mother), Len(G))
    BY <1>1, <1>2, JoinedIs
  <2> QED BY <1>1, <1>2, <1>4, <2>1 DEF Joined
<1>7. /\ NParticles(t) = b + n
      /\ (\A i \in 1 .. b : t.parts[i] = s.parts[i])
      /\ DOMAIN t.moved = DOMAIN s.moved \cup (IF m = 1 THEN {b + before + 1} ELSE {})
      /\ (\A i \in DOMAIN s.moved : t.moved[i] = s.moved[i])
      /\ m = 1 => t.moved[b + before + 1] = c
  <2>1. NParticles(t) = b + before + m + after BY DEF Called
  <2>2. NParticles(t) = b + n BY <2>1
  <2> QED BY <2>2 DEF Called
<1>8. \A j \in 1 .. n : /\ (m = 1 /\ j = before + 1) => t.parts[b + j].mother = FirstTrack
                        /\ ~(m = 1 /\ j = before + 1) => t.parts[b + j].mother = c
  <2>1. \A j \in 1 .. before + m + after :
          t.parts[b + j].mother = IF m = 1 /\ j = before + 1 THEN FirstTrack ELSE c
    BY Zenon DEF Called
  <2> QED BY <2>1
<1>9. k \in b + 1 .. b + n \/ m = 0 OBVIOUS
<1>10. ASSUME NEW i \in DOMAIN t.moved PROVE i \in DOMAIN s.moved \/ (m = 1 /\ i = k)
  BY <1>7
<1>11. m = 1 => k \in DOMAIN t.moved /\ t.moved[k] = c BY <1>7
<1>12. k \notin 1 .. b /\ DOMAIN s.moved \subseteq DOMAIN t.moved /\ c # k BY <1>7
<1>13. c \notin DOMAIN t.moved /\ Original(t, c) = c
  <2>1. c \notin DOMAIN t.moved BY <1>10, <1>12
  <2> QED BY <2>1 DEF Original
<1>14. DOMAIN t.moved \cap (1 .. b) = DOMAIN s.moved /\ DOMAIN t.moved \subseteq 2 .. b + n
  <2>1. ASSUME NEW i \in DOMAIN t.moved PROVE i \in 2 .. b + n /\ (i \in 1 .. b => i \in DOMAIN s.moved)
    <3>1. CASE i \in DOMAIN s.moved BY <1>1, <3>1
    <3>2. CASE m = 1 /\ i = k
      <4>1. k \in 2 .. b + n BY <3>2
      <4> QED BY <1>12, <3>2, <4>1
    <3> QED BY <1>10, <3>1, <3>2
  <2>2. \A i \in DOMAIN s.moved : i \in 1 .. b BY <1>1
  <2> QED BY <1>12, <2>1, <2>2
<1>15. ASSUME NEW i \in DOMAIN t.moved, i > b
       PROVE t.moved[i] \in (1 .. b) \ DOMAIN s.moved /\ t.parts[i].mother = FirstTrack
  <2>1. i \notin DOMAIN s.moved BY <1>1, <1>15
  <2>2. m = 1 /\ i = k BY <1>10, <2>1
  <2>3. before + 1 \in 1 .. n /\ b + (before + 1) = k BY <2>2
  <2>4. t.parts[k].mother = FirstTrack
    <3>1. PICK j \in 1 .. n : j = before + 1 /\ b + j = k BY <2>3
    <3> HIDE DEF k
    <3> QED BY <1>8, <2>2, <3>1, Zenon
  <2> QED BY <1>11, <2>2, <2>4
<1>16. ASSUME NEW i \in b + 1 .. b + n
       PROVE /\ t.parts[i].mother \in {NoTrack} \cup 1 .. i - 1
             /\ mother2[i] \in {NoTrack} \cup 1 .. i - 1
             /\ of2[i] = Original(t, i)
             /\ i \notin DOMAIN t.moved => mother2[i] = Original(t, t.parts[i].mother)
  <2>1. PICK j \in 1 .. n : i = b + j
    <3>1. i - b \in 1 .. n /\ i = b + (i - b) OBVIOUS
    <3> QED BY <3>1
  <2>2. c \in 1 .. i - 1 /\ FirstTrack \in 1 .. i - 1 BY DEF FirstTrack
  <2>3. mother[c] \in {NoTrack} \cup 1 .. i - 1
    <3>1. 1 .. c - 1 \subseteq 1 .. i - 1 BY <2>2
    <3> QED BY <1>1, <3>1
  <2>4. of2[i] = F[j] /\ mother2[i] = G[j] BY <1>5, <1>6, <2>1
  <2>5. CASE m = 1 /\ j = before + 1
    <3>1. i = k BY <2>1, <2>5
    <3>2. F[j] = c /\ G[j] = mother[c] BY <1>3, <2>5, Zenon
    <3>3. t.parts[i].mother = FirstTrack BY <1>8, <2>1, <2>5, Zenon
    <3>4. Original(t, i) = c /\ i \in DOMAIN t.moved BY <1>11, <2>5, <3>1 DEF Original
    <3> QED BY <2>2, <2>3, <2>4, <3>2, <3>3, <3>4
  <2>6. CASE ~(m = 1 /\ j = before + 1)
    <3>1. ~(m = 1 /\ i = k) BY <2>1, <2>6
    <3>2. i \notin DOMAIN s.moved BY <1>1
    <3>3. i \notin DOMAIN t.moved BY <1>10, <3>1, <3>2
    <3>4. F[j] = i /\ G[j] = c /\ t.parts[i].mother = c BY <1>3, <1>8, <2>1, <2>6
    <3>5. Original(t, i) = i BY <3>3 DEF Original
    <3> QED BY <1>13, <2>2, <2>4, <3>4, <3>5
  <2> QED BY <2>5, <2>6
<1>17. Grown(s, of, mother, b, t, n, of2, mother2)
  BY <1>5, <1>6, <1>7, <1>14, <1>15, <1>16 DEF Grown
<1> QED BY <1>4, <1>5, <1>6, <1>17, LineGrows

\* The secondaries that were pushed before and after the particle was moved or stopped.
PushedBoth(s, before, s2, after) == PushedIds(s, before) \o PushedIds(s2, after)

\* A call on a stack on which no earlier one has left secondaries.
FromNone(s, b, c, before, after, m, s2, t) ==
    /\ s.n = 0 /\ b = NParticles(s) /\ NParticles(s2) = b + before + m
    /\ Called(s, b, c, before, after, m, t)

\* What Geant4 is given.
LEMMA CallCreates ==
    ASSUME NEW s, NEW b, NEW c, NEW before \in Nat, NEW after \in Nat, NEW m \in 0 .. 1, NEW s2, NEW t,
           FromNone(s, b, c, before, after, m, s2, t)
    PROVE DoItCreates(t) = PushedBoth(s, before, s2, after)
<1>1. /\ s.n = 0 /\ b = NParticles(s) /\ NParticles(s2) = b + before + m
      /\ Called(s, b, c, before, after, m, t)
  BY DEF FromNone
<1>2. /\ b \in Nat /\ m \in 0 .. 1 /\ t.index = (IF m = 1 THEN b + before + 1 ELSE Stopped)
      /\ t.n = before + after
      /\ before # 0 => t.first = b + 1
      /\ before = 0 /\ after # 0 => t.first = b + m + 1
  BY <1>1 DEF Called
<1>3. PICK x, y : x = PushedIds(s, before) /\ y = PushedIds(s2, after) OBVIOUS
<1>4. x \in Seq(Nat) /\ Len(x) = before /\ \A k \in 1 .. before : x[k] = b + k
  <2>1. x = [k \in 1 .. before |-> b + k] BY <1>1, <1>3 DEF PushedIds
  <2>2. x \in [1 .. before -> Nat] BY <1>2, <2>1
  <2> QED BY <2>1, <2>2
<1>5. y \in Seq(Nat) /\ Len(y) = after /\ \A k \in 1 .. after : y[k] = b + before + m + k
  <2>0. PICK w \in Nat : w = b + before + m BY <1>2
  <2>1. y = [k \in 1 .. after |-> w + k] BY <1>1, <1>3, <2>0 DEF PushedIds
  <2>2. y \in [1 .. after -> Nat] BY <2>1
  <2>3. y \in Seq(Nat) /\ Len(y) = after BY <2>2
  <2>4. \A k \in 1 .. after : y[k] = w + k BY <2>1
  <2> QED BY <2>0, <2>3, <2>4
<1>6. PICK n \in Nat : n = before + after OBVIOUS
<1>7. PICK z : z = x \o y OBVIOUS
<1>8. /\ z \in [1 .. n -> Nat]
      /\ (\A k \in 1 .. before : z[k] = b + k)
      /\ \A k \in 1 .. after : z[before + k] = b + before + m + k
  <2>1. /\ z \in Seq(Nat) /\ Len(z) = n /\ (\A k \in 1 .. before : z[k] = x[k])
        /\ \A k \in 1 .. after : z[before + k] = y[k]
    <3>1. x \in Seq(Nat) /\ Len(x) = before /\ y \in Seq(Nat) /\ Len(y) = after BY <1>4, <1>5
    <3>2. x \o y \in Seq(Nat) /\ Joined(x \o y, x, y, Len(x), Len(y)) BY <3>1, JoinedIs
    <3> QED BY <1>6, <1>7, <3>1, <3>2 DEF Joined
  <2>2. z \in [1 .. n -> Nat] BY <2>1
  <2>3. \A k \in 1 .. before : z[k] = b + k BY <1>4, <2>1
  <2>4. \A k \in 1 .. after : z[before + k] = b + before + m + k BY <1>5, <2>1
  <2> QED BY <2>2, <2>3, <2>4
<1>9. PICK d : d = DoItCreates(t) OBVIOUS
<1>10. d = [k \in 1 .. n |-> IF t.index \in t.first .. t.first + k - 1 THEN t.first + k - 1 + 1
                            ELSE t.first + k - 1]
  BY <1>2, <1>6, <1>9 DEF DoItCreates
<1>11. ASSUME NEW k \in 1 .. n PROVE d[k] = z[k]
  <2>1. PICK a : a = t.first + k - 1 OBVIOUS
  <2>2. d[k] = IF t.index \in t.first .. a THEN a + 1 ELSE a BY <1>10, <2>1
  <2>3. CASE before # 0
    <3>1. t.first = b + 1 /\ a = b + k BY <1>2, <2>1, <2>3
    <3>2. CASE k <= before
      <4>1. t.index \notin t.first .. a BY <1>2, <3>1, <3>2 DEF Stopped
      <4>2. k \in 1 .. before BY <3>2
      <4> QED BY <1>8, <2>2, <3>1, <4>1, <4>2
    <3>3. CASE k > before
      <4>1. k - before \in 1 .. after /\ before + (k - before) = k BY <1>6, <3>3
      <4>2. z[k] = b + before + m + (k - before) BY <1>8, <4>1
      <4>3. z[k] = b + m + k BY <1>2, <4>2
      <4>4. CASE m = 1
        <5>1. t.index = b + before + 1 /\ m = 1 BY <1>2, <4>4
        <5>2. t.index \in t.first .. a BY <1>2, <3>1, <3>3, <5>1
        <5>3. d[k] = b + k + 1 BY <2>2, <3>1, <5>2
        <5> QED BY <1>2, <4>3, <5>1, <5>3
      <4>5. CASE m = 0
        <5>1. t.index = Stopped /\ m = 0 BY <1>2, <4>5
        <5>2. t.index \notin t.first .. a BY <1>2, <3>1, <5>1 DEF Stopped
        <5>3. d[k] = b + k BY <2>2, <3>1, <5>2
        <5> QED BY <1>2, <4>3, <5>1, <5>3
      <4> QED BY <4>4, <4>5
    <3> QED BY <3>2, <3>3
  <2>4. CASE before = 0
    <3>1. after # 0 /\ k \in 1 .. after /\ before + k = k BY <1>6, <2>4
    <3>2. t.first = b + m + 1 /\ a = b + m + k BY <1>2, <2>1, <2>4, <3>1
    <3>3. z[k] = b + m + k
      <4>1. z[k] = b + before + m + k BY <1>8, <3>1
      <4> QED BY <1>2, <2>4, <4>1
    <3>4. t.index \notin t.first .. a
      <4>1. CASE m = 1
        <5>1. t.index = b + before + 1 /\ m = 1 BY <1>2, <4>1
        <5> QED BY <1>2, <2>4, <3>2, <5>1
      <4>2. CASE m = 0
        <5>1. t.index = Stopped BY <1>2, <4>2
        <5> QED BY <1>2, <3>2, <5>1 DEF Stopped
      <4> QED BY <4>1, <4>2
    <3> QED BY <2>2, <3>2, <3>3, <3>4
  <2> QED BY <2>3, <2>4
<1>12. d = z
  <2>1. d = [k \in 1 .. n |-> d[k]] /\ z = [k \in 1 .. n |-> z[k]] BY <1>8, <1>10
  <2>2. DOMAIN d = 1 .. n /\ DOMAIN z = 1 .. n BY <2>1
  <2> QED BY <1>11, <2>1, <2>2
<1> QED BY <1>3, <1>7, <1>9, <1>12 DEF PushedBoth

\* Clearing the indices of fast simulation.
LEMMA ClearedIndexIs ==
    ASSUME NEW s, IsStack(s), NEW t, t = FastSimClearMovedIndex(s)
    PROVE /\ IsStack(t) /\ t.parts = s.parts /\ t.current = s.current /\ t.moved = s.moved
          /\ t.points = s.points /\ t.options = s.options /\ t.n = 0 /\ NParticles(t) = NParticles(s)
<1>1. PICK k \in Int : k = NotMoved BY DEF NotMoved
<1>2. t = [s EXCEPT !.index = k, !.first = k, !.n = 0] BY <1>1 DEF FastSimClearMovedIndex
<1>3. /\ t \in StacksFrom(s) /\ t.parts = s.parts /\ t.lifo = s.lifo /\ t.current = s.current
      /\ t.moved = s.moved /\ t.points = s.points /\ t.options = s.options /\ t.n = 0
  <2>1. s \in StacksFrom(s) BY DEF IsStack
  <2>2. PICK z \in Nat : z = 0 OBVIOUS
  <2>3. t = [s EXCEPT !.index = k, !.first = k, !.n = z] BY <1>2, <2>2
  <2>4. t \in StacksFrom(s) BY <2>1, <2>3 DEF StacksFrom
  <2>5. /\ t.parts = s.parts /\ t.lifo = s.lifo /\ t.current = s.current
        /\ t.moved = s.moved /\ t.points = s.points /\ t.options = s.options /\ t.n = z
    BY <2>1, <2>3 DEF StacksFrom
  <2> QED BY <2>2, <2>4, <2>5
<1>4. StacksFrom(t) = StacksFrom(s) /\ NParticles(t) = NParticles(s) BY <1>3 DEF StacksFrom, NParticles
<1>5. IsStack(t) BY <1>3, <1>4 DEF IsStack
<1> QED BY <1>3, <1>4, <1>5

\* a call of fast simulation,
LEMMA FastSimProcessParticleIs == ASSUME SimInv, FastSimProcessParticle PROVE SimInv'
<1>1. PICK before \in 0 .. 2, after \in 0 .. 2, moves \in BOOLEAN :
         LET s1 == SecondariesPushed(stack, before)
             s2 == IF moves
                   THEN FastSimMoveParticleTo(s1, stack.parts[stack.current].hard)
                   ELSE FastSimStopParticle(s1)
             s3 == SecondariesPushed(s2, after)
             mine == PushedIds(stack, before) \o PushedIds(s2, after)
             new == NParticles(s3) - NParticles(stack)
         IN
         /\ truth' = [truth EXCEPT
              !.of = @ \o [j \in 1 .. new |->
                             IF moves /\ j = before + 1 THEN Now
                             ELSE NParticles(stack) + j],
              !.mother = @ \o [j \in 1 .. new |->
                             IF moves /\ j = before + 1 THEN truth.mother[Now]
                             ELSE Now],
              !.pushed = mine]
         /\ IF Engine = "Geant4"
            THEN /\ created' = DoItCreates(s3)
                 /\ stack' = FastSimClearMovedIndex(s3)
            ELSE /\ created' = <<>>
                 /\ stack' = s3
         /\ phase' = IF Engine = "Geant4" /\ moves THEN "track" ELSE "next"
  BY Zenon DEF FastSimProcessParticle
<1>2. PICK m \in 0 .. 1 : moves <=> m = 1
  <2>1. CASE moves
    <3>1. 1 \in 0 .. 1 OBVIOUS
    <3> QED BY <2>1, <3>1
  <2>2. CASE ~moves
    <3>1. 0 \in 0 .. 1 /\ 0 # 1 OBVIOUS
    <3> QED BY <2>2, <3>1
  <2> QED BY <2>1, <2>2
<1> DEFINE t1 == SecondariesPushed(stack, before)
           t2 == IF moves THEN FastSimMoveParticleTo(t1, stack.parts[stack.current].hard)
                 ELSE FastSimStopParticle(t1)
           t3 == SecondariesPushed(t2, after)
<1>3. PICK s1, s2, s3, mine, new :
        /\ Calls(stack, before, after, m, s1, s2, s3)
        /\ mine = PushedIds(stack, before) \o PushedIds(s2, after)
        /\ new = NParticles(s3) - NParticles(stack)
        /\ truth' = [truth EXCEPT
              !.of = @ \o [j \in 1 .. new |->
                             IF moves /\ j = before + 1 THEN Now ELSE NParticles(stack) + j],
              !.mother = @ \o [j \in 1 .. new |->
                             IF moves /\ j = before + 1 THEN truth.mother[Now] ELSE Now],
              !.pushed = mine]
        /\ Engine = "Geant4" => created' = DoItCreates(s3) /\ stack' = FastSimClearMovedIndex(s3)
        /\ Engine # "Geant4" => created' = << >> /\ stack' = s3
  <2>1. PICK s1, s2, s3 : s1 = t1 /\ s2 = t2 /\ s3 = t3 OBVIOUS
  <2>2. Calls(stack, before, after, m, s1, s2, s3)
    <3>1. m = 1 => s2 = FastSimMoveParticleTo(s1, stack.parts[stack.current].hard)
      BY <1>2, <2>1, Zenon
    <3>2. m = 0 => s2 = FastSimStopParticle(s1)
      <4>1. m = 0 => ~moves BY <1>2
      <4> QED BY <2>1, <4>1, Zenon
    <3> QED BY <2>1, <3>1, <3>2, Zenon DEF Calls
  <2>3. PICK mine, new : mine = PushedIds(stack, before) \o PushedIds(t2, after)
                         /\ new = NParticles(t3) - NParticles(stack)
    OBVIOUS
  <2>4. mine = PushedIds(stack, before) \o PushedIds(s2, after) /\ new = NParticles(s3) - NParticles(stack)
    BY <2>1, <2>3, Zenon
  <2>5. truth' = [truth EXCEPT
              !.of = @ \o [j \in 1 .. new |->
                             IF moves /\ j = before + 1 THEN Now ELSE NParticles(stack) + j],
              !.mother = @ \o [j \in 1 .. new |->
                             IF moves /\ j = before + 1 THEN truth.mother[Now] ELSE Now],
              !.pushed = mine]
    BY <1>1, <2>3, Zenon
  <2>6. /\ Engine = "Geant4" => created' = DoItCreates(t3) /\ stack' = FastSimClearMovedIndex(t3)
        /\ Engine # "Geant4" => created' = << >> /\ stack' = t3
    BY <1>1, Zenon
  <2> HIDE DEF t1, t2, t3
  <2> QED BY <2>1, <2>2, <2>4, <2>5, <2>6, Zenon
<1> HIDE DEF t1, t2, t3
<1>4. /\ phase = "track" /\ phase' \in {"track", "next"}
      /\ UNCHANGED <<simSetup, events, todo, points, header, fEventNr, given, fSaveCurrentEvent, stored>>
  BY DEF FastSimProcessParticle
<1>5. PICK b \in Nat, c \in Nat :
        /\ b = NParticles(stack) /\ c = Now /\ c = GetCurrentTrackNumber(stack)
        /\ c \in (1 .. b) \ DOMAIN stack.moved
        /\ stack.current \in 1 .. b
  BY <1>4, NowIs
<1>6. /\ simSetup \in SimSetups /\ IsStack(stack) /\ stack.options = simSetup.options
      /\ todo \subseteq 1 .. b /\ truth \in Truths
  BY <1>5 DEF SimInv, ShapeInv
<1>7. Line(stack, truth.of, truth.mother) /\ Credited(stack, points, truth.maker)
  BY DEF SimInv, LineInv, PointInv
<1>8. /\ truth.of \in Seq(Nat) /\ truth.mother \in Seq(Int) /\ Len(truth.of) = b /\ Len(truth.mother) = b
      /\ DOMAIN stack.moved \subseteq 1 .. b
  BY <1>5, <1>7 DEF Line
<1>9. m \in Nat /\ m \in Int OBVIOUS
<1>10. before \in Nat /\ after \in Nat OBVIOUS
<1>11. Called(stack, b, c, before, after, m, s3) /\ NParticles(s2) = b + before + m
  <2>1. Calls(stack, before, after, m, s1, s2, s3) BY <1>3, Zenon
  <2>2. b = NParticles(stack) /\ c \in 1 .. b /\ c \notin DOMAIN stack.moved
        /\ c = GetCurrentTrackNumber(stack) /\ stack.current \in 1 .. b
    BY <1>5
  <2>3. IsStack(stack) /\ DOMAIN stack.moved \subseteq 1 .. b BY <1>6, <1>8
  <2> QED BY <1>10, <2>1, <2>2, <2>3, CallIs
<1>12. PICK n \in Nat : n = before + m + after /\ NParticles(s3) = b + n /\ new = n
  <2>1. NParticles(s3) = b + before + m + after BY <1>11 DEF Called
  <2>2. PICK n \in Nat : n = before + m + after BY <1>10
  <2>3. NParticles(s3) = b + n BY <1>10, <2>1, <2>2
  <2>4. new = n BY <1>3, <1>5, <2>3
  <2> QED BY <2>2, <2>3, <2>4
<1>13. /\ IsStack(s3) /\ s3.current = stack.current /\ s3.points = stack.points
       /\ s3.options = stack.options
  BY <1>11 DEF Called
<1>14. /\ IsStack(stack') /\ stack'.parts = s3.parts /\ stack'.moved = s3.moved
       /\ stack'.current = s3.current /\ stack'.points = s3.points /\ stack'.options = s3.options
       /\ NParticles(stack') = b + n
       /\ Engine = "Geant4" => stack'.n = 0
  <2>1. CASE Engine = "Geant4"
    <3>1. stack' = FastSimClearMovedIndex(s3) BY <1>3, <2>1
    <3> QED BY <1>12, <1>13, <3>1, ClearedIndexIs
  <2>2. CASE Engine # "Geant4"
    <3>1. stack' = s3 BY <1>3, <2>2
    <3> QED BY <1>12, <1>13, <2>2, <3>1
  <2> QED BY <2>1, <2>2
<1>15. PICK F, G :
         /\ F = [j \in 1 .. n |-> IF moves /\ j = before + 1 THEN c ELSE b + j]
         /\ G = [j \in 1 .. n |-> IF moves /\ j = before + 1 THEN truth.mother[c] ELSE c]
  OBVIOUS
<1>16. PICK of2, mother2 : of2 = truth.of \o F /\ mother2 = truth.mother \o G OBVIOUS
<1>17. Line(s3, of2, mother2) /\ of2 \in Seq(Nat) /\ mother2 \in Seq(Int)
  <2>1. PICK s, of, mother : s = stack /\ of = truth.of /\ mother = truth.mother OBVIOUS
  <2>2. /\ Line(s, of, mother) /\ b = NParticles(s) /\ c \in (1 .. b) \ DOMAIN s.moved
        /\ Called(s, b, c, before, after, m, s3)
    BY <1>5, <1>7, <1>11, <2>1
  <2>3. PICK x \in Int : x = mother[c] BY <1>5, <1>8, <2>1
  <2>6. F = Entered(n, b, c, before, m)
    BY <1>2, <1>15, Zenon DEF Entered
  <2>7. G = Produced(n, c, before, m, x)
    BY <1>2, <1>15, <2>1, <2>3, Zenon DEF Produced
  <2>11. Told(n, b, c, before, m, mother, F, G) BY <1>10, <2>3, <2>6, <2>7, ToldIs
  <2>12. n = before + m + after BY <1>12
  <2>13. /\ Line(s3, of \o F, mother \o G) /\ of \o F \in Seq(Nat) /\ mother \o G \in Seq(Int)
    BY <1>10, <2>2, <2>11, <2>12, CallLine
  <2> QED BY <1>16, <2>1, <2>13
<1>18. mine \in Seq(Nat)
  <2>1. PushedIds(stack, before) \in Seq(Nat) BY <1>5, <1>10 DEF PushedIds
  <2>2. PushedIds(s2, after) \in Seq(Nat)
    <3>1. NParticles(s2) \in Nat BY <1>5, <1>9, <1>10, <1>11
    <3> QED BY <1>10, <3>1 DEF PushedIds
  <2> QED BY <1>3, <2>1, <2>2
<1>19. /\ truth'.of = of2 /\ truth'.mother = mother2 /\ truth'.maker = truth.maker
       /\ truth'.pushed = mine /\ truth'.refused = truth.refused /\ truth' \in Truths
  <2>1. truth' = [truth EXCEPT !.of = of2, !.mother = mother2, !.pushed = mine]
    <3>1. truth' = [truth EXCEPT
              !.of = truth.of \o [j \in 1 .. n |-> IF moves /\ j = before + 1 THEN c ELSE b + j],
              !.mother = truth.mother \o [j \in 1 .. n |->
                             IF moves /\ j = before + 1 THEN truth.mother[c] ELSE c],
              !.pushed = mine]
      BY <1>3, <1>5, <1>6, <1>12, Zenon
    <3> QED BY <1>15, <1>16, <3>1, Zenon
  <2> QED BY <1>6, <1>17, <1>18, <2>1 DEF Truths
<1>20. LineInv'
  <2>1. Line(stack', of2, mother2) BY <1>14, <1>17, LineSame
  <2> QED BY <1>19, <2>1 DEF LineInv
<1>21. PointInv'
  <2>1. DOMAIN stack'.moved \cap (1 .. b) = DOMAIN stack.moved
    <3>1. DOMAIN s3.moved = DOMAIN stack.moved \cup (IF m = 1 THEN {b + before + 1} ELSE {})
      BY <1>11 DEF Called
    <3>2. b + before + 1 \notin 1 .. b BY <1>10
    <3> QED BY <1>8, <1>14, <3>1, <3>2
  <2>2. stack'.points = stack.points BY <1>13, <1>14
  <2>3. Credited(stack', points, truth.maker) BY <1>5, <1>7, <1>12, <1>14, <2>1, <2>2, CreditedKept
  <2> QED BY <1>4, <1>19, <2>3 DEF PointInv
<1>22. ShapeInv'
  <2>1. todo' \subseteq 1 .. b + n BY <1>4, <1>6
  <2>2. stack'.current \in 1 .. b + n BY <1>5, <1>13, <1>14
  <2> QED BY <1>4, <1>6, <1>13, <1>14, <1>19, <2>1, <2>2 DEF ShapeInv
<1>23. FastInv'
  <2>1. CASE Engine = "Geant4"
    <3>1. stack.n = 0 BY <2>1 DEF SimInv, FastInv
    <3>2. DoItCreates(s3) = PushedBoth(stack, before, s2, after)
      <4>1. Called(stack, b, c, before, after, m, s3) /\ NParticles(s2) = b + before + m BY <1>11
      <4>2. b = NParticles(stack) BY <1>5
      <4>3. FromNone(stack, b, c, before, after, m, s2, s3) BY <3>1, <4>1, <4>2 DEF FromNone
      <4> QED BY <1>10, <4>3, CallCreates
    <3>3. created' = mine
      <4>1. mine = PushedBoth(stack, before, s2, after) BY <1>3 DEF PushedBoth
      <4> QED BY <1>3, <2>1, <3>2, <4>1
    <3> QED BY <1>14, <1>19, <2>1, <3>3 DEF FastInv
  <2>2. CASE Engine # "Geant4"
    <3>1. Engine' # "Geant4" BY <1>4, <2>2 DEF Engine
    <3> QED BY <3>1 DEF FastInv
  <2> QED BY <2>1, <2>2
<1>24. EventInv' BY <1>4, <1>19 DEF SimInv, EventInv, NEvents, Unnumbered
<1> QED BY <1>20, <1>21, <1>22, <1>23, <1>24 DEF SimInv

\* and a step that changes nothing.
LEMMA SimSameIs == ASSUME SimInv, UNCHANGED simVars PROVE SimInv'
  BY DEF SimInv, ShapeInv, LineInv, PointInv, FastInv, EventInv, Cleared, Engine, NEvents, simVars,
         Unnumbered

\* The inductive invariant holds in every state of every simulation.
THEOREM SimInvariant == SimSpec => []SimInv
<1>1. SimInit => SimInv BY SimInitIs
<1>2. SimInv /\ [SimNext]_simVars => SimInv'
  <2> SUFFICES ASSUME SimInv, [SimNext]_simVars PROVE SimInv'
    OBVIOUS
  <2>1. CASE GenerateEvent BY <2>1, GenerateEventIs
  <2>2. CASE GeneratorEnds BY <2>2, GeneratorEndsIs
  <2>3. CASE NextTrack BY <2>3, NextTrackIs
  <2>4. CASE ProcessHits BY <2>4, ProcessHitsIs
  <2>5. CASE MakeSecondary BY <2>5, MakeSecondaryIs
  <2>6. CASE FastSimProcessParticle BY <2>6, FastSimProcessParticleIs
  <2>7. CASE EndTrack BY <2>7, EndTrackIs
  <2>8. CASE DoNotSave BY <2>8, DoNotSaveIs
  <2>9. CASE EngineFinishesEvent BY <2>9, EngineFinishesEventIs
  <2>10. CASE UNCHANGED simVars BY <2>10, SimSameIs
  <2> QED BY <2>1, <2>2, <2>3, <2>4, <2>5, <2>6, <2>7, <2>8, <2>9, <2>10 DEF SimNext
<1> QED BY <1>1, <1>2, PTL DEF SimSpec

\* It implies the property.
LEMMA FastSimRightIs == SimInv => FastSimRight
<1> SUFFICES ASSUME SimInv PROVE FastSimRight
  OBVIOUS
<1>1. /\ simSetup \in SimSetups /\ phase \in {"begin", "next", "track", "done", "exit"}
      /\ IsStack(stack)
      /\ phase = "track" => stack.current \in 1 .. NParticles(stack)
  BY DEF SimInv, ShapeInv
<1>2. DOMAIN stack.parts = 1 .. NParticles(stack) BY <1>1 DEF IsStack, StacksFrom, NParticles
<1>3. Line(stack, truth.of, truth.mother) /\ Credited(stack, points, truth.maker)
  BY DEF SimInv, LineInv, PointInv
<1>4. events \in 0 .. NEvents /\ fEventNr \in 0 .. NEvents
  <2>1. NEvents \in Nat BY <1>1, SetupIs
  <2>2. /\ events \in 0 .. NEvents
        /\ phase \in {"next", "track"} => events < NEvents /\ fEventNr \in 0 .. events + 1
        /\ phase \notin {"next", "track"} => fEventNr \in 0 .. events
    BY DEF SimInv, EventInv
  <2>3. CASE phase \in {"next", "track"} BY <2>1, <2>2, <2>3
  <2>4. CASE phase \notin {"next", "track"} BY <2>1, <2>2, <2>4
  <2> QED BY <2>3, <2>4
<1>5. DOMAIN truth.of = DOMAIN stack.parts /\ DOMAIN truth.mother = DOMAIN stack.parts
  <2>1. PICK n \in Nat : n = NParticles(stack) BY <1>1 DEF IsStack, StacksFrom, NParticles
  <2>2. truth.of \in Seq(Nat) /\ Len(truth.of) = n /\ truth.mother \in Seq(Int) /\ Len(truth.mother) = n
    BY <1>3, <2>1 DEF Line
  <2> QED BY <1>2, <2>1, <2>2
<1>6. DOMAIN truth.maker = DOMAIN points BY <1>3 DEF Credited
<1>7. \A i \in 1 .. NParticles(stack) :
        stack.parts[i].mother \in {NoTrack} \cup 1 .. i - 1 /\ truth.of[i] = Original(stack, i)
  BY <1>3 DEF Line
<1>8. SimTypeOK BY <1>1, <1>2, <1>4, <1>5, <1>6, <1>7 DEF SimTypeOK
<1>9. MovedLeadsToOriginal BY <1>2, <1>7 DEF MovedLeadsToOriginal
<1>10. CreatedAsPushed BY DEF SimInv, FastInv, CreatedAsPushed
<1> QED BY <1>8, <1>9, <1>10 DEF FastSimRight

(***************************************************************************)
(* Fast simulation keeps track of which particle is which: a particle      *)
(* that was moved, and moved again, leads in one step to the one it        *)
(* really continues (FastSimMoveParticleTo), and Geant4 gets every         *)
(* secondary a call pushed, once and in order, and not the moved           *)
(* particle (FairFastSimModel::DoIt). For all engines, filters and         *)
(* events.                                                                 *)
(***************************************************************************)
THEOREM FastSimAlwaysRight == SimSpec => []FastSimRight
  BY SimInvariant, FastSimRightIs, PTL

\* The steps that hand an event over are the last of an event, or of a program.
LEMMA StoresIs ==
    ASSUME SimInv, [SimNext]_simVars, Stores
    PROVE \/ /\ phase = "next" /\ EngineFinishesEvent /\ fSaveCurrentEvent /\ ~truth.refused
             /\ stored' = [id |-> LastNumber(given', Cardinality(Unnumbered)),
                           tracks |-> FillTrackArray(stack),
                           points |-> UpdateTrackIndex(stack, points)]
          \/ /\ phase = "begin" /\ phase' = "exit" /\ points = << >>
             /\ \E ps \in Seq([track : BOOLEAN, hard : BOOLEAN]) :
                  stored' = [id |-> Last(given'), tracks |-> FillTrackArray(Added(stack, ps)),
                             points |-> UpdateTrackIndex(Added(stack, ps), points)]
<1>1. /\ phase \in {"begin", "next"} /\ phase' \in {"begin", "done", "exit"} /\ phase' # phase
      /\ stored' # Nothing
  BY DEF Stores
<1>2. CASE EngineFinishesEvent
  <2>1. phase = "next" /\ FinishEvent(stack, header) BY <1>2 DEF EngineFinishesEvent
  <2>2. /\ header = LastNumber(given', Cardinality(Unnumbered))
        /\ fSaveCurrentEvent = ~truth.refused
    BY <1>2, <2>1 DEF SimInv, EventInv, EngineFinishesEvent
  <2> QED BY <1>1, <1>2, <2>1, <2>2 DEF FinishEvent
<1>3. CASE GeneratorEnds
  <2>1. phase = "begin" /\ phase' = "exit"
    BY <1>3 DEF GeneratorEnds
  <2>2. points = << >> BY <2>1, BetweenEvents
  <2>3. PICK ps \in BoundedSeq([track : {TRUE}, hard : {TRUE}], MaxParticles - 1),
             id \in GivenIds :
          FinishEvent(Added(stack, ps), id) /\ given' = Append(given, id)
    BY <1>3 DEF GeneratorEnds
  <2>4. ps \in Seq([track : BOOLEAN, hard : BOOLEAN])
    <3>1. MaxParticles - 1 \in Int BY SetupIs DEF SimInv, ShapeInv
    <3>2. {TRUE} \subseteq BOOLEAN OBVIOUS
    <3> QED BY <3>1, <3>2, BoundedIs
  <2>5. Last(given') = id
    <3>1. given \in Seq(Int) /\ simSetup \in SimSetups BY DEF SimInv, EventInv, ShapeInv
    <3>2. id \in Int BY <2>3, <3>1, SetupIs
    <3> QED BY <2>3, <3>1, <3>2, OneMoreGiven
  <2> QED BY <1>1, <2>1, <2>2, <2>3, <2>4, <2>5 DEF FinishEvent
<1>4. CASE GenerateEvent BY <1>1, <1>4 DEF GenerateEvent
<1>5. CASE NextTrack BY <1>1, <1>5 DEF NextTrack
<1>6. CASE ProcessHits BY <1>1, <1>6 DEF ProcessHits
<1>7. CASE MakeSecondary BY <1>1, <1>7 DEF MakeSecondary
<1>8. CASE FastSimProcessParticle BY <1>1, <1>8 DEF FastSimProcessParticle
<1>9. CASE EndTrack BY <1>1, <1>9 DEF EndTrack
<1>10. CASE DoNotSave BY <1>1, <1>10 DEF DoNotSave
<1>11. CASE UNCHANGED simVars BY <1>1, <1>11 DEF simVars
<1> QED BY <1>2, <1>3, <1>4, <1>5, <1>6, <1>7, <1>8, <1>9, <1>10, <1>11 DEF SimNext

(***************************************************************************)
(* The events are stored under the right numbers: a transported event      *)
(* under the one its generators gave it, and those without one are         *)
(* numbered one after another; an event that StopRun stores because a      *)
(* generator has ended is the last, and has no number but one that was     *)
(* given to itself. Only a transported event that was itself refused is    *)
(* missing (FairMCApplication::FinishEvent, FairPrimaryGenerator::         *)
(* GenerateEvent).                                                         *)
(***************************************************************************)
THEOREM EventsAlwaysRight == SimSpec => EventsRight
<1>1. SimInv /\ [SimNext]_simVars =>
        [Stores =>
           LET own == Last(given') IN
           IF phase = "begin"
           THEN phase' = "exit" /\ stored'.id = own
           ELSE stored'.id = IF own = NoEventID THEN Cardinality(Unnumbered) ELSE own]_simVars
  <2> SUFFICES ASSUME SimInv, [SimNext]_simVars, Stores
               PROVE IF phase = "begin"
                     THEN phase' = "exit" /\ stored'.id = Last(given')
                     ELSE stored'.id = IF Last(given') = NoEventID
                                       THEN Cardinality(Unnumbered) ELSE Last(given')
    OBVIOUS
  <2>1. \/ phase = "next" /\ stored'.id = LastNumber(given', Cardinality(Unnumbered))
        \/ phase = "begin" /\ phase' = "exit" /\ stored'.id = Last(given')
    BY StoresIs
  <2> QED BY <2>1 DEF LastNumber
<1>2. SimInv /\ [SimNext]_simVars =>
        [phase = "next" /\ phase' \in {"begin", "done"} => (stored' = Nothing) = truth.refused]_simVars
  <2> SUFFICES ASSUME SimInv, [SimNext]_simVars, phase = "next", phase' \in {"begin", "done"}
               PROVE (stored' = Nothing) = truth.refused
    OBVIOUS
  <2>1. EngineFinishesEvent
    <3>1. ~(NextTrack \/ ProcessHits \/ MakeSecondary \/ FastSimProcessParticle \/ EndTrack \/ DoNotSave
            \/ GenerateEvent \/ GeneratorEnds \/ UNCHANGED simVars)
      BY DEF NextTrack, ProcessHits, MakeSecondary, FastSimProcessParticle, EndTrack, DoNotSave,
             GenerateEvent, GeneratorEnds, simVars
    <3> QED BY <3>1 DEF SimNext
  <2>2. FinishEvent(stack, header) BY <2>1 DEF EngineFinishesEvent
  <2>3. /\ header # NoEventID /\ fSaveCurrentEvent = ~truth.refused
        /\ truth.refused \in BOOLEAN
    <3>1. truth \in Truths BY DEF SimInv, ShapeInv
    <3>2. header = LastNumber(given, fEventNr) /\ fEventNr \in 0 .. events + 1
      BY DEF SimInv, EventInv
    <3>3. header # NoEventID BY <3>2 DEF LastNumber, NoEventID
    <3> QED BY <3>1, <3>3 DEF SimInv, EventInv, Truths
  <2>4. CASE truth.refused
    <3>1. stored' = Nothing BY <2>2, <2>3, <2>4 DEF FinishEvent
    <3> QED BY <2>4, <3>1
  <2>5. CASE ~truth.refused
    <3>1. stored' = [id |-> header, tracks |-> FillTrackArray(stack), points |-> UpdateTrackIndex(stack, points)]
      BY <2>2, <2>3, <2>5 DEF FinishEvent
    <3>2. stored'.id = header BY <3>1
    <3>3. Nothing.id = NoEventID BY DEF Nothing
    <3>4. stored' # Nothing BY <2>3, <3>2, <3>3
    <3> QED BY <2>3, <2>5, <3>4
  <2> QED BY <2>3, <2>4, <2>5
<1> QED BY <1>1, <1>2, SimInvariant, PTL DEF SimSpec, EventsRight, NumberedAsGiven, MissingOnlyIfRefused
-----------------------------------------------------------------------------
(* What the stack selects at the end of an event. *)

\* The particles of s and those that fast simulation moved: the line of each goes back
\* to particles before it.
Traced(s) ==
    /\ NParticles(s) \in Nat /\ DOMAIN s.moved \subseteq 2 .. NParticles(s)
    /\ \A i \in DOMAIN s.moved : /\ s.moved[i] \in 1 .. i - 1 /\ s.moved[i] \notin DOMAIN s.moved
                                 /\ s.parts[i].mother = FirstTrack
    /\ \A i \in 1 .. NParticles(s) : s.parts[i].mother \in {NoTrack} \cup 1 .. i - 1

\* The mother is an earlier particle that was not made by fast simulation.
LEMMA MotherIs ==
    ASSUME NEW s, Traced(s), NEW i \in 1 .. NParticles(s)
    PROVE Mother(s, i) \in {NoTrack} \cup 1 .. i - 1 /\ Mother(s, i) \notin DOMAIN s.moved
<1>1. PICK x : x = s.parts[i].mother OBVIOUS
<1>2. x \in {NoTrack} \cup 1 .. i - 1 /\ Mother(s, i) = Original(s, x) /\ i \in Nat
  BY <1>1 DEF Traced, Mother
<1>3. CASE x \in DOMAIN s.moved
  <2>1. s.moved[x] \in 1 .. x - 1 /\ s.moved[x] \notin DOMAIN s.moved /\ x \in 2 .. NParticles(s)
    BY <1>3 DEF Traced
  <2>2. x \in 1 .. i - 1
    <3>1. NoTrack \notin 2 .. NParticles(s) BY DEF NoTrack
    <3> QED BY <1>2, <2>1, <3>1
  <2>3. s.moved[x] \in 1 .. i - 1 BY <1>2, <2>1, <2>2
  <2> QED BY <1>2, <1>3, <2>1, <2>3 DEF Original
<1>4. CASE x \notin DOMAIN s.moved BY <1>2, <1>4 DEF Original
<1> QED BY <1>3, <1>4

\* g gives each of n particles its line of ancestors, m being their mothers.
Ancestry(g, n, m) ==
    /\ g[0] = {}
    /\ \A i \in 1 .. n : g[i] = {i} \cup (IF m[i] < 0 THEN {} ELSE g[m[i]])

\* There are such lines: they go from particle to particle upwards.
LEMMA AncestryExists ==
    ASSUME NEW n \in Nat, NEW m \in [1 .. n -> Int],
           \A i \in 1 .. n : m[i] \in {NoTrack} \cup 1 .. i - 1
    PROVE \E g : DOMAIN g = 0 .. n /\ Ancestry(g, n, m)
<1> DEFINE T == {k \in 0 .. n : \E g : DOMAIN g = 0 .. k /\ Ancestry(g, k, m)}
<1>1. 0 \in T
  <2> DEFINE g == [i \in 0 .. 0 |-> {}]
  <2>1. DOMAIN g = 0 .. 0 /\ g[0] = {} /\ 1 .. 0 = {} OBVIOUS
  <2> HIDE DEF g
  <2>2. Ancestry(g, 0, m) BY <2>1 DEF Ancestry
  <2> QED BY <2>1, <2>2
<1>2. ASSUME NEW k \in 0 .. n - 1, k \in T PROVE k + 1 \in T
  <2>1. PICK g : DOMAIN g = 0 .. k /\ Ancestry(g, k, m) BY <1>2
  <2> DEFINE new == {k + 1} \cup (IF m[k + 1] < 0 THEN {} ELSE g[m[k + 1]])
             h == [i \in 0 .. k + 1 |-> IF i = k + 1 THEN new ELSE g[i]]
  <2>2. DOMAIN h = 0 .. k + 1 /\ h[k + 1] = new /\ \A i \in 0 .. k : h[i] = g[i] OBVIOUS
  <2>3. ASSUME NEW i \in 1 .. k + 1
        PROVE h[i] = {i} \cup (IF m[i] < 0 THEN {} ELSE h[m[i]])
    <3>1. m[i] \in {NoTrack} \cup 1 .. i - 1 /\ i \in Nat BY <1>2, <2>3
    <3>2. m[i] < 0 \/ m[i] \in 0 .. k
      <4>1. NoTrack < 0 BY DEF NoTrack
      <4>2. 1 .. i - 1 \subseteq 0 .. k BY <2>3
      <4> QED BY <3>1, <4>1, <4>2
    <3>3. (IF m[i] < 0 THEN {} ELSE h[m[i]]) = (IF m[i] < 0 THEN {} ELSE g[m[i]])
      <4> HIDE DEF h
      <4> QED BY <2>2, <3>2
    <3>4. CASE i = k + 1
      <4> HIDE DEF h
      <4> QED BY <2>2, <3>3, <3>4
    <3>5. CASE i # k + 1
      <4>1. i \in 1 .. k /\ i \in 0 .. k BY <3>5
      <4>2. g[i] = {i} \cup (IF m[i] < 0 THEN {} ELSE g[m[i]]) BY <2>1, <4>1 DEF Ancestry
      <4> HIDE DEF h
      <4> QED BY <2>2, <3>3, <4>1, <4>2
    <3> QED BY <3>4, <3>5
  <2>4. h[0] = {}
    <3>1. 0 \in 0 .. k OBVIOUS
    <3>2. g[0] = {} BY <2>1 DEF Ancestry
    <3> HIDE DEF h
    <3> QED BY <2>2, <3>1, <3>2
  <2> HIDE DEF h, new
  <2>5. Ancestry(h, k + 1, m) BY <2>3, <2>4 DEF Ancestry
  <2>6. k + 1 \in 0 .. n OBVIOUS
  <2> QED BY <2>2, <2>5, <2>6
<1>3. n \in T
  <2>1. 0 .. n \subseteq T
    <3> HIDE DEF T
    <3>1. 0 \in Int /\ 0 \in Nat /\ n \in Int OBVIOUS
    <3> QED BY <1>1, <1>2, <3>1, InductionUpTo
  <2> HIDE DEF T
  <2> QED BY <2>1
<1> QED BY <1>3

\* The lines of the stack and the real ones are such lines.
LEMMA LineageIs ==
    ASSUME NEW s, Traced(s)
    PROVE Ancestry(Lineage(s), NParticles(s), [i \in 1 .. NParticles(s) |-> Mother(s, i)])
<1>1. PICK n \in Nat : n = NParticles(s) BY DEF Traced
<1> DEFINE m == [i \in 1 .. n |-> Mother(s, i)]
           Body(g, i) == IF i = 0 THEN {}
                         ELSE {i} \cup (IF Mother(s, i) < 0 THEN {} ELSE g[Mother(s, i)])
           Unfolds(g) == g = [i \in 0 .. n |-> Body(g, i)]
<1>2. Lineage(s) = CHOOSE g : Unfolds(g) BY <1>1 DEF Lineage
<1>3. \E g : Unfolds(g)
  <2>1. m \in [1 .. n -> Int] /\ \A i \in 1 .. n : m[i] \in {NoTrack} \cup 1 .. i - 1
    <3>1. \A i \in 1 .. n : Mother(s, i) \in {NoTrack} \cup 1 .. i - 1 BY <1>1, MotherIs
    <3>2. \A i \in 1 .. n : Mother(s, i) \in Int BY <3>1 DEF NoTrack
    <3> QED BY <3>1, <3>2
  <2>2. PICK w : w = m OBVIOUS
  <2>3. PICK h : DOMAIN h = 0 .. n /\ Ancestry(h, n, w)
    <3> HIDE DEF m
    <3> QED BY <2>1, <2>2, AncestryExists
  <2>4. PICK g : g = [i \in 0 .. n |-> h[i]] OBVIOUS
  <2>5. \A i \in 1 .. n : w[i] = Mother(s, i) BY <2>2
  <2>6. ASSUME NEW i \in 0 .. n PROVE g[i] = Body(g, i)
    <3>1. CASE i = 0 BY <2>3, <2>4, <3>1 DEF Ancestry
    <3>2. CASE i # 0
      <4>1. i \in 1 .. n BY <3>2
      <4>2. h[i] = {i} \cup (IF w[i] < 0 THEN {} ELSE h[w[i]]) BY <2>3, <4>1 DEF Ancestry
      <4>3. w[i] < 0 \/ g[w[i]] = h[w[i]]
        <5>1. w[i] \in {NoTrack} \cup 1 .. i - 1 BY <2>1, <2>2, <4>1
        <5>2. NoTrack < 0 /\ 1 .. i - 1 \subseteq 0 .. n BY <4>1 DEF NoTrack
        <5> QED BY <2>4, <5>1, <5>2
      <4>4. g[i] = h[i] BY <2>4
      <4> QED BY <2>5, <3>2, <4>1, <4>2, <4>3, <4>4
    <3> QED BY <3>1, <3>2
  <2>7. Unfolds(g)
    <3>1. DOMAIN g = 0 .. n /\ g = [i \in 0 .. n |-> g[i]] BY <2>4
    <3> HIDE DEF Body
    <3> QED BY <2>6, <3>1
  <2> HIDE DEF Unfolds
  <2> QED BY <2>7
<1>4. PICK g : g = Lineage(s) /\ Unfolds(g)
  <2> HIDE DEF Unfolds
  <2> QED BY <1>2, <1>3
<1>5. \A i \in 0 .. n : g[i] = Body(g, i)
  <2> HIDE DEF Body
  <2> QED BY <1>4
<1>6. \A i \in 1 .. n : m[i] = Mother(s, i) /\ i # 0 /\ i \in 0 .. n OBVIOUS
<1>7. g[0] = {}
  <2>1. 0 \in 0 .. n OBVIOUS
  <2> QED BY <1>5, <2>1, Zenon
<1>8. PICK w : w = m OBVIOUS
<1>9. Ancestry(g, n, w)
  <2>1. ASSUME NEW i \in 1 .. n PROVE g[i] = {i} \cup (IF w[i] < 0 THEN {} ELSE g[w[i]])
    <3>1. i # 0 /\ i \in 0 .. n /\ w[i] = Mother(s, i) BY <1>6, <1>8
    <3>2. g[i] = Body(g, i) BY <1>5, <3>1
    <3> QED BY <3>1, <3>2
  <2> HIDE DEF m, Body
  <2> QED BY <1>7, <2>1 DEF Ancestry
<1> QED BY <1>1, <1>4, <1>8, <1>9

\* A line ends with its particle and is closed under mothers.
IsLine(l, i, n, m, D) ==
    /\ i \in l /\ l \subseteq 1 .. n /\ l \cap D \subseteq {i}
    /\ \A j \in l : m[j] = NoTrack \/ m[j] \in l

\* Every line is one, and has none of the particles D that are the mother of nobody.
LEMMA LineOf ==
    ASSUME NEW n \in Nat, NEW m, NEW g, Ancestry(g, n, m), NEW D,
           \A k \in 1 .. n : m[k] \in {NoTrack} \cup ((1 .. k - 1) \ D)
    PROVE \A i \in 1 .. n : IsLine(g[i], i, n, m, D)
<1> USE DEF IsLine
<1> DEFINE Good(k) == IsLine(g[k], k, n, m, D)
           T == {k \in 0 .. n : \A l \in 1 .. k : Good(l)}
<1>1. 0 \in T OBVIOUS
<1>2. ASSUME NEW k \in 0 .. n - 1, k \in T PROVE k + 1 \in T
  <2>1. k + 1 \in 1 .. n /\ k + 1 \in 0 .. n OBVIOUS
  <2>2. g[k + 1] = {k + 1} \cup (IF m[k + 1] < 0 THEN {} ELSE g[m[k + 1]]) BY <2>1 DEF Ancestry
  <2>3. m[k + 1] = NoTrack \/ m[k + 1] \in (1 .. k) \ D BY <2>1
  <2>4. CASE m[k + 1] = NoTrack
    <3>1. g[k + 1] = {k + 1} BY <2>2, <2>4 DEF NoTrack
    <3> QED BY <1>2, <2>1, <2>4, <3>1
  <2>5. CASE m[k + 1] \in (1 .. k) \ D
    <3>1. PICK x \in (1 .. k) \ D : x = m[k + 1] BY <2>5
    <3>2. g[k + 1] = {k + 1} \cup g[x] /\ Good(x) BY <1>2, <2>2, <3>1
    <3>3. Good(k + 1) BY <2>1, <3>1, <3>2
    <3>4. \A l \in 1 .. k + 1 : Good(l)
      <4>1. \A l \in 1 .. k : Good(l) BY <1>2
      <4>2. \A l \in 1 .. k + 1 : l = k + 1 \/ l \in 1 .. k OBVIOUS
      <4> HIDE DEF Good
      <4> QED BY <3>3, <4>1, <4>2
    <3> HIDE DEF Good
    <3> QED BY <2>1, <3>4
  <2> QED BY <2>3, <2>4, <2>5
<1>3. n \in T
  <2>1. 0 .. n \subseteq T
    <3> HIDE DEF T
    <3>1. 0 \in Int /\ 0 \in Nat /\ n \in Int OBVIOUS
    <3> QED BY <1>1, <1>2, <3>1, InductionUpTo
  <2> HIDE DEF T
  <2> QED BY <2>1
<1> QED BY <1>3

\* The selected particles were not made by fast simulation, and have their mothers among
\* them when mothers are kept.
LEMMA SelectedAre ==
    ASSUME NEW s, Traced(s), s.options.mothers \in BOOLEAN
    PROVE LET T == SelectTracks(s) IN
          /\ T \subseteq 1 .. NParticles(s) /\ T \cap DOMAIN s.moved = {}
          /\ s.options.mothers => \A i \in T : Mother(s, i) = NoTrack \/ Mother(s, i) \in T
<1>1. PICK n \in Nat : n = NParticles(s) BY DEF Traced
<1> DEFINE passing == {i \in 1 .. n : Passes(s, i)}
<1>2. \A i \in 1 .. n : Mother(s, i) \in {NoTrack} \cup ((1 .. i - 1) \ DOMAIN s.moved)
  BY <1>1, MotherIs
<1>3. ASSUME NEW i \in passing PROVE i \notin DOMAIN s.moved
  <2> SUFFICES ASSUME i \in DOMAIN s.moved PROVE FALSE
    OBVIOUS
  <2>1. s.parts[i].mother = FirstTrack BY DEF Traced
  <2>2. FirstTrack \notin DOMAIN s.moved /\ FirstTrack = 1
    <3>1. 1 \notin 2 .. n OBVIOUS
    <3> QED BY <1>1, <3>1 DEF Traced, FirstTrack
  <2>3. Mother(s, i) = 1 BY <2>1, <2>2 DEF Mother, Original
  <2> QED BY <2>3 DEF Passes
<1>4. PICK T : T = SelectTracks(s) OBVIOUS
<1>5. CASE s.options.mothers
  <2>1. PICK g, m : g = Lineage(s) /\ m = [i \in 1 .. n |-> Mother(s, i)] OBVIOUS
  <2>2. Ancestry(g, n, m) BY <1>1, <2>1, LineageIs
  <2>3. \A i \in 1 .. n : m[i] = Mother(s, i) BY <2>1
  <2>4. \A i \in 1 .. n : m[i] \in {NoTrack} \cup ((1 .. i - 1) \ DOMAIN s.moved) BY <1>2, <2>3
  <2>5. \A i \in 1 .. n : IsLine(g[i], i, n, m, DOMAIN s.moved) BY <2>2, <2>4, LineOf
  <2>6. T = UNION {g[i] : i \in passing} BY <1>1, <1>4, <1>5, <2>1 DEF SelectTracks
  <2>7. passing \subseteq 1 .. n OBVIOUS
  <2> HIDE DEF passing
  <2>8. T \subseteq 1 .. n BY <2>5, <2>6, <2>7 DEF IsLine
  <2>9. T \cap DOMAIN s.moved = {} BY <1>3, <2>5, <2>6, <2>7 DEF IsLine
  <2>10. ASSUME NEW i \in T PROVE Mother(s, i) = NoTrack \/ Mother(s, i) \in T
    <3>1. PICK p \in passing : i \in g[p] BY <2>6
    <3>2. m[i] = NoTrack \/ m[i] \in g[p] BY <2>5, <2>7, <3>1 DEF IsLine
    <3> QED BY <2>3, <2>6, <2>8, <3>2
  <2> QED BY <1>1, <1>4, <2>8, <2>9, <2>10
<1>6. CASE ~s.options.mothers
  <2>1. T = passing BY <1>1, <1>4, <1>6 DEF SelectTracks
  <2> QED BY <1>1, <1>3, <1>4, <1>6, <2>1
<1> QED BY <1>5, <1>6

\* Ranks number the elements of a finite set of numbers one after another.
LEMMA RanksAre ==
    ASSUME NEW n \in Nat, NEW T \in SUBSET (1 .. n)
    PROVE /\ IsFiniteSet(T)
          /\ \A i \in T : Rank(T, i) \in 1 .. Cardinality(T)
          /\ \A i, j \in T : Rank(T, i) = Rank(T, j) => i = j
          /\ \A k \in 1 .. Cardinality(T) : \E i \in T : Rank(T, i) = k
<1>1. IsFiniteSet(T)
  <2>1. 1 \in Int /\ n \in Int OBVIOUS
  <2>2. IsFiniteSet(1 .. n) BY <2>1, FS_Interval
  <2> QED BY <2>2, FS_Subset
<1>2. PICK c \in Nat : c = Cardinality(T) BY <1>1, FS_CardinalityType
<1> DEFINE Up(i) == {j \in T : j <= i}
<1>3. \A i \in T : IsFiniteSet(Up(i)) /\ Cardinality(Up(i)) \in Nat /\ Cardinality(Up(i)) <= c
  <2> TAKE i \in T
  <2>1. Up(i) \subseteq T OBVIOUS
  <2> HIDE DEF Up
  <2> QED BY <1>1, <1>2, <2>1, FS_Subset, FS_CardinalityType
<1>4. ASSUME NEW i \in T, NEW j \in T, i < j PROVE Cardinality(Up(i)) < Cardinality(Up(j))
  <2>1. Up(i) \subseteq Up(j) \ {j} /\ j \in Up(j)
    <3>1. i \in Int /\ j \in Int /\ T \subseteq Int OBVIOUS
    <3>2. \A k \in T : k <= i => k <= j /\ k # j BY <1>4, <3>1
    <3>3. j <= j BY <3>1
    <3> QED BY <3>2, <3>3
  <2>2. PICK U, V : U = Up(i) /\ V = Up(j) OBVIOUS
  <2>3. IsFiniteSet(U) /\ IsFiniteSet(V) /\ Cardinality(U) \in Nat /\ Cardinality(V) \in Nat
    <3> HIDE DEF Up
    <3> QED BY <1>3, <2>2
  <2>4. IsFiniteSet(V \ {j}) /\ Cardinality(V \ {j}) = Cardinality(V) - 1
    BY <2>1, <2>2, <2>3, FS_RemoveElement
  <2>5. Cardinality(U) <= Cardinality(V \ {j}) BY <2>1, <2>2, <2>4, FS_Subset
  <2>6. Cardinality(U) < Cardinality(V) BY <2>3, <2>4, <2>5
  <2> QED BY <2>2, <2>6
<1>5. \A i \in T : Cardinality(Up(i)) \in 1 .. c
  <2> TAKE i \in T
  <2>1. i \in Up(i) OBVIOUS
  <2>2. Cardinality(Up(i)) # 0
    <3>1. Up(i) # {} BY <2>1
    <3> HIDE DEF Up
    <3> QED BY <1>3, <3>1, FS_EmptySet
  <2> HIDE DEF Up
  <2> QED BY <1>3, <2>2
<1>6. \A i, j \in T : Cardinality(Up(i)) = Cardinality(Up(j)) => i = j
  <2> SUFFICES ASSUME NEW i \in T, NEW j \in T, Cardinality(Up(i)) = Cardinality(Up(j)) PROVE i = j
    OBVIOUS
  <2>1. Cardinality(Up(i)) \in Nat BY <1>5
  <2>2. ~(i < j) /\ ~(j < i)
    <3> HIDE DEF Up
    <3> QED BY <1>4, <2>1
  <2> QED BY <2>2
<1> DEFINE r == [i \in T |-> Cardinality(Up(i))]
<1>7. r \in Injection(T, 1 .. c)
  <2>1. r \in [T -> 1 .. c]
    <3> HIDE DEF Up
    <3> QED BY <1>5
  <2>2. \A i, j \in T : r[i] = r[j] => i = j
    <3> HIDE DEF Up
    <3> QED BY <1>6
  <2> HIDE DEF r
  <2> QED BY <2>1, <2>2 DEF Injection, IsInjective
<1>8. r \in Surjection(T, 1 .. c)
  <2>1. IsFiniteSet(1 .. c) /\ Cardinality(1 .. c) = c
    <3>1. 1 \in Int /\ c \in Int OBVIOUS
    <3>2. IsFiniteSet(1 .. c) /\ Cardinality(1 .. c) = IF 1 > c THEN 0 ELSE c - 1 + 1
      BY <3>1, FS_Interval
    <3> QED BY <3>2
  <2> HIDE DEF r
  <2> QED BY <1>2, <1>7, <2>1, FS_Injection
<1>9. \A k \in 1 .. c : \E i \in T : r[i] = k
  <2> HIDE DEF r
  <2> QED BY <1>8 DEF Surjection
<1>10. \A i : Rank(T, i) = Cardinality(Up(i)) BY DEF Rank
<1> HIDE DEF Up
<1> QED BY <1>1, <1>2, <1>5, <1>6, <1>9, <1>10

\* What FillTrackArray hands over are the selected particles, in their order.
Renumbered(s, T, t) ==
    /\ T \subseteq 1 .. NParticles(s) /\ T \cap DOMAIN s.moved = {} /\ DOMAIN t = 1 .. Cardinality(T)
    /\ \A k \in DOMAIN t : /\ t[k].part \in T /\ Rank(T, t[k].part) = k
                           /\ t[k].mother = IndexMap(s, Mother(s, t[k].part))
                           /\ t[k].n = StoredCounts(s, t[k].part)
    /\ \A i \in T : Rank(T, i) \in DOMAIN t /\ t[Rank(T, i)].part = i

\* That is what it hands over.
LEMMA FilledIs ==
    ASSUME NEW s, Traced(s), s.options.mothers \in BOOLEAN
    PROVE Renumbered(s, SelectTracks(s), FillTrackArray(s))
<1>1. PICK n \in Nat : n = NParticles(s) BY DEF Traced
<1>2. PICK T : T = SelectTracks(s) OBVIOUS
<1>3. T \subseteq 1 .. n /\ T \cap DOMAIN s.moved = {} BY <1>1, <1>2, SelectedAre
<1>4. /\ \A i \in T : Rank(T, i) \in 1 .. Cardinality(T)
      /\ \A i, j \in T : Rank(T, i) = Rank(T, j) => i = j
      /\ \A k \in 1 .. Cardinality(T) : \E i \in T : Rank(T, i) = k
  <2>1. T \in SUBSET (1 .. n) BY <1>3
  <2> QED BY <2>1, RanksAre
<1> DEFINE Nth(k) == CHOOSE i \in T : Rank(T, i) = k
           Row(k) == [part |-> Nth(k), mother |-> IndexMap(s, Mother(s, Nth(k))),
                      n |-> StoredCounts(s, Nth(k))]
<1>5. PICK t : t = FillTrackArray(s) OBVIOUS
<1>6. t = [k \in 1 .. Cardinality(T) |-> Row(k)] BY <1>2, <1>5 DEF FillTrackArray
<1>7. \A k \in 1 .. Cardinality(T) : Nth(k) \in T /\ Rank(T, Nth(k)) = k BY <1>4
<1>8. DOMAIN t = 1 .. Cardinality(T) BY <1>6
<1>9. ASSUME NEW k \in DOMAIN t
      PROVE /\ t[k].part \in T /\ Rank(T, t[k].part) = k
            /\ t[k].mother = IndexMap(s, Mother(s, t[k].part)) /\ t[k].n = StoredCounts(s, t[k].part)
  <2>1. t[k] = Row(k)
    <3> HIDE DEF Row
    <3> QED BY <1>6, <1>8
  <2>2. PICK i \in T : i = Nth(k) /\ Rank(T, i) = k
    <3> HIDE DEF Nth
    <3> QED BY <1>7, <1>8
  <2>3. t[k] = [part |-> i, mother |-> IndexMap(s, Mother(s, i)), n |-> StoredCounts(s, i)]
    BY <2>1, <2>2
  <2> QED BY <2>2, <2>3
<1>10. \A i \in T : Rank(T, i) \in DOMAIN t /\ t[Rank(T, i)].part = i
  <2> TAKE i \in T
  <2>1. Rank(T, i) \in DOMAIN t BY <1>4, <1>8
  <2>2. t[Rank(T, i)].part \in T /\ Rank(T, t[Rank(T, i)].part) = Rank(T, i) BY <1>9, <2>1
  <2> QED BY <1>4, <2>1, <2>2
<1> QED BY <1>1, <1>2, <1>3, <1>5, <1>8, <1>9, <1>10 DEF Renumbered

\* Where the tracks t have a particle; that is where the stack says it is.
Place(t, i) ==
    IF i = NoTrack THEN NoTrack
    ELSE IF \E k \in DOMAIN t : t[k].part = i
         THEN CHOOSE k \in DOMAIN t : t[k].part = i
         ELSE NotStored

\* The place FillTrackArray gives a particle is the one IndexMap says.
LEMMA PlaceIs ==
    ASSUME NEW s, Traced(s), s.options.mothers \in BOOLEAN, NEW i
    PROVE Place(FillTrackArray(s), i) = IndexMap(s, i)
<1>1. PICK T, t : T = SelectTracks(s) /\ t = FillTrackArray(s) OBVIOUS
<1>2. Renumbered(s, T, t) BY <1>1, FilledIs
<1>3. CASE i = NoTrack BY <1>3 DEF Place, IndexMap
<1>4. CASE i # NoTrack /\ i \in T
  <2>1. PICK r : r = Rank(T, i) OBVIOUS
  <2>2. r \in DOMAIN t /\ t[r].part = i BY <1>2, <1>4, <2>1 DEF Renumbered
  <2>3. \A k \in DOMAIN t : t[k].part = i => k = r BY <1>2, <2>1 DEF Renumbered
  <2>4. Place(t, i) = CHOOSE k \in DOMAIN t : t[k].part = i BY <1>4, <2>2 DEF Place
  <2>5. (CHOOSE k \in DOMAIN t : t[k].part = i) = r BY <2>2, <2>3
  <2>6. IndexMap(s, i) = r BY <1>1, <1>4, <2>1 DEF IndexMap
  <2> QED BY <1>1, <2>4, <2>5, <2>6
<1>5. CASE i # NoTrack /\ i \notin T
  <2>1. \A k \in DOMAIN t : t[k].part # i BY <1>2, <1>5 DEF Renumbered
  <2>2. Place(t, i) = NotStored BY <1>5, <2>1 DEF Place
  <2>3. IndexMap(s, i) = NotStored BY <1>1, <1>5 DEF IndexMap
  <2> QED BY <1>1, <2>2, <2>3
<1> QED BY <1>3, <1>4, <1>5

\* The stacks whose tracks are handed over are traced.
LEMMA TracedIs == ASSUME SimInv PROVE Traced(stack) /\ stack.options.mothers \in BOOLEAN
<1>1. Line(stack, truth.of, truth.mother) /\ IsStack(stack) /\ stack.options = simSetup.options
      /\ simSetup \in SimSetups
  BY DEF SimInv, LineInv, ShapeInv
<1>2. NParticles(stack) \in Nat BY <1>1 DEF IsStack, StacksFrom, NParticles
<1>3. /\ DOMAIN stack.moved \subseteq 2 .. NParticles(stack)
      /\ \A i \in DOMAIN stack.moved : /\ stack.moved[i] \in 1 .. i - 1
                                       /\ stack.moved[i] \notin DOMAIN stack.moved
                                       /\ stack.parts[i].mother = FirstTrack
      /\ \A i \in 1 .. NParticles(stack) : stack.parts[i].mother \in {NoTrack} \cup 1 .. i - 1
  BY <1>1 DEF Line
<1>4. Traced(stack) BY <1>2, <1>3 DEF Traced
<1>5. stack.options.mothers \in BOOLEAN BY <1>1, SetupIs
<1> QED BY <1>4, <1>5

\* So are those of an event the generator could not finish, which has only primaries.
LEMMA AddedTraced ==
    ASSUME SimInv, phase = "begin", NEW ps \in Seq([track : BOOLEAN, hard : BOOLEAN]),
           NEW s, s = Added(stack, ps)
    PROVE /\ Traced(s) /\ s.options.mothers \in BOOLEAN
          /\ DOMAIN s.moved = {} /\ DOMAIN s.points = {}
          /\ \A i \in 1 .. NParticles(s) : s.parts[i].mother = NoTrack
<1>1. IsStack(stack) /\ stack.parts = << >> /\ DOMAIN stack.points = {}
  BY DEF SimInv, ShapeInv, Cleared
<1>2. /\ s \in StacksFrom(stack) /\ NParticles(s) = Len(ps)
      /\ \A i \in 1 .. Len(ps) : s.parts[i].mother = NoTrack
  BY <1>1, AddedIs
<1>3. s.moved = stack.moved /\ s.points = stack.points /\ s.options = stack.options
  BY <1>2 DEF StacksFrom
<1>4. DOMAIN stack.moved = {}
  <2>1. DOMAIN stack.moved \subseteq 2 .. NParticles(stack) BY DEF SimInv, LineInv, Line
  <2>2. NParticles(stack) = 0 BY <1>1 DEF NParticles
  <2> QED BY <2>1, <2>2
<1>5. Len(ps) \in Nat OBVIOUS
<1>6. \A i \in 1 .. NParticles(s) : s.parts[i].mother = NoTrack BY <1>2
<1>7. Traced(s)
  <2>1. NParticles(s) \in Nat BY <1>2, <1>5
  <2>2. DOMAIN s.moved = {} BY <1>3, <1>4
  <2>3. \A i \in 1 .. NParticles(s) : s.parts[i].mother \in {NoTrack} \cup 1 .. i - 1 BY <1>6
  <2> QED BY <2>1, <2>2, <2>3 DEF Traced
<1>8. stack.options.mothers \in BOOLEAN BY TracedIs
<1> QED BY <1>1, <1>3, <1>4, <1>6, <1>7, <1>8

\* The tracks and the points of the event that is handed over are those of a stack.
LEMMA HandedOver ==
    ASSUME SimInv, [SimNext]_simVars, Stores
    PROVE \E s : /\ Traced(s) /\ s.options.mothers \in BOOLEAN
                 /\ stored'.tracks = FillTrackArray(s) /\ stored'.points = UpdateTrackIndex(s, points)
                 /\ \/ phase = "next" /\ s = stack
                    \/ /\ phase = "begin" /\ points = << >> /\ truth = NoTruth
                       /\ s.options = stack.options
                       /\ DOMAIN s.moved = {} /\ DOMAIN s.points = {}
                       /\ \A i \in 1 .. NParticles(s) : s.parts[i].mother = NoTrack
<1>1. CASE /\ phase = "next"
           /\ stored'.tracks = FillTrackArray(stack)
           /\ stored'.points = UpdateTrackIndex(stack, points)
  BY <1>1, TracedIs
<1>2. CASE /\ phase = "begin" /\ points = << >>
           /\ \E ps \in Seq([track : BOOLEAN, hard : BOOLEAN]) :
                stored' = [id |-> Last(given'), tracks |-> FillTrackArray(Added(stack, ps)),
                           points |-> UpdateTrackIndex(Added(stack, ps), points)]
  <2>1. PICK ps \in Seq([track : BOOLEAN, hard : BOOLEAN]) :
          stored' = [id |-> Last(given'), tracks |-> FillTrackArray(Added(stack, ps)),
                     points |-> UpdateTrackIndex(Added(stack, ps), points)]
    BY <1>2
  <2>2. PICK s : s = Added(stack, ps) OBVIOUS
  <2>3. /\ Traced(s) /\ s.options.mothers \in BOOLEAN /\ DOMAIN s.moved = {} /\ DOMAIN s.points = {}
        /\ \A i \in 1 .. NParticles(s) : s.parts[i].mother = NoTrack
    BY <1>2, <2>2, AddedTraced
  <2>4. truth = NoTruth BY <1>2 DEF SimInv, ShapeInv, Cleared
  <2>5. stored'.tracks = FillTrackArray(s) /\ stored'.points = UpdateTrackIndex(s, points)
    BY <2>1, <2>2
  <2>6. s.options = stack.options
    <3>1. IsStack(stack) /\ stack.parts = << >> BY <1>2 DEF SimInv, ShapeInv, Cleared
    <3>2. s \in StacksFrom(stack) BY <2>2, <3>1, AddedIs
    <3> QED BY <3>2 DEF StacksFrom
  <2> QED BY <1>2, <2>3, <2>4, <2>5, <2>6
<1> QED BY <1>1, <1>2, StoresIs

\* The output has the particles where the stack says.
LEMMA OutputIs ==
    ASSUME NEW s, Traced(s), s.options.mothers \in BOOLEAN, stored'.tracks = FillTrackArray(s)
    PROVE \A i : Output(i) = IndexMap(s, i)
<1> TAKE i
<1>1. Output(i) = Place(stored'.tracks, i) BY DEF Output, Place
<1> QED BY <1>1, PlaceIs

\* The points that are handed over.
LEMMA PointsStep ==
    ASSUME SimInv, [SimNext]_simVars, Stores, points # << >>
    PROVE /\ DOMAIN stored'.points = DOMAIN points
          /\ \A q \in DOMAIN points : /\ stored'.points[q].det = points[q].det
                                      /\ stored'.points[q].track = Output(truth.maker[q])
<1>1. phase = "next" /\ Traced(stack) /\ stack.options.mothers \in BOOLEAN
      /\ stored'.tracks = FillTrackArray(stack) /\ stored'.points = UpdateTrackIndex(stack, points)
  BY HandedOver
<1>2. PICK p : p = UpdateTrackIndex(stack, points) OBVIOUS
<1>3. p = [q \in DOMAIN points |-> [points[q] EXCEPT !.track = IndexMap(stack, Original(stack, @))]]
  BY <1>2 DEF UpdateTrackIndex
<1>4. ASSUME NEW q \in DOMAIN points
      PROVE p[q].det = points[q].det /\ p[q].track = Output(truth.maker[q])
  <2>1. points \in Seq([det : Detectors, track : Nat]) BY DEF SimInv, PointInv, Credited
  <2>2. points[q] \in [det : Detectors, track : Nat]
    <3>1. PICK R : R = [det : Detectors, track : Nat] OBVIOUS
    <3>2. points \in Seq(R) BY <2>1, <3>1
    <3>3. points[q] \in R BY <3>2
    <3> QED BY <3>1, <3>3
  <2>3. /\ points[q].track \notin DOMAIN stack.moved /\ truth.maker[q] = points[q].track
    BY DEF SimInv, PointInv, Credited
  <2>4. Original(stack, points[q].track) = truth.maker[q] BY <2>3 DEF Original
  <2>5. p[q] = [points[q] EXCEPT !.track = IndexMap(stack, Original(stack, points[q].track))]
    BY <1>3
  <2>6. p[q].det = points[q].det /\ p[q].track = IndexMap(stack, truth.maker[q])
    BY <2>2, <2>4, <2>5
  <2>7. Output(truth.maker[q]) = IndexMap(stack, truth.maker[q]) BY <1>1, OutputIs
  <2> QED BY <2>6, <2>7
<1>5. DOMAIN p = DOMAIN points BY <1>3
<1> QED BY <1>1, <1>2, <1>4, <1>5

\* The numbers of points that are handed over.
LEMMA CountsStep ==
    ASSUME SimInv, [SimNext]_simVars, Stores, NEW k \in DOMAIN stored'.tracks, NEW d \in Counted
    PROVE LET n == Cardinality(Left(stored'.tracks[k].part, d)) IN
          stored'.tracks[k].n[d] = IF n > MaxCount THEN MaxCount ELSE n
<1>1. PICK s : /\ Traced(s) /\ s.options.mothers \in BOOLEAN
               /\ stored'.tracks = FillTrackArray(s)
               /\ \/ phase = "next" /\ s = stack
                  \/ phase = "begin" /\ points = << >> /\ DOMAIN s.points = {}
  BY HandedOver
<1>2. PICK t : t = stored'.tracks OBVIOUS
<1>3. Renumbered(s, SelectTracks(s), t) BY <1>1, <1>2, FilledIs
<1>4. PICK i : i = t[k].part OBVIOUS
<1>5. i \in Nat /\ t[k].n = StoredCounts(s, i)
  <2>1. k \in DOMAIN t BY <1>2
  <2>2. i \in SelectTracks(s) /\ SelectTracks(s) \subseteq 1 .. NParticles(s) /\ t[k].n = StoredCounts(s, i)
    BY <1>3, <1>4, <2>1 DEF Renumbered
  <2> QED BY <2>2
<1>6. d \in Detectors BY StackAssumption
<1>7. Left(i, d) = LeftIn(points, truth.maker, i, d) BY DEF Left, LeftIn
<1>8. Copies(s, i, d) = Cardinality(Left(i, d))
  <2>1. CASE s = stack BY <1>5, <1>6, <1>7, <2>1 DEF SimInv, PointInv, Credited
  <2>2. CASE points = << >> /\ DOMAIN s.points = {}
    <3>1. Copies(s, i, d) = 0 BY <2>2 DEF Copies
    <3>2. Left(i, d) = {}
      <4>1. DOMAIN points = {} BY <2>2
      <4> QED BY <4>1 DEF Left
    <3> QED BY <3>1, <3>2, FS_EmptySet
  <2> QED BY <1>1, <2>1, <2>2
<1>9. t[k].n[d] = IF Copies(s, i, d) > MaxCount THEN MaxCount ELSE Copies(s, i, d)
  BY <1>5 DEF StoredCounts
<1>10. PICK n : n = Copies(s, i, d) OBVIOUS
<1>11. /\ n = Cardinality(Left(stored'.tracks[k].part, d))
       /\ stored'.tracks[k].n[d] = IF n > MaxCount THEN MaxCount ELSE n
  BY <1>2, <1>4, <1>8, <1>9, <1>10
<1> QED BY <1>11

(***************************************************************************)
(* Every point is stored once, in its collection, and names the stored     *)
(* track of the particle that really left it; and the numbers of points    *)
(* a stored track claims are those of its points, up to what the field     *)
(* holds (FairStack::UpdateTrackIndex, FillTrackArray). For every          *)
(* filter, and for detectors on either side of kSTOPHERE.                  *)
(***************************************************************************)
THEOREM HitsAlwaysRight == SimSpec => HitsRight
<1>1. SimInv /\ [SimNext]_simVars =>
        [Stores /\ points # << >> =>
          /\ DOMAIN stored'.points = DOMAIN points
          /\ \A q \in DOMAIN points :
                /\ stored'.points[q].det = points[q].det
                /\ stored'.points[q].track = Output(truth.maker[q])]_simVars
  BY PointsStep
<1>2. SimInv /\ [SimNext]_simVars =>
        [Stores =>
          \A k \in DOMAIN stored'.tracks, d \in Counted :
            LET n == Cardinality(Left(stored'.tracks[k].part, d)) IN
            stored'.tracks[k].n[d] = IF n > MaxCount THEN MaxCount ELSE n]_simVars
  BY CountsStep
<1> QED BY <1>1, <1>2, SimInvariant, PTL DEF SimSpec, HitsRight, PointsRight, CountsRight

\* The mothers that are handed over.
LEMMA MothersStep ==
    ASSUME SimInv, [SimNext]_simVars, Stores, NEW k \in DOMAIN stored'.tracks
    PROVE LET t == stored'.tracks[k] IN
          /\ t.part \in DOMAIN truth.of => t.mother = Output(truth.mother[truth.of[t.part]])
          /\ stack.options.mothers => t.mother # NotStored
<1>1. PICK s : /\ Traced(s) /\ s.options.mothers \in BOOLEAN
               /\ stored'.tracks = FillTrackArray(s)
               /\ \/ phase = "next" /\ s = stack
                  \/ /\ phase = "begin" /\ truth = NoTruth
                     /\ s.options = stack.options
                     /\ DOMAIN s.moved = {}
                     /\ \A i \in 1 .. NParticles(s) : s.parts[i].mother = NoTrack
  BY HandedOver
<1>2. PICK t, T : t = stored'.tracks /\ T = SelectTracks(s) OBVIOUS
<1>3. Renumbered(s, T, t) BY <1>1, <1>2, FilledIs
<1>4. PICK i : i = t[k].part OBVIOUS
<1>5. /\ i \in T /\ i \in 1 .. NParticles(s) /\ i \notin DOMAIN s.moved
      /\ t[k].mother = IndexMap(s, Mother(s, i))
  <2>1. k \in DOMAIN t BY <1>2
  <2> QED BY <1>3, <1>4, <2>1 DEF Renumbered
<1>6. \A j : Output(j) = IndexMap(s, j) BY <1>1, OutputIs
<1>7. ASSUME i \in DOMAIN truth.of PROVE t[k].mother = Output(truth.mother[truth.of[i]])
  <2>1. s = stack
    <3>1. truth # NoTruth
      <4>1. DOMAIN NoTruth.of = {} BY DEF NoTruth
      <4> QED BY <1>7, <4>1
    <3> QED BY <1>1, <3>1
  <2>2. truth.of[i] = Original(stack, i)
        /\ (i \notin DOMAIN stack.moved => truth.mother[i] = Original(stack, stack.parts[i].mother))
    BY <1>5, <2>1 DEF SimInv, LineInv, Line
  <2>3. truth.of[i] = i BY <1>5, <2>1, <2>2 DEF Original
  <2>4. truth.mother[i] = Mother(s, i) BY <1>5, <2>1, <2>2 DEF Mother
  <2> QED BY <1>5, <1>6, <2>3, <2>4
<1>8. ASSUME stack.options.mothers PROVE t[k].mother # NotStored
  <2>1. s.options.mothers BY <1>1, <1>8
  <2>2. Mother(s, i) = NoTrack \/ Mother(s, i) \in T BY <1>1, <1>2, <1>5, <2>1, SelectedAre
  <2>3. CASE Mother(s, i) = NoTrack BY <1>5, <2>3 DEF IndexMap, NoTrack, NotStored
  <2>4. CASE Mother(s, i) # NoTrack /\ Mother(s, i) \in T
    <3>1. PICK r : r = Rank(T, Mother(s, i)) OBVIOUS
    <3>2. t[k].mother = r BY <1>2, <1>5, <2>4, <3>1 DEF IndexMap
    <3>3. r \in 1 .. Cardinality(T) BY <1>3, <2>4, <3>1 DEF Renumbered
    <3> QED BY <3>2, <3>3 DEF NotStored
  <2> QED BY <2>2, <2>3, <2>4
<1> QED BY <1>2, <1>4, <1>7, <1>8

(***************************************************************************)
(* The mother of a stored track is the stored track of the particle that   *)
(* really produced it, also where that one was moved by fast simulation,   *)
(* and it is never missing when mothers are kept                           *)
(* (FairStack::SelectTracks, UpdateTrackIndex).                            *)
(***************************************************************************)
THEOREM MothersAlwaysRight == SimSpec => MothersRight
<1>1. SimInv /\ [SimNext]_simVars =>
        [Stores =>
          \A k \in DOMAIN stored'.tracks :
            LET t == stored'.tracks[k] IN
            /\ t.part \in DOMAIN truth.of =>
                 t.mother = Output(truth.mother[truth.of[t.part]])
            /\ stack.options.mothers => t.mother # NotStored]_simVars
  BY MothersStep
<1> QED BY <1>1, SimInvariant, PTL DEF SimSpec, MothersRight

\* The points a particle left are counted as often as it left one, if all detectors count.
LEMMA NPointsIs ==
    ASSUME NEW s, NEW i, NEW f, NEW n \in Nat, f \in [Counted -> SUBSET (1 .. n)], IsFiniteSet(Counted),
           \A d \in Counted : Copies(s, i, d) = Cardinality(f[d]),
           \A d, e \in Counted : d # e => f[d] \cap f[e] = {}
    PROVE NPoints(s, i) = Cardinality(UNION {f[d] : d \in Counted})
<1> DEFINE Size(t) == Cardinality(UNION {f[d] : d \in t})
           Body(h, t) == IF t = {} THEN 0
                         ELSE Copies(s, i, CHOOSE x \in t : TRUE) + h[t \ {CHOOSE x \in t : TRUE}]
           Unfolds(h) == h = [t \in SUBSET Counted |-> Body(h, t)]
<1>1. NPoints(s, i) = (CHOOSE h : Unfolds(h))[Counted]
  BY DEF NPoints, MapThenSumSet, MapThenFoldSet
<1>2. IsFiniteSet(1 .. n)
  <2>1. 1 \in Int /\ n \in Int OBVIOUS
  <2> QED BY <2>1, FS_Interval
<1>3. ASSUME NEW t \in SUBSET Counted
      PROVE IsFiniteSet(UNION {f[d] : d \in t}) /\ Size(t) \in Nat
  <2>1. UNION {f[d] : d \in t} \subseteq 1 .. n OBVIOUS
  <2>2. IsFiniteSet(UNION {f[d] : d \in t}) BY <1>2, <2>1, FS_Subset
  <2> QED BY <2>2, FS_CardinalityType
<1>4. ASSUME NEW t \in SUBSET Counted, NEW x \in t
      PROVE Size(t) = Copies(s, i, x) + Size(t \ {x})
  <2>1. PICK U : U = UNION {f[d] : d \in t \ {x}} OBVIOUS
  <2>2. UNION {f[d] : d \in t} = f[x] \cup U BY <2>1
  <2>3. f[x] \cap U = {} BY <2>1
  <2>4. IsFiniteSet(f[x]) /\ Cardinality(f[x]) \in Nat
    <3>1. f[x] \subseteq 1 .. n OBVIOUS
    <3>2. IsFiniteSet(f[x]) BY <1>2, <3>1, FS_Subset
    <3> QED BY <3>2, FS_CardinalityType
  <2>5. IsFiniteSet(U) /\ Cardinality(U) \in Nat BY <1>3, <2>1
  <2>6. Cardinality(f[x] \cup U) = Cardinality(f[x]) + Cardinality(U) - Cardinality(f[x] \cap U)
    BY <2>4, <2>5, FS_Union
  <2>7. Cardinality(f[x] \cap U) = 0 BY <2>3, FS_EmptySet
  <2>8. Copies(s, i, x) = Cardinality(f[x]) OBVIOUS
  <2>9. Size(t) = Cardinality(f[x] \cup U) /\ Size(t \ {x}) = Cardinality(U) BY <2>1, <2>2
  <2> QED BY <2>4, <2>5, <2>6, <2>7, <2>8, <2>9
<1>5. Size({}) = 0
  <2>1. UNION {f[d] : d \in {}} = {} OBVIOUS
  <2> QED BY <2>1, FS_EmptySet
<1>6. \E h : Unfolds(h)
  <2>1. PICK h : h = [t \in SUBSET Counted |-> Size(t)] OBVIOUS
  <2>2. \A t \in SUBSET Counted : h[t] = Size(t)
    <3> HIDE DEF Size
    <3> QED BY <2>1
  <2>3. ASSUME NEW t \in SUBSET Counted PROVE h[t] = Body(h, t)
    <3>1. CASE t = {}
      <4> HIDE DEF Size
      <4> QED BY <1>5, <2>2, <3>1
    <3>2. CASE t # {}
      <4>1. PICK x : x = CHOOSE y \in t : TRUE OBVIOUS
      <4>2. x \in t BY <3>2, <4>1
      <4>3. Size(t) = Copies(s, i, x) + Size(t \ {x}) BY <1>4, <4>2
      <4>4. t \ {x} \in SUBSET Counted OBVIOUS
      <4>5. h[t] = Copies(s, i, x) + h[t \ {x}]
        <5> HIDE DEF Size
        <5> QED BY <2>2, <4>3, <4>4
      <4> HIDE DEF Size
      <4> QED BY <3>2, <4>1, <4>5
    <3> QED BY <3>1, <3>2
  <2>4. Unfolds(h)
    <3>1. DOMAIN h = SUBSET Counted /\ h = [t \in SUBSET Counted |-> h[t]]
      <4> HIDE DEF Size
      <4> QED BY <2>1
    <3> HIDE DEF Body
    <3> QED BY <2>3, <3>1
  <2> HIDE DEF Unfolds
  <2> QED BY <2>4
<1>7. PICK h : Unfolds(h) /\ NPoints(s, i) = h[Counted]
  <2> HIDE DEF Unfolds
  <2> QED BY <1>1, <1>6
<1>8. \A t \in SUBSET Counted : h[t] = Body(h, t)
  <2> HIDE DEF Body
  <2> QED BY <1>7
<1>9. PICK c \in Nat : c = Cardinality(Counted) BY FS_CardinalityType
<1> DEFINE Good(k) == \A t \in SUBSET Counted : Cardinality(t) = k => h[t] = Size(t)
           T == {k \in 0 .. c : Good(k)}
<1>10. 0 \in T
  <2>1. ASSUME NEW t \in SUBSET Counted, Cardinality(t) = 0 PROVE h[t] = Size(t)
    <3>1. t = {}
      <4>1. IsFiniteSet(t) BY FS_Subset
      <4> QED BY <2>1, <4>1, FS_EmptySet
    <3>2. h[{}] = 0 BY <1>8
    <3> HIDE DEF Size
    <3> QED BY <1>5, <3>1, <3>2
  <2> HIDE DEF Size
  <2> QED BY <2>1
<1>11. ASSUME NEW k \in 0 .. c - 1, k \in T PROVE k + 1 \in T
  <2>1. ASSUME NEW t \in SUBSET Counted, Cardinality(t) = k + 1 PROVE h[t] = Size(t)
    <3>1. IsFiniteSet(t) BY FS_Subset
    <3>2. t # {} BY <2>1, <3>1, FS_EmptySet
    <3>3. PICK x : x = CHOOSE y \in t : TRUE OBVIOUS
    <3>4. x \in t BY <3>2, <3>3
    <3>5. h[t] = Copies(s, i, x) + h[t \ {x}] BY <1>8, <3>2, <3>3
    <3>6. Cardinality(t \ {x}) = k
      <4>1. Cardinality(t \ {x}) = Cardinality(t) - 1 BY <3>1, <3>4, FS_RemoveElement
      <4> QED BY <2>1, <4>1
    <3>7. h[t \ {x}] = Size(t \ {x})
      <4>1. t \ {x} \in SUBSET Counted OBVIOUS
      <4> HIDE DEF Size
      <4> QED BY <1>11, <3>6, <4>1
    <3> QED BY <1>4, <3>4, <3>5, <3>7
  <2>2. Good(k + 1)
    <3> HIDE DEF Size
    <3> QED BY <2>1
  <2> HIDE DEF Good
  <2> QED BY <2>2
<1>12. c \in T
  <2>1. 0 .. c \subseteq T
    <3> HIDE DEF T
    <3>1. 0 \in Int /\ 0 \in Nat /\ c \in Int OBVIOUS
    <3> QED BY <1>10, <1>11, <3>1, InductionUpTo
  <2> HIDE DEF T
  <2> QED BY <2>1
<1>13. h[Counted] = Size(Counted)
  <2> HIDE DEF Size
  <2> QED BY <1>9, <1>12
<1> QED BY <1>7, <1>13

\* The lines of the stack are the real ones.
LEMMA LinesAgree ==
    ASSUME SimInv, NEW i \in 1 .. NParticles(stack), i \notin DOMAIN stack.moved
    PROVE Lineage(stack)[i] = RealLine[i]
<1>1. PICK n \in Nat : n = NParticles(stack) BY TracedIs DEF Traced
<1>2. Traced(stack) BY TracedIs
<1>3. /\ truth.mother \in Seq(Int) /\ Len(truth.mother) = n
      /\ \A j \in 1 .. n : truth.mother[j] \in {NoTrack} \cup 1 .. j - 1
      /\ \A j \in 1 .. n : j \notin DOMAIN stack.moved => truth.mother[j] = Mother(stack, j)
  BY <1>1 DEF SimInv, LineInv, Line, Mother
<1>4. \A j \in 1 .. n : Mother(stack, j) \in {NoTrack} \cup ((1 .. j - 1) \ DOMAIN stack.moved)
  BY <1>1, <1>2, MotherIs
<1>5. PICK g, m : g = Lineage(stack) /\ m = [j \in 1 .. n |-> Mother(stack, j)] OBVIOUS
<1>6. Ancestry(g, n, m) /\ \A j \in 1 .. n : m[j] = Mother(stack, j) BY <1>1, <1>2, <1>5, LineageIs
<1> DEFINE Body(r, j) == IF j = 0 THEN {}
                         ELSE {j} \cup (IF truth.mother[j] < 0 THEN {} ELSE r[truth.mother[j]])
           Unfolds(r) == r = [j \in 0 .. n |-> Body(r, j)]
<1>7. RealLine = CHOOSE r : Unfolds(r) BY <1>1 DEF RealLine
<1>8. \E r : Unfolds(r)
  <2>1. PICK w : w = [j \in 1 .. n |-> truth.mother[j]] OBVIOUS
  <2>2. /\ w \in [1 .. n -> Int] /\ \A j \in 1 .. n : w[j] = truth.mother[j]
        /\ \A j \in 1 .. n : w[j] \in {NoTrack} \cup 1 .. j - 1
    BY <1>3, <2>1
  <2>3. PICK h : DOMAIN h = 0 .. n /\ Ancestry(h, n, w) BY <2>2, AncestryExists
  <2>4. PICK r : r = [j \in 0 .. n |-> h[j]] OBVIOUS
  <2>5. ASSUME NEW j \in 0 .. n PROVE r[j] = Body(r, j)
    <3>1. CASE j = 0 BY <2>3, <2>4, <3>1 DEF Ancestry
    <3>2. CASE j # 0
      <4>1. j \in 1 .. n BY <3>2
      <4>2. h[j] = {j} \cup (IF w[j] < 0 THEN {} ELSE h[w[j]]) BY <2>3, <4>1 DEF Ancestry
      <4>3. w[j] < 0 \/ r[w[j]] = h[w[j]]
        <5>1. w[j] \in {NoTrack} \cup 1 .. j - 1 BY <2>2, <4>1
        <5>2. NoTrack < 0 /\ 1 .. j - 1 \subseteq 0 .. n BY <4>1 DEF NoTrack
        <5> QED BY <2>4, <5>1, <5>2
      <4>4. r[j] = h[j] BY <2>4
      <4> QED BY <2>2, <3>2, <4>1, <4>2, <4>3, <4>4
    <3> QED BY <3>1, <3>2
  <2>6. Unfolds(r)
    <3>1. DOMAIN r = 0 .. n /\ r = [j \in 0 .. n |-> r[j]] BY <2>4
    <3> HIDE DEF Body
    <3> QED BY <2>5, <3>1
  <2> HIDE DEF Unfolds
  <2> QED BY <2>6
<1>9. PICK r : r = RealLine /\ Unfolds(r)
  <2> HIDE DEF Unfolds
  <2> QED BY <1>7, <1>8
<1>10. \A j \in 0 .. n : r[j] = Body(r, j)
  <2> HIDE DEF Body
  <2> QED BY <1>9
<1> DEFINE T == {k \in 0 .. n : \A j \in 1 .. k : j \notin DOMAIN stack.moved => g[j] = r[j]}
<1>11. 0 \in T OBVIOUS
<1>12. ASSUME NEW k \in 0 .. n - 1, k \in T PROVE k + 1 \in T
  <2>1. k + 1 \in 1 .. n /\ k + 1 \in 0 .. n /\ k + 1 # 0 OBVIOUS
  <2>2. ASSUME k + 1 \notin DOMAIN stack.moved PROVE g[k + 1] = r[k + 1]
    <3>1. PICK x : x = m[k + 1] OBVIOUS
    <3>2. x = truth.mother[k + 1] /\ x \in {NoTrack} \cup ((1 .. k) \ DOMAIN stack.moved)
      BY <1>3, <1>4, <1>6, <2>1, <2>2, <3>1
    <3>3. g[k + 1] = {k + 1} \cup (IF x < 0 THEN {} ELSE g[x]) BY <1>6, <2>1, <3>1 DEF Ancestry
    <3>4. r[k + 1] = {k + 1} \cup (IF x < 0 THEN {} ELSE r[x]) BY <1>10, <2>1, <3>2
    <3>5. x < 0 \/ g[x] = r[x]
      <4>1. CASE x = NoTrack BY <4>1 DEF NoTrack
      <4>2. CASE x \in (1 .. k) \ DOMAIN stack.moved BY <1>12, <4>2
      <4> QED BY <3>2, <4>1, <4>2
    <3> QED BY <3>3, <3>4, <3>5
  <2>3. \A j \in 1 .. k + 1 : j = k + 1 \/ j \in 1 .. k OBVIOUS
  <2> QED BY <1>12, <2>1, <2>2, <2>3
<1>13. n \in T
  <2>1. 0 .. n \subseteq T
    <3> HIDE DEF T
    <3>1. 0 \in Int /\ 0 \in Nat /\ n \in Int OBVIOUS
    <3> QED BY <1>11, <1>12, <3>1, InductionUpTo
  <2> HIDE DEF T
  <2> QED BY <2>1
<1> QED BY <1>1, <1>5, <1>9, <1>13

\* What the stack lets pass is what was asked for.
LEMMA PassesAsked ==
    ASSUME SimInv, Counted = Detectors, NEW i \in 1 .. NParticles(stack)
    PROVE Passes(stack, i) <=> Asked(i)
<1>1. Traced(stack) BY TracedIs
<1>2. /\ truth.of[i] = Original(stack, i)
      /\ i \notin DOMAIN stack.moved => truth.mother[i] = Mother(stack, i)
  BY DEF SimInv, LineInv, Line, Mother
<1>3. Mother(stack, i) \in {NoTrack} \cup 1 .. i - 1 BY <1>1, MotherIs
<1>4. Mother(stack, i) < 0 <=> Mother(stack, i) = NoTrack BY <1>3 DEF NoTrack
<1>5. CASE i \in DOMAIN stack.moved
  <2>1. stack.moved[i] \in 1 .. i - 1 BY <1>1, <1>5 DEF Traced
  <2>2. truth.of[i] # i BY <1>2, <1>5, <2>1 DEF Original
  <2>3. Mother(stack, i) = 1
    <3>1. FirstTrack = 1 /\ 1 \notin DOMAIN stack.moved
      <4>1. 1 \notin 2 .. NParticles(stack) BY <1>1 DEF Traced
      <4> QED BY <1>1, <4>1 DEF Traced, FirstTrack
    <3>2. stack.parts[i].mother = FirstTrack BY <1>1, <1>5 DEF Traced
    <3> QED BY <3>1, <3>2 DEF Mother, Original
  <2>4. ~(Mother(stack, i) < 0) BY <2>3
  <2> QED BY <1>5, <2>2, <2>4 DEF Passes, Asked
<1>6. CASE i \notin DOMAIN stack.moved
  <2>1. truth.of[i] = i /\ truth.mother[i] = Mother(stack, i) BY <1>2, <1>6 DEF Original
  <2>2. PICK n \in Nat : n = Len(points) BY DEF SimInv, PointInv, Credited
  <2>3. DOMAIN points = 1 .. n BY <2>2 DEF SimInv, PointInv, Credited
  <2>4. PICK f : f = [d \in Counted |-> Left(i, d)] OBVIOUS
  <2>5. f \in [Counted -> SUBSET (1 .. n)] BY <2>3, <2>4 DEF Left
  <2>6. \A d \in Counted : Copies(stack, i, d) = Cardinality(f[d])
    <3> TAKE d \in Counted
    <3>1. i \in Nat /\ d \in Detectors OBVIOUS
    <3>2. Copies(stack, i, d) = Cardinality(LeftIn(points, truth.maker, i, d))
      BY <3>1 DEF SimInv, PointInv, Credited
    <3>3. f[d] = LeftIn(points, truth.maker, i, d) BY <2>4 DEF Left, LeftIn
    <3> QED BY <3>2, <3>3
  <2>7. \A d, e \in Counted : d # e => f[d] \cap f[e] = {} BY <2>4 DEF Left
  <2>8. IsFiniteSet(Counted) BY StackAssumption
  <2>9. NPoints(stack, i) = Cardinality(UNION {f[d] : d \in Counted})
    BY <2>2, <2>5, <2>6, <2>7, <2>8, NPointsIs
  <2>10. {f[d] : d \in Counted} = {Left(i, d) : d \in Detectors} BY <2>4
  <2>11. NPoints(stack, i) = Cardinality(UNION {Left(i, d) : d \in Detectors}) BY <2>9, <2>10
  <2> QED BY <1>4, <1>6, <2>1, <2>11 DEF Passes, Asked
<1> QED BY <1>5, <1>6

\* The tracks that are handed over.
LEMMA StoredStep ==
    ASSUME SimInv, [SimNext]_simVars, Stores, phase = "next", Counted = Detectors
    PROVE LET asked == {i \in DOMAIN stack.parts : Asked(i)} IN
          {stored'.tracks[k].part : k \in DOMAIN stored'.tracks} =
             IF stack.options.mothers THEN UNION {RealLine[i] : i \in asked} ELSE asked
<1>1. /\ Traced(stack) /\ stack.options.mothers \in BOOLEAN
      /\ stored'.tracks = FillTrackArray(stack)
  BY HandedOver, TracedIs
<1>2. PICK t, T : t = stored'.tracks /\ T = SelectTracks(stack) OBVIOUS
<1>3. Renumbered(stack, T, t) BY <1>1, <1>2, FilledIs
<1>4. {t[k].part : k \in DOMAIN t} = T BY <1>3 DEF Renumbered
<1>5. PICK asked : asked = {i \in DOMAIN stack.parts : Asked(i)} OBVIOUS
<1>6. DOMAIN stack.parts = 1 .. NParticles(stack)
  <2>1. stack.parts \in Seq(Particles) BY DEF SimInv, ShapeInv, IsStack, StacksFrom
  <2> QED BY <2>1 DEF NParticles
<1>7. asked = {i \in 1 .. NParticles(stack) : Passes(stack, i)} BY <1>5, <1>6, PassesAsked
<1>8. CASE stack.options.mothers
  <2>1. T = UNION {Lineage(stack)[i] : i \in asked} BY <1>2, <1>7, <1>8 DEF SelectTracks
  <2>2. ASSUME NEW i \in asked PROVE Lineage(stack)[i] = RealLine[i]
    <3>1. Asked(i) /\ i \in 1 .. NParticles(stack) BY <1>5, <1>6
    <3>2. truth.of[i] = i BY <3>1 DEF Asked
    <3>3. truth.of[i] = Original(stack, i) BY <3>1 DEF SimInv, LineInv, Line
    <3>4. i \notin DOMAIN stack.moved
      <4> SUFFICES ASSUME i \in DOMAIN stack.moved PROVE FALSE
        OBVIOUS
      <4>1. stack.moved[i] \in 1 .. i - 1 BY <1>1 DEF Traced
      <4> QED BY <3>1, <3>2, <3>3, <4>1 DEF Original
    <3> QED BY <3>1, <3>4, LinesAgree
  <2>3. UNION {Lineage(stack)[i] : i \in asked} = UNION {RealLine[i] : i \in asked} BY <2>2
  <2>4. {stored'.tracks[k].part : k \in DOMAIN stored'.tracks} = UNION {RealLine[i] : i \in asked}
    BY <1>2, <1>4, <2>1, <2>3
  <2> QED BY <1>5, <1>8, <2>4, Zenon
<1>9. CASE ~stack.options.mothers
  <2>1. T = asked BY <1>2, <1>7, <1>9 DEF SelectTracks
  <2> QED BY <1>2, <1>4, <1>5, <1>9, <2>1
<1> QED BY <1>1, <1>8, <1>9

(***************************************************************************)
(* The stored tracks are those the filter of FairStack asks for, and       *)
(* their ancestors if mothers are kept, with the right mothers. The        *)
(* filter counts the points only of detectors before kSTOPHERE; that all   *)
(* detectors are put before it is what FairDetectorList.h asks for.        *)
(***************************************************************************)
THEOREM TracksAlwaysRight ==
    ASSUME Counted = Detectors
    PROVE SimSpec => TracksRight
<1>1. SimInv /\ [SimNext]_simVars =>
        [Stores /\ phase = "next" =>
          LET asked == {i \in DOMAIN stack.parts : Asked(i)} IN
          {stored'.tracks[k].part : k \in DOMAIN stored'.tracks} =
             IF stack.options.mothers THEN UNION {RealLine[i] : i \in asked} ELSE asked]_simVars
  BY StoredStep
<1> QED BY <1>1, SimInvariant, MothersAlwaysRight, PTL DEF SimSpec, TracksRight, StoredAsAsked
=============================================================================
