------------------------------ MODULE FairStack ------------------------------
(***************************************************************************)
(* The particle stack of a simulation: FairStack of the examples and the   *)
(* fast-simulation part of its base class FairGenericStack.                *)
(*                                                                         *)
(* A stack is a record, an operation is a function from stacks to stacks.  *)
(* Particles are numbered from 1 (the code numbers them from 0), and so    *)
(* are the tracks of the output; -1 and -2 keep the meaning they have in   *)
(* the code.                                                               *)
(***************************************************************************)
EXTENDS Integers, Bags, FiniteSetsExt, SequencesExt

CONSTANTS
    Detectors,          \* the detectors that have an entry in DetectorId
    Counted,            \* those of them that are before kSTOPHERE
    MaxCount            \* the largest number of points FairMCTrack can keep

ASSUME StackAssumption ==
    /\ Counted \subseteq Detectors /\ IsFiniteSet(Detectors)
    /\ MaxCount \in Nat

NoTrack == -1        \* the mother of a primary, and no current track
NotStored == -2        \* what fIndexMap says of a particle that is left out
NotMoved == -2        \* fFSMovedIndex before a fast-simulation call
Stopped == -1        \* fFSMovedIndex after FastSimStopParticle
FirstTrack == 1         \* the mother FastSimMoveParticleTo names (0 there)

(***************************************************************************)
(* parts: fParticles; lifo: fStack, its top last; current: fCurrentTrack;  *)
(* moved: fFSTrackMap; points: fPointsMap; the other three are the         *)
(* indices fast simulation keeps, fFSMovedIndex, fFSFirstSecondary and     *)
(* fFSNofSecondaries; options: the filter of the user, fMinPoints,         *)
(* fStoreSecondaries and fStoreMothers.  hard: the kinetic energy passes   *)
(* fEnergyCut.                                                             *)
(***************************************************************************)
EmptyStack(options) ==
    [parts |-> <<>>, lifo |-> <<>>, current |-> NoTrack, moved |-> <<>>,
     points |-> EmptyBag, index |-> NotMoved, first |-> NotMoved, n |-> 0,
     options |-> options]

NParticles(s) == Len(s.parts)

Pushed(s, toBeDone, parent, hard) ==
    [s EXCEPT !.parts = Append(@, [mother |-> parent, hard |-> hard]),
              !.lifo  = IF toBeDone THEN Append(@, NParticles(s) + 1) ELSE @]

\* PopNextTrack, for a stack that is not empty
Popped(s) == [s EXCEPT !.lifo = Front(@), !.current = Last(s.lifo)]

\* The track a fast-simulation track continues, any other track itself
Original(s, i) == IF i \in DOMAIN s.moved THEN s.moved[i] ELSE i

GetCurrentTrackNumber(s) == Original(s, s.current)

\* Mutant: the point is counted for the track as it was popped.
CountedForPopped(s, det) ==
    [s EXCEPT !.points = @ (+) SetToBag({<<s.current, det>>})]
AddPoint(s, det) ==
    [s EXCEPT !.points = @ (+) SetToBag({<<Original(s, s.current), det>>})]

\* A map with the entry v for k
WithEntry(map, k, v) == [i \in DOMAIN map \cup {k} |-> IF i = k THEN v ELSE map[i]]

\* Mutant: the new track continues the one that was popped.
MovedPopped(s, hard) ==
    LET p == Pushed(s, TRUE, FirstTrack, hard) IN
    [p EXCEPT !.index = NParticles(p),
              !.moved = WithEntry(@, NParticles(p), s.current)]
FastSimMoveParticleTo(s, hard) ==
    LET p == Pushed(s, TRUE, FirstTrack, hard) IN
    [p EXCEPT !.index = NParticles(p),
              !.moved = WithEntry(@, NParticles(p),
                                  Original(s, GetCurrentTrackNumber(s)))]

FastSimStopParticle(s) == [s EXCEPT !.index = Stopped]

FastSimPushSecondary(s, parent, hard) ==
    LET p == Pushed(s, TRUE, parent, hard) IN
    [p EXCEPT !.first = IF s.n = 0 THEN NParticles(p) ELSE @, !.n = @ + 1]

FastSimClearMovedIndex(s) ==
    [s EXCEPT !.index = NotMoved, !.first = NotMoved, !.n = 0]
-----------------------------------------------------------------------------
(***************************************************************************)
(* SelectTracks.  Mothers that fast simulation made are replaced first,    *)
(* so that no line of ancestors passes through one.                        *)
(***************************************************************************)
\* Mutant: the mothers are left as they were pushed.
MotherAsPushed(s, i) == s.parts[i].mother
Mother(s, i) == Original(s, s.parts[i].mother)

\* The number fPointsMap has for a particle and a detector
Copies(s, i, d) == IF <<i, d>> \in DOMAIN s.points THEN s.points[<<i, d>>] ELSE 0

NPoints(s, i) ==
    MapThenSumSet(LAMBDA d : Copies(s, i, d), Counted)

Passes(s, i) ==
    \/ Mother(s, i) < 0
    \/ /\ s.options.secondaries /\ NPoints(s, i) >= s.options.minPoints
       /\ s.parts[i].hard /\ i \notin DOMAIN s.moved

Lineage(s) ==
    LET line[i \in 0 .. NParticles(s)] ==
          IF i = 0 THEN {}
          ELSE {i} \cup (IF Mother(s, i) < 0 THEN {} ELSE line[Mother(s, i)])
    IN  line

SelectTracks(s) ==
    LET passing == {i \in 1 .. NParticles(s) : Passes(s, i)} IN
    IF s.options.mothers THEN UNION {Lineage(s)[i] : i \in passing} ELSE passing

\* The how manieth of the numbers S the number i is
Rank(S, i) == Cardinality({j \in S : j <= i})

\* fIndexMap
IndexMap(s, i) ==
    IF i = NoTrack THEN NoTrack
    ELSE IF i \in SelectTracks(s) THEN Rank(SelectTracks(s), i) ELSE NotStored

\* SetNPoints cuts the number off at what its bit field can hold
StoredCounts(s, i) ==
    [d \in Counted |-> LET n == Copies(s, i, d) IN
                       IF n > MaxCount THEN MaxCount ELSE n]

\* FillTrackArray and the first half of UpdateTrackIndex; part stands for
\* the data copied from the particle
FillTrackArray(s) ==
    LET selected == SelectTracks(s)
        Nth(k) == CHOOSE i \in selected : Rank(selected, i) = k
    IN  [k \in 1 .. Cardinality(selected) |->
            [part   |-> Nth(k),
             mother |-> IndexMap(s, Mother(s, Nth(k))),
             n      |-> StoredCounts(s, Nth(k))]]

\* The second half of UpdateTrackIndex
UpdateTrackIndex(s, points) ==
    [q \in DOMAIN points |->
        [points[q] EXCEPT !.track = IndexMap(s, Original(s, @))]]

Reset(s) ==
    [EmptyStack(s.options) EXCEPT !.index = s.index, !.first = s.first, !.n = s.n]
-----------------------------------------------------------------------------
(***************************************************************************)
(* FairFastSimModel::DoIt with Geant4: the particles it creates as         *)
(* secondary tracks, in order.  The particle that was moved may be among   *)
(* those pushed and is stepped over.                                       *)
(***************************************************************************)
DoItCreates(s) ==
    [k \in 1 .. s.n |->
        LET a == s.first + k - 1 IN
        IF s.index \in s.first .. a THEN a + 1 ELSE a]
=============================================================================
