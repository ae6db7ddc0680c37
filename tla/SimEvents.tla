------------------------------ MODULE SimEvents ------------------------------
(***************************************************************************)
(* The events of a simulation: FairMCApplication and FairPrimaryGenerator, *)
(* which fill the particle stack, and the transport engine, which takes    *)
(* the particles from it and calls the detectors back.                     *)
(*                                                                         *)
(* The engine is not part of the repository.  Geant3 pops the particles    *)
(* from the stack of the program; Geant4 keeps a stack of its own (todo)   *)
(* and tells the program which track is current.                           *)
(***************************************************************************)
EXTENDS FairStack

(***************************************************************************)
(* A setup says which engine follows the particles, how many events        *)
(* ProcessRun is asked for, what the stack is told to keep and which       *)
(* numbers the generators may give to events themselves, as the            *)
(* FairUrqmdGenerator does; the bounds are the particles and the points of *)
(* an event.                                                               *)
(***************************************************************************)
CONSTANT SimSetups

ASSUME SimAssumption ==
    \A s \in SimSetups :
       /\ s.engine \in {"Geant3", "Geant4"}
       /\ s.nEvents \in Nat \ {0} /\ s.maxParticles \in Nat /\ s.maxPoints \in Nat
       /\ s.options.minPoints \in Nat /\ s.ids \subseteq Nat
       /\ {s.options.secondaries, s.options.mothers} \subseteq BOOLEAN

NoEventID == -1         \* the largest number of the type, which no event has

VARIABLES
    simSetup,   \* the setup of this run
    phase,      \* "begin", "next", "track", "done" or "exit"
    events,     \* events finished by ProcessRun
    stack,      \* the FairStack
    todo,       \* the tracks Geant4 has still to follow
    points,     \* the points of the detectors
    header,     \* the event number of the FairMCEventHeader
    fEventNr,   \* the number last given by the FairPrimaryGenerator
    fSaveCurrentEvent,
    stored,     \* what the last event handed to the sink, if it did
    created,    \* the particles the last DoIt made into Geant4 tracks
    truth,      \* history: what really happened in this event
    given       \* history: the number each event got from its generators, if any

simVars == <<simSetup, phase, events, stack, todo, points, header, fEventNr,
          fSaveCurrentEvent, stored, created, truth, given>>

Engine == simSetup.engine
NEvents == simSetup.nEvents
MaxParticles == simSetup.maxParticles
MaxPoints == simSetup.maxPoints

(***************************************************************************)
(* truth.of[i] is the particle that i continues (i itself unless fast      *)
(* simulation moved it), truth.mother[i] the particle that produced it,    *)
(* truth.maker[q] the particle that left point q, truth.pushed the         *)
(* secondaries the last fast-simulation call pushed, and truth.refused     *)
(* says that somebody asked not to save the event.                         *)
(***************************************************************************)
NoTruth == [of |-> <<>>, mother |-> <<>>, maker |-> <<>>, pushed |-> <<>>,
            refused |-> FALSE]

\* What really is the current track
Now == truth.of[stack.current]

Nothing == [id |-> NoEventID, tracks |-> <<>>, points |-> <<>>]
-----------------------------------------------------------------------------
SimInit ==
    /\ simSetup \in SimSetups
    /\ phase = "begin" /\ events = 0
    /\ stack = EmptyStack(simSetup.options) /\ todo = {} /\ points = <<>>
    /\ header = NoEventID /\ fEventNr = 0 /\ fSaveCurrentEvent = TRUE
    /\ stored = Nothing /\ created = <<>> /\ truth = NoTruth /\ given = <<>>

\* FairPrimaryGenerator::AddTrack for each of the particles ps
Added(s, ps) ==
    LET added[n \in 0 .. Len(ps)] ==
          IF n = 0 THEN s ELSE Pushed(added[n - 1], ps[n].track, NoTrack, ps[n].hard)
    IN  added[Len(ps)]

AddTracks(ps) ==
    /\ stack' = Added(stack, ps)
    /\ truth' = [NoTruth EXCEPT !.of = [i \in DOMAIN ps |-> i],
                                !.mother = [i \in DOMAIN ps |-> NoTrack]]

(***************************************************************************)
(* GeneratePrimaries when every generator delivers.  A generator may ask   *)
(* that a particle is kept but not tracked, and may number the event; the  *)
(* FairPrimaryGenerator counts only the events that none has numbered.     *)
(***************************************************************************)
\* The number an event has from its generators
GivenIds == {NoEventID} \cup simSetup.ids

NumberEvent(id) ==
    /\ fEventNr' = IF id = NoEventID THEN fEventNr + 1 ELSE fEventNr
    /\ header' = IF id = NoEventID THEN fEventNr + 1 ELSE id

GenerateEvent ==
    /\ phase = "begin" /\ events < NEvents
    /\ \E ps \in BoundedSeq([track : BOOLEAN, hard : {TRUE}], MaxParticles - 1) :
         /\ AddTracks(ps)
         /\ todo' = IF Engine = "Geant4" THEN {i \in DOMAIN ps : ps[i].track}
                    ELSE {}
    /\ \E id \in GivenIds : NumberEvent(id) /\ given' = Append(given, id)
    /\ phase' = "next"
    /\ stored' = Nothing
    /\ created' = <<>>
    /\ UNCHANGED <<simSetup, events, points, fSaveCurrentEvent>>

(***************************************************************************)
(* FinishEvent for a stack s under the event number id: the tracks are     *)
(* selected, the points are renumbered, the event is handed to the sink    *)
(* unless somebody asked that it is not saved, and everything is reset.    *)
(***************************************************************************)
\* Mutant: a request not to save an event stands for all later events.
SaveNext == fSaveCurrentEvent
SaveAgain == TRUE

FinishEvent(s, id) ==
    /\ stored' = IF fSaveCurrentEvent
                 THEN [id |-> id, tracks |-> FillTrackArray(s),
                       points |-> UpdateTrackIndex(s, points)]
                 ELSE Nothing
    /\ fSaveCurrentEvent' = SaveAgain
    /\ stack' = Reset(s)
    /\ todo' = {} /\ points' = <<>> /\ created' = <<>> /\ truth' = NoTruth

(***************************************************************************)
(* GeneratePrimaries when a generator has no more events: those before it  *)
(* have added their tracks, and the header has the number one of them may  *)
(* have given, but is not numbered any more.  StopRun finishes this event  *)
(* like any other and leaves the program.                                  *)
(***************************************************************************)
GeneratorEnds ==
    /\ phase = "begin" /\ events < NEvents
    /\ \E ps \in BoundedSeq([track : {TRUE}, hard : {TRUE}], MaxParticles - 1) :
         \E id \in GivenIds :
            /\ FinishEvent(Added(stack, ps), id)
            /\ header' = id
            /\ given' = Append(given, id)
    /\ phase' = "exit"
    /\ UNCHANGED <<simSetup, events, fEventNr>>
-----------------------------------------------------------------------------
\* The engine takes up the next track
NextTrack ==
    /\ phase = "next"
    /\ \/ /\ Engine = "Geant3" /\ stack.lifo # <<>>
          /\ stack' = Popped(stack) /\ UNCHANGED todo
       \/ /\ Engine = "Geant4"
          /\ \E i \in todo : /\ stack' = [stack EXCEPT !.current = i]
                             /\ todo' = todo \ {i}
    /\ phase' = "track"
    /\ created' = <<>> /\ truth' = [truth EXCEPT !.pushed = <<>>]
    /\ UNCHANGED <<simSetup, events, points, header, fEventNr, given, fSaveCurrentEvent,
                   stored>>

\* A detector's ProcessHits leaves a point of the current track
LeavePoint(s, d) ==
    /\ stack' = AddPoint(s, d)
    /\ points' = Append(points, [det |-> d, track |-> GetCurrentTrackNumber(s)])

ProcessHits ==
    /\ phase = "track" /\ Len(points) < MaxPoints
    /\ \E d \in Detectors : LeavePoint(stack, d)
    /\ truth' = [truth EXCEPT !.maker = Append(@, Now)]
    /\ UNCHANGED <<simSetup, phase, events, todo, header, fEventNr, given, fSaveCurrentEvent,
                   stored, created>>

\* The engine produces a secondary; it may name the track it popped or the
\* one the stack reports
MakeSecondary ==
    /\ phase = "track" /\ NParticles(stack) < MaxParticles
    /\ \E hard \in BOOLEAN,
          parent \in {stack.current, GetCurrentTrackNumber(stack)} :
         stack' = Pushed(stack, Engine = "Geant3", parent, hard)
    /\ todo' = IF Engine = "Geant4" THEN todo \cup {NParticles(stack) + 1}
               ELSE todo
    /\ truth' = [truth EXCEPT !.of = Append(@, NParticles(stack) + 1),
                              !.mother = Append(@, Now)]
    /\ UNCHANGED <<simSetup, phase, events, points, header, fEventNr, given, fSaveCurrentEvent,
                   stored, created>>

(***************************************************************************)
(* The track enters the region of a FairFastSimDetector: the user's        *)
(* FastSimProcessParticle pushes before secondaries, moves the particle or *)
(* stops it, and pushes after more.  Geant3 stops a moved track, whose     *)
(* continuation is on the stack; Geant4 goes on with it after DoIt.        *)
(***************************************************************************)
SecondariesPushed(s, k) ==
    LET pushed[j \in 0 .. k] ==
          IF j = 0 THEN s
          ELSE FastSimPushSecondary(pushed[j - 1], GetCurrentTrackNumber(s), TRUE)
    IN  pushed[k]

PushedIds(s, k) == [j \in 1 .. k |-> NParticles(s) + j]

FastSimProcessParticle ==
    /\ phase = "track"
    /\ \E before, after \in 0 .. 2, moves \in BOOLEAN :
         LET s1 == SecondariesPushed(stack, before)
             s2 == IF moves
                   THEN FastSimMoveParticleTo(s1, stack.parts[stack.current].hard)
                   ELSE FastSimStopParticle(s1)
             s3 == SecondariesPushed(s2, after)
             mine == PushedIds(stack, before) \o PushedIds(s2, after)
             new == NParticles(s3) - NParticles(stack)
         IN
         /\ NParticles(s3) <= MaxParticles
         /\ truth' = [truth EXCEPT
              !.of = @ \o [j \in 1 .. new |->
                             IF moves /\ j = before + 1 THEN Now
                             ELSE NParticles(stack) + j],
              !.mother = @ \o [j \in 1 .. new |->
                             IF moves /\ j = before + 1 THEN truth.mother[Now]
                             ELSE Now],
              !.pushed = mine]
         /\ IF Engine = "Geant4"
            THEN /\ created' = DoItCreates(s3)
                 /\ stack' = FastSimClearMovedIndex(s3)
            ELSE /\ created' = <<>>
                 /\ stack' = s3
         /\ phase' = IF Engine = "Geant4" /\ moves THEN "track" ELSE "next"
    /\ UNCHANGED <<simSetup, events, todo, points, header, fEventNr, given, fSaveCurrentEvent,
                   stored>>

EndTrack ==
    /\ phase = "track"
    /\ phase' = "next"
    /\ UNCHANGED <<simSetup, events, stack, todo, points, header, fEventNr, given,
                   fSaveCurrentEvent, stored, created, truth>>

\* Code of the user asks that the event is not written
DoNotSave ==
    /\ phase = "track"
    /\ fSaveCurrentEvent' = FALSE
    /\ truth' = [truth EXCEPT !.refused = TRUE]
    /\ UNCHANGED <<simSetup, phase, events, stack, todo, points, header, fEventNr, given,
                   stored, created>>

EngineFinishesEvent ==
    /\ phase = "next"
    /\ IF Engine = "Geant3" THEN stack.lifo = <<>> ELSE todo = {}
    /\ FinishEvent(stack, header)
    /\ events' = events + 1
    /\ phase' = IF events' = NEvents THEN "done" ELSE "begin"
    /\ UNCHANGED <<simSetup, header, fEventNr, given>>

SimNext ==
    \/ GenerateEvent \/ GeneratorEnds
    \/ NextTrack \/ ProcessHits \/ MakeSecondary \/ FastSimProcessParticle
    \/ EndTrack \/ DoNotSave \/ EngineFinishesEvent

SimSpec == SimInit /\ [][SimNext]_simVars
-----------------------------------------------------------------------------
\* The state keeps its shape, and the history speaks of the same particles
\* and points as the stack and the detectors.
SimTypeOK ==
    /\ phase \in {"begin", "next", "track", "done", "exit"}
    /\ events \in 0 .. NEvents /\ fEventNr \in 0 .. NEvents
    /\ \A i \in DOMAIN stack.parts : stack.parts[i].mother \in {NoTrack} \cup 1 .. i - 1
    /\ DOMAIN truth.of = DOMAIN stack.parts
    /\ DOMAIN truth.mother = DOMAIN stack.parts
    /\ DOMAIN truth.maker = DOMAIN points
    /\ phase = "track" => stack.current \in DOMAIN stack.parts

(***************************************************************************)
(* However often a particle was moved, fFSTrackMap leads in one step to    *)
(* the particle it really continues (FastSimMoveParticleTo; SelectTracks   *)
(* and FastSimUpdateTrackIndex look only once).                            *)
(***************************************************************************)
MovedLeadsToOriginal ==
    \A i \in DOMAIN stack.parts : Original(stack, i) = truth.of[i]

\* An event reaches the sink in this step
Stores == /\ phase \in {"begin", "next"} /\ phase' \in {"begin", "done", "exit"} \ {phase}
          /\ stored' # Nothing

\* Where the output keeps a particle of the event that is being finished
Output(i) ==
    LET t == stored'.tracks IN
    IF i = NoTrack THEN NoTrack
    ELSE IF \E k \in DOMAIN t : t[k].part = i
         THEN CHOOSE k \in DOMAIN t : t[k].part = i
         ELSE NotStored

(***************************************************************************)
(* The mother of a stored track is the stored track of the particle that   *)
(* really produced it, and it is never missing when mothers are kept.      *)
(***************************************************************************)
MothersRight ==
    [][Stores =>
         \A k \in DOMAIN stored'.tracks :
            LET t == stored'.tracks[k] IN
            /\ t.part \in DOMAIN truth.of =>
                 t.mother = Output(truth.mother[truth.of[t.part]])
            /\ stack.options.mothers => t.mother # NotStored]_simVars

(***************************************************************************)
(* Every point of the event is stored once and names the stored track of   *)
(* the particle that really left it: renumbering, fast simulation and the  *)
(* reset between events do not mix them up.                                *)
(***************************************************************************)
PointsRight ==
    [][Stores /\ points # <<>> =>
         /\ DOMAIN stored'.points = DOMAIN points
         /\ \A q \in DOMAIN points :
               /\ stored'.points[q].det = points[q].det
               /\ stored'.points[q].track = Output(truth.maker[q])]_simVars

\* The points in the collections that particle i really left in detector d
Left(i, d) == {q \in DOMAIN points : truth.maker[q] = i /\ points[q].det = d}

(***************************************************************************)
(* The number of points a stored track claims in a detector agrees with    *)
(* the points of that detector, up to what the field can hold.             *)
(***************************************************************************)
CountsRight ==
    [][Stores =>
         \A k \in DOMAIN stored'.tracks, d \in Counted :
            LET n == Cardinality(Left(stored'.tracks[k].part, d)) IN
            stored'.tracks[k].n[d] = IF n > MaxCount THEN MaxCount ELSE n]_simVars

\* The ancestors of a particle, as they really are
RealLine ==
    LET line[i \in 0 .. NParticles(stack)] ==
          IF i = 0 THEN {}
          ELSE {i} \cup (IF truth.mother[i] < 0 THEN {} ELSE line[truth.mother[i]])
    IN  line

\* What the head of FairStack.h asks to be kept: the primaries, and the
\* secondaries with enough points, summed over all detectors, and energy
Asked(i) ==
    /\ truth.of[i] = i
    /\ \/ truth.mother[i] = NoTrack
       \/ /\ stack.options.secondaries /\ stack.parts[i].hard
          /\ Cardinality(UNION {Left(i, d) : d \in Detectors}) >= stack.options.minPoints

(***************************************************************************)
(* The stored tracks are those the filter criteria of FairStack ask for,   *)
(* and their ancestors if mothers are kept.  A track that fast simulation  *)
(* made is never stored.                                                   *)
(***************************************************************************)
StoredAsAsked ==
    [][Stores /\ phase = "next" =>
         LET asked == {i \in DOMAIN stack.parts : Asked(i)} IN
         {stored'.tracks[k].part : k \in DOMAIN stored'.tracks} =
            IF stack.options.mothers THEN UNION {RealLine[i] : i \in asked} ELSE asked]_simVars

\* The events so far that no generator has numbered
Unnumbered == {k \in DOMAIN given : given[k] = NoEventID}

(***************************************************************************)
(* A transported event is stored under the number its own generators gave  *)
(* it, or, if they gave none, under its place among the events without     *)
(* one, refused events and events numbered otherwise in between or not.    *)
(* An event that was not transported, which StopRun stores when a          *)
(* generator has no more events, is the last of the file and has no number *)
(* but one that was given to itself.                                       *)
(***************************************************************************)
NumberedAsGiven ==
    [][Stores =>
         LET own == Last(given') IN
         IF phase = "begin"
         THEN phase' = "exit" /\ stored'.id = own
         ELSE stored'.id = IF own = NoEventID THEN Cardinality(Unnumbered) ELSE own]_simVars

(***************************************************************************)
(* An event that was transported is missing in the sink only if it was     *)
(* itself refused: a request not to save does not reach a later event.     *)
(***************************************************************************)
MissingOnlyIfRefused ==
    [][phase = "next" /\ phase' \in {"begin", "done"} =>
         (stored' = Nothing) = truth.refused]_simVars

(***************************************************************************)
(* Geant4 gets every secondary a fast-simulation call pushed, once and in  *)
(* order, and not the particle that was moved, wherever the move was made  *)
(* between them (FairFastSimModel::DoIt).                                  *)
(***************************************************************************)
CreatedAsPushed ==
    Engine = "Geant4" => created = truth.pushed

(***************************************************************************)
(* Fast simulation keeps track of which particle is which: a moved one     *)
(* leads to its original, and Geant4 gets what was pushed.                 *)
(***************************************************************************)
FastSimRight == SimTypeOK /\ MovedLeadsToOriginal /\ CreatedAsPushed

\* The right tracks are stored, with the right mothers.
TracksRight == MothersRight /\ StoredAsAsked

\* The right points are stored, and as many as the tracks say.
HitsRight == PointsRight /\ CountsRight

\* The right events are stored, under the right numbers.
EventsRight == NumberedAsGiven /\ MissingOnlyIfRefused
=============================================================================
