----------------------------- MODULE MCSimEvents -----------------------------
(***************************************************************************)
(* Instances of SimEvents for TLC.                                         *)
(***************************************************************************)
EXTENDS SimEvents

CONSTANTS kTutDet   \* a detector before kSTOPHERE

MCDetectors == {kTutDet}

MCSimSetups ==
    {\* Two events with Geant3; mothers are kept.
     [engine |-> "Geant3", nEvents |-> 2, maxParticles |-> 4, maxPoints |-> 2, ids |-> {},
      options |-> [minPoints |-> 1, secondaries |-> TRUE, mothers |-> TRUE]],
     \* One event with Geant4, long enough for two calls of fast simulation;
     \* every track is kept for its own sake.
     [engine |-> "Geant4", nEvents |-> 1, maxParticles |-> 5, maxPoints |-> 1, ids |-> {},
      options |-> [minPoints |-> 0, secondaries |-> TRUE, mothers |-> FALSE]],
     \* Three events, which a generator may number, with a number that
     \* FairPrimaryGenerator gives as well or with another.
     [engine |-> "Geant3", nEvents |-> 3, maxParticles |-> 2, maxPoints |-> 1, ids |-> {2, 7},
      options |-> [minPoints |-> 1, secondaries |-> FALSE, mothers |-> FALSE]]}
=============================================================================
