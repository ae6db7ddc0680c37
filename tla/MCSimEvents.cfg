SPECIFICATION SimSpec
CONSTANTS
    kTutDet = kTutDet
    Detectors <- MCDetectors
    Counted <- MCDetectors
    MaxCount = 1
    SimSetups <- MCSimSetups
INVARIANTS FastSimRight
PROPERTIES TracksRight HitsRight EventsRight
CHECK_DEADLOCK FALSE
