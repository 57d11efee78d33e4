CONSTANTS
    nFFT = 4
    Numbers = 20
SPECIFICATION FairSpec
INVARIANTS
    TypeOK
    RoomForNext
    NothingLost
PROPERTIES
    ImplementsFifo
    SoundFlows
