CONSTANTS
    Participants = {p1, p2, p3}
    Energies = {0, 1, 2}
    Limits = {0, 1, 3}
    TailFrames = 5
SPECIFICATION Spec
SYMMETRY Symmetry
INVARIANTS
    TypeOK
    NoNullFrame
    FramesComeBack
    LoudestHeard
PROPERTIES
    NobodyCutOff
