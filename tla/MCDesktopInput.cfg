SPECIFICATION Spec
CONSTANTS
    Words <- MCWords
    Readers = {r1}
    MaxMoves = 2
INVARIANTS
    TravelDeliveredOnce
    NoStuckKeys
    CaptureAgrees
