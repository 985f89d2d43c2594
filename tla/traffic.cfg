\* Two key pairs, a restored copy, every failure and a clock that is set back.
CONSTANTS
    MaxPeer = 2
    MaxRow = 3
    MaxTime = 2
    Keep = 1
    Cap = 2
    NoCopy = NoCopy
    Faults = {"wg", "db", "restart", "clock"}
SPECIFICATION Spec
INVARIANTS
    TypeOK
    OwnHistory
    AnswerIsNewest
PROPERTIES
    NewestKept
