\* Two restores at once and two statements, every failure, crashes at any point.
CONSTANTS
    b0 = b0
    b1 = b1
    Handler = {h1, h2}
    Writer = {w1, w2}
    MaxWrite = 2
    Base = {b0, b1}
    NoBase = b0
    Upload <- MCUpload
    Spoilt = Spoilt
    Absent = Absent
    Unsure = Unsure
    Faults = {"crash", "io", "leave", "overlap"}
SPECIFICATION Spec
SYMMETRY HandlerAndWriterSymmetry
INVARIANTS
    TypeOK
    InPlace
PROPERTIES
    PreviousKept
