\* Two administrators, overlapping saves, every failure.
CONSTANTS
    h1 = h1
    h2 = h2
    p1 = p1
    p2 = p2
    v1 = v1
    v2 = v2
    Handler = {h1, h2}
    Password = {p1, p2}
    Blank = Blank
    Value = {v1, v2}
    Defaults <- MCDefaults
    NoDoc = NoDoc
    Absent = Absent
    Empty = Empty
    Torn = Torn
    Faults = {"crash", "io", "leave", "misfit", "overlap"}
SPECIFICATION Spec
INVARIANTS TypeOK PasswordKept InForce StartsAgain
CHECK_DEADLOCK FALSE
