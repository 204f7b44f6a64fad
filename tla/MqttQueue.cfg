CONSTANTS
    BufSize = 18
    RecSize = 3
    HdrLen = 2
    Sizes = {2, 3, 4}
    Ids = {m1, m2, m3, m4}
    Rec = Rec
    Junk = Junk
SYMMETRY IdSymmetry
SPECIFICATION Spec
INVARIANTS
    TypeOK
    Layout
    NoCorruption
PROPERTIES
    RefusalJustified
    Implements
