SPECIFICATION Spec
CONSTANTS
    Line = {"a", "b"}
    NoText = ""
    MaxLines = 4
INVARIANTS
    TypeOK
    LinesAreKept
PROPERTIES
    WalkSpec
