SPECIFICATION Spec
CONSTANTS
    Calls = {c1, c2}
SYMMETRY Symmetry
INVARIANTS
    TypeOK
    NothingLeftOpen
    CursorInsideConnection
PROPERTIES
    KeepsPromise
