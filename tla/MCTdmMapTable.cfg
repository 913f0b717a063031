CONSTANTS
    c1 = c1
    c2 = c2
    c3 = c3
    c4 = c4
    c5 = c5
    Call = {c1, c2, c3, c4, c5}
    Circuits = 4
    TableSize = 4
    UintModulus = 16
    Automatic = FALSE
SPECIFICATION TdmSpec
SYMMETRY Symmetry
INVARIANT StaysInTable
CHECK_DEADLOCK FALSE
