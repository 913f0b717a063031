CONSTANTS
    c1 = c1
    c2 = c2
    c3 = c3
    c4 = c4
    c5 = c5
    Call = {c1, c2, c3, c4, c5}
    Circuits = 4
    TableSize = 6
    UintModulus = 16
    Automatic = TRUE
SPECIFICATION TdmSpec
SYMMETRY Symmetry
PROPERTY TableDecides
CHECK_DEADLOCK FALSE
