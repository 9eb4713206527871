SPECIFICATION Spec
CONSTANTS
    Handles = {h1, h2, h3, h4}
    NumBlocks = 4
SYMMETRY HandleSymmetry
INVARIANTS
    TypeOK
    RefCountExact
    FreeListExact
    NoFault
