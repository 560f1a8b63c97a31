CONSTANTS
    NAreas = 2
    Atbs = 2
    BlocksPerAtb = 2
    MaxBlocks = 3
SPECIFICATION Spec
INVARIANTS
    HeapConsistent
    SearchComplete
