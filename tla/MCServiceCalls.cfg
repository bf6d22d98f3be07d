SPECIFICATION Spec
CONSTANTS
    MaxDepth = 4
    LOCK_RETRIES = 3
    Deadlocks = 3
    Writes = {w1, w2, w3}
SYMMETRY WriteSymmetry
INVARIANT TypeOK
INVARIANT ThreadTx
INVARIANT UndoneStaysOut
PROPERTY OnlyGiveUpBreaksPromises
