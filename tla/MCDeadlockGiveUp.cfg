SPECIFICATION Spec
CONSTANTS
    MaxDepth = 2
    LOCK_RETRIES = 3
    Deadlocks = 3
    Writes = {w1, w2, w3}
SYMMETRY WriteSymmetry
INVARIANT PromisedIsDurable
