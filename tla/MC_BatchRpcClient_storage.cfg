\* A node that keeps the batch order and may fail any request.
CONSTANTS
    Keys = {k1, k2, k3}
    MaxBatch = 3
    ServerReorders = FALSE

SPECIFICATION Spec
SYMMETRY MCSymmetry
INVARIANT StorageAttributed
