\* Lists of up to three distinct keys, a node that keeps the batch order
\* and may fail any request or reject the whole batch.
CONSTANTS
    Keys = {k1, k2, k3}
    MaxBatch = 3
    ServerReorders = FALSE

SPECIFICATION Spec
SYMMETRY MCSymmetry
INVARIANT BalancesAttributed
INVARIANT ResultsDelivered
