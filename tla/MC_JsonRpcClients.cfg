\* two addresses, balances 0 and 1 wei, and three polls of the
\* receipt, so the transaction can be mined before, between or after them.
\* Every program ends: the final states have no step.
CONSTANTS
    a1 = a1
    a2 = a2
    Accounts <- MCAccounts
    Balances = {0, 1}
    MaxRetries = 3
    None = None
    NotHex = NotHex
    Block = Block
    Empty = Empty

SPECIFICATION Spec
CHECK_DEADLOCK FALSE
INVARIANT TypeOK
INVARIANT FailuresIsolated
INVARIANT GaveUpOnlyAfterAllPolls
