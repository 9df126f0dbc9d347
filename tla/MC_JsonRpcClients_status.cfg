\* A node that may answer any get_balance with an error object.
CONSTANTS
    a1 = a1
    a2 = a2
    Accounts <- MCAccounts
    Balances = {0, 1}
    MaxRetries = 3
    None = None
    NotHex = NotHex
    Block = Block
    Empty = Empty
SPECIFICATION Spec
CHECK_DEADLOCK FALSE
INVARIANT StatusTruthful
