\* Words of 2 hex digits (one byte) in place of 64, so that amounts on
\* both sides of the word's range are small integers.
CONSTANTS
    WordDigits = 2
    Recipients <- MCAddresses
    Accounts <- MCAddresses
    Amounts <- MCAmounts
    Codes <- MCCodes
    None = None

SPECIFICATION Spec
INVARIANT CallDataExact
\* main() ends after its examples; the direct reader calls remain enabled.
