-------------------------- MODULE MC_BatchRpcClient --------------------------
EXTENDS BatchRpcClient, TLC

\* Addresses, blocks and slots are interchangeable in every property.
MCSymmetry == Permutations(Keys)

=============================================================================
