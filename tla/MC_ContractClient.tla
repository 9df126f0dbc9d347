-------------------------- MODULE MC_ContractClient --------------------------
EXTENDS ContractClient

\* Addresses as main() writes them (0x and hex digits), one without 0x,
\* one too long for a word, and one with a stray x in it.
MCAddresses ==
    {<<0, X, 1>>, <<0, X, 10, 15>>, <<10, 15>>, <<0, X, 1, 2, 3>>, <<1, X>>}

\* Amounts around the word's range 0..255: negative, zero, its ends, past it.
MCAmounts == {-1, 0, 1, 255, 256}

\* eth_getCode results: "0x" for an account without code, and a contract.
MCCodes == {<<0, X>>, <<0, X, 6, 0, 6, 0>>}

=============================================================================
