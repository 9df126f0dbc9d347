-------------------------- MODULE MC_JsonRpcClients --------------------------
EXTENDS JsonRpcClients

CONSTANTS a1, a2

\* main() passes three distinct addresses; two already let a failure come
\* before a success and after one.
MCAccounts == <<a1, a2>>

=============================================================================
