------------------------ MODULE MC_RateLimitedClient ------------------------
EXTENDS RateLimitedClient

\* 300 tokens per second: time_until_available_ms is int(3.33) = 3 ms
\* while the next token takes 3.33 ms to earn.
MCRefillRate == Rate(300, 1)

=============================================================================
