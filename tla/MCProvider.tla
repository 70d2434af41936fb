----------------------------- MODULE MCProvider -----------------------------
\* Provider with integers of four bits, options below, at and past each limit,
\* one retry of a request, four keys on pages cut at two, and page limits
\* below, at and past the largest number a request can carry.
EXTENDS Provider

MCRetries == {-1, 0, 1, 5, 6, 7, 8}
MCSizes == {-1, 4, 5, 9, 10}
MCTimeouts == {-1, 0, 1}
MCConcurrencies == {0, 1, 4, 5}
MCKeys == 1 .. 4
MCPrefixes == {1 .. 4, 2 .. 4}
MCLimits == {-1, 0, 1, 2, 3, 4}
MCPageSizes == {0, 1}
=============================================================================
