----------------------------- MODULE MCStorePut -----------------------------
\* StorePut on bodies around the limits.
EXTENDS StorePut

\* A negative Size, none, and the ones below, at and past the bounds.
SmallSizes == -1 .. 4
=============================================================================
