--------------------------- MODULE MCConformance ---------------------------
\* Conformance with up to two calls that fail as unavailable.
EXTENDS Conformance
=============================================================================
