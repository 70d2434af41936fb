----------------------------- MODULE MCAzurePut -----------------------------
\* AzurePut with blocks of two bytes.
EXTENDS AzurePut
=============================================================================
