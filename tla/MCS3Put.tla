------------------------------ MODULE MCS3Put -------------------------------
\* S3Put on bodies around one and two parts.
EXTENDS S3Put
=============================================================================
