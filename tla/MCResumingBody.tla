--------------------------- MODULE MCResumingBody ---------------------------
\* ResumingBody on a short object with few answers.
EXTENDS ResumingBody
=============================================================================
