----------------------------- MODULE MCGetBody -----------------------------
\* GetBody with an object of one byte and one resumption per Read.
EXTENDS GetBody

\* The first answer carries an ETag and a length, as S3's do; the other cases,
\* in which a body resumes less, are the run of ResumingBody alone.
MCInit == GetInit /\ hasETag /\ sizeKnown

MCFairSpec == MCInit /\ [][GetNext]_gvars /\ GetFairness
=============================================================================
