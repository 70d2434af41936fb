---------------------------- MODULE MCIdleReader ----------------------------
\* IdleReader with a bounded number of callbacks outstanding.
EXTENDS IdleReader

\* The reader as Get hands it out when newIdleReader takes less than the limit:
\* the timer is stopped and has never expired.
InitAfterNew ==
    /\ timer = "stopped"
    /\ pending = 0
    /\ cancelling = 0
    /\ fired = FALSE
    /\ reqErr = "none"
    /\ callerDone = FALSE
    /\ bodyClosed = FALSE
    /\ pc = "idle"
    /\ answer = "none"
    /\ result = "none"
    /\ closing = "open"
    /\ ownExpired = FALSE
    /\ cut = FALSE

SpecAfterNew == InitAfterNew /\ [][Next]_vars
=============================================================================
