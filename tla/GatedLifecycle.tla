--------------------------- MODULE GatedLifecycle ---------------------------
(***************************************************************************)
(* What Store promises of its lifecycle, whatever its goroutines do inside *)
(* (the documentation of Store, Start and Shutdown in store.go): one gate  *)
(* that opens at most until the first Shutdown and never again after it,   *)
(* operations that pass only while it is open, and a client that is closed *)
(* at most once, and only once the gate is shut for good.                  *)
(***************************************************************************)
CONSTANT Callers

VARIABLES
    phase,   \* "fresh", "started" or "shut"
    inside,  \* the callers whose operation the gate let through to the client
    closed   \* the client has been closed

vars == <<phase, inside, closed>>

Init ==
    /\ phase = "fresh"
    /\ inside = {}
    /\ closed = FALSE

Start ==
    /\ phase # "shut"
    /\ phase' = "started"
    /\ UNCHANGED <<inside, closed>>

Shutdown ==
    /\ phase' = "shut"
    /\ UNCHANGED <<inside, closed>>

Enter(c) ==
    /\ phase = "started"
    /\ c \notin inside
    /\ inside' = inside \cup {c}
    /\ UNCHANGED <<phase, closed>>

Leave(c) ==
    /\ inside' = inside \ {c}
    /\ UNCHANGED <<phase, closed>>

CloseClient ==
    /\ phase = "shut"
    /\ ~closed
    /\ closed' = TRUE
    /\ UNCHANGED <<phase, inside>>

Next ==
    \/ Start
    \/ Shutdown
    \/ \E c \in Callers : Enter(c) \/ Leave(c)
    \/ CloseClient

Spec == Init /\ [][Next]_vars
=============================================================================
