------------------------------ MODULE Provider ------------------------------
(***************************************************************************)
(* A provider's client from New on: it is made from a Config, and then     *)
(* serves one call, tried as often as its settings say, or one walk over a *)
(* listing.  A client keeps nothing from one call to the next, so one of   *)
(* each from any state of the world stands for every sequence of them.     *)
(***************************************************************************)
EXTENDS ProviderCalls, Listing

vars == <<newVars, callVars, walkVars>>

TypeOK == NewTypeOK /\ CallTypeOK /\ WalkTypeOK

Init == NewInit /\ CallInit /\ WalkInit

Next ==
    \/ NewNext  /\ UNCHANGED <<callVars, walkVars>>
    \/ CallNext /\ UNCHANGED walkVars
    \/ WalkNext /\ UNCHANGED callVars

Spec == Init /\ [][Next]_vars

\* Who walks asks for the next page, and every page request is answered.
FairSpec == Spec /\ WF_vars((List \/ ListFails) /\ UNCHANGED callVars)
=============================================================================
