-------------------------------- MODULE Fake --------------------------------
(***************************************************************************)
(* storagetest's Fake (storagetest/fake.go), the in-memory Client a test   *)
(* of a Store is given: goroutines call its operations while the test      *)
(* toggles its outage, its Put failure and its container.                  *)
(*                                                                         *)
(* down and hasContainer are atomics, read before mu is taken by every     *)
(* operation but Put; objects and putErr are only reached under mu.  The   *)
(* counters and the records of the last calls are left out: no operation   *)
(* reads them, and the pages of its List are Listing's.                    *)
(***************************************************************************)
CONSTANTS
    Callers,    \* the goroutines that use the Fake
    Keys        \* the keys

VARIABLES
    down, hasContainer, putErr,
    objects,   \* the keys with an object
    mu,        \* "free", or "drop" while DropContainer holds it
    pc,        \* the step of each goroutine's call
    call,      \* what it called
    answer,    \* what its last call answered
    missed     \* history: at some moment of the call the container existed and
               \* did not hold its key

store == <<down, hasContainer, putErr, objects, mu>>
vars  == <<store, pc, call, answer, missed>>

BodyEnds == {"eof", "fail", "sizeMismatch"}
Calls ==
    [kind : {"put"}, key : Keys, end : BodyEnds]
    \cup [kind : {"get", "stat", "delete"}, key : Keys]
    \cup [kind : {"list", "ensure", "probe"}]
Answers == {"none", "ok", "Unavailable", "NoContainer", "NotFound",
            "fail", "sizeMismatch", "putErr"}

TypeOK ==
    /\ down \in BOOLEAN /\ hasContainer \in BOOLEAN /\ putErr \in BOOLEAN
    /\ objects \subseteq Keys
    /\ mu \in {"free", "drop"}
    /\ pc \in [Callers -> {"idle", "down", "container", "store", "locked"}]
    /\ call \in [Callers -> Calls]
    /\ answer \in [Callers -> Answers]
    /\ missed \in [Callers -> BOOLEAN]

\* NewFake, with or without its container.
Init ==
    /\ down = FALSE /\ hasContainer \in BOOLEAN /\ putErr = FALSE
    /\ objects = {}
    /\ mu = "free"
    /\ pc = [p \in Callers |-> "idle"]
    /\ call = [p \in Callers |-> [kind |-> "probe"]]
    /\ answer = [p \in Callers |-> "none"]
    /\ missed = [p \in Callers |-> FALSE]

-----------------------------------------------------------------------------
(* The history, then the operations.                                       *)

\* The history follows every step.
Observe ==
    LET missing(p) ==
            /\ call'[p].kind \in {"get", "stat"}
            /\ hasContainer' /\ call'[p].key \notin objects'
    IN  missed' = [p \in Callers |->
                      IF pc[p] = "idle" THEN IF pc'[p] = "idle" THEN missed[p]
                                                                ELSE missing(p)
                      ELSE missed[p] \/ missing(p)]

Answer(p, a) ==
    /\ pc' = [pc EXCEPT ![p] = "idle"]
    /\ answer' = [answer EXCEPT ![p] = a]

Goto(p, step) ==
    /\ pc' = [pc EXCEPT ![p] = step]
    /\ UNCHANGED answer

\* A call begins.  Put reads its body before it takes mu; every other operation
\* first looks at the outage.
Begin(p) ==
    /\ pc[p] = "idle"
    /\ \E c \in Calls :
          /\ call' = [call EXCEPT ![p] = c]
          /\ pc' = [pc EXCEPT ![p] =
                       IF c.kind = "put" THEN "locked" ELSE "down"]
    /\ answer' = [answer EXCEPT ![p] = "none"]
    /\ UNCHANGED store
    /\ Observe

CheckDown(p) ==
    /\ pc[p] = "down"
    /\ \/ down /\ Answer(p, "Unavailable")
       \/ ~down /\ call[p].kind = "ensure" /\ Goto(p, "store")
       \/ ~down /\ call[p].kind # "ensure" /\ Goto(p, "container")
    /\ UNCHANGED <<store, call>>
    /\ Observe

CheckContainer(p) ==
    /\ pc[p] = "container"
    /\ \/ ~hasContainer /\ Answer(p, "NoContainer")
       \/ hasContainer /\ call[p].kind = "probe" /\ Answer(p, "ok")
       \/ hasContainer /\ call[p].kind # "probe" /\ Goto(p, "locked")
    /\ UNCHANGED <<store, call>>
    /\ Observe

\* EnsureContainer's store, outside mu.
StoreContainer(p) ==
    /\ pc[p] = "store"
    /\ hasContainer' = TRUE
    /\ Answer(p, "ok")
    /\ UNCHANGED <<down, putErr, objects, mu, call>>
    /\ Observe

\* Put under mu: the outage, the container, the body, its size, FailPut's
\* error, in that order; then the object is stored.
PutError(p) ==
    IF down THEN "Unavailable"
    ELSE IF ~hasContainer THEN "NoContainer"
    ELSE IF call[p].end # "eof" THEN call[p].end
    ELSE IF putErr THEN "putErr" ELSE "ok"

PutLocked(p) ==
    /\ pc[p] = "locked" /\ mu = "free" /\ call[p].kind = "put"
    /\ Answer(p, PutError(p))
    /\ objects' = IF PutError(p) = "ok"
                  THEN objects \cup {call[p].key} ELSE objects
    /\ UNCHANGED <<down, hasContainer, putErr, mu, call>>
    /\ Observe

\* Get and Stat under mu.
GetLocked(p) ==
    /\ pc[p] = "locked" /\ mu = "free" /\ call[p].kind \in {"get", "stat"}
    /\ Answer(p, IF call[p].key \in objects THEN "ok" ELSE "NotFound")
    /\ UNCHANGED <<store, call>>
    /\ Observe

DeleteLocked(p) ==
    /\ pc[p] = "locked" /\ mu = "free" /\ call[p].kind = "delete"
    /\ objects' = objects \ {call[p].key}
    /\ Answer(p, "ok")
    /\ UNCHANGED <<down, hasContainer, putErr, mu, call>>
    /\ Observe

ListLocked(p) ==
    /\ pc[p] = "locked" /\ mu = "free" /\ call[p].kind = "list"
    /\ Answer(p, "ok")
    /\ UNCHANGED <<store, call>>
    /\ Observe

-----------------------------------------------------------------------------
(* The test's toggles.                                                     *)

SetDown ==
    /\ down' = ~down
    /\ UNCHANGED <<hasContainer, putErr, objects, mu, pc, call, answer>>
    /\ Observe

FailPut ==
    /\ mu = "free"
    /\ putErr' = ~putErr
    /\ UNCHANGED <<down, hasContainer, objects, mu, pc, call, answer>>
    /\ Observe

\* DropContainer clears the toggle, then the objects, holding mu.
DropStore ==
    /\ mu = "free"
    /\ mu' = "drop"
    /\ hasContainer' = FALSE
    /\ UNCHANGED <<down, putErr, objects, pc, call, answer>>
    /\ Observe

DropClear ==
    /\ mu = "drop"
    /\ mu' = "free"
    /\ objects' = {}
    /\ UNCHANGED <<down, hasContainer, putErr, pc, call, answer>>
    /\ Observe

Next ==
    \/ \E p \in Callers :
          \/ Begin(p) \/ CheckDown(p) \/ CheckContainer(p) \/ StoreContainer(p)
          \/ PutLocked(p) \/ GetLocked(p) \/ DeleteLocked(p) \/ ListLocked(p)
    \/ SetDown \/ FailPut \/ DropStore \/ DropClear

Spec == Init /\ [][Next]_vars

-----------------------------------------------------------------------------
(* Properties.                                                             *)

\* While the container does not exist an operation fails with
\* ErrContainerNotFound: ErrNotFound is the answer of a container that exists
\* and does not hold the key (storagetest/fake.go:53-57).
NotFoundMeansMissing ==
    \A p \in Callers : answer[p] = "NotFound" => missed[p]
=============================================================================
