--------------------------- MODULE StoreLifecycle ---------------------------
(***************************************************************************)
(* The lifecycle of storage.Store (store.go): Start, Shutdown, Ready, the  *)
(* readiness gate in front of every object operation, and EnsureContainer, *)
(* which has no gate, called concurrently by the goroutines in Callers.    *)
(*                                                                         *)
(* A goroutine is between calls (pc "idle") or at one step of a call.  A   *)
(* step is what happens between two points another goroutine can see: an   *)
(* acquisition of Store.mu, an access to the atomic Store.started, a       *)
(* request to the provider or its answer.                                  *)
(*                                                                         *)
(* An error is the set of the sentinels it matches under errors.Is; nil is *)
(* the empty set.  "other" stands for every error outside the sentinels    *)
(* this component looks at.                                                *)
(***************************************************************************)
EXTENDS Naturals, FiniteSets

CONSTANTS
    Callers,   \* the goroutines that share the Store
    GatedOps,  \* the object operations and Probe, a subset of AllGatedOps
    CtxErrs    \* the errors a context may be done with

\* The methods of Store that load started before they delegate.
AllGatedOps == {"Put", "Get", "Stat", "Delete", "List", "Probe"}

ASSUME GatedOpsAssumption == GatedOps \subseteq AllGatedOps

ASSUME CtxErrsAssumption == CtxErrs \subseteq {"Canceled", "Deadline"}

Free == "free"

ASSUME CallersAssumption == Free \notin Callers

VARIABLES
    started,      \* Store.started
    shut,         \* Store.shut
    mu,           \* the goroutine that holds Store.mu, or Free
    closer,       \* the Client implements io.Closer
    closes,       \* the number of times the Client's Close has run
    pc,           \* the step each goroutine is at
    kind,         \* the method it is in, or was in last
    ctx,          \* the caller's context: "live", or the ctx.Err() it has
    reqCtx,       \* the context handed to the provider, in the same terms
    err,          \* the error in hand; in "idle", what the last call returned
    shutReturned, \* history: some Shutdown has returned
    late,         \* history: the call began once some Shutdown had returned
    shutAtAnswer, \* history: Shutdown had marked the store at the last answer
    doneAtAnswer  \* history: the caller's context was done at the last answer

store  == <<started, shut, mu, closer, closes>>
call   == <<pc, kind, ctx, reqCtx, err>>
ghost  == <<shutReturned, late, shutAtAnswer, doneAtAnswer>>
vars   == <<store, call, ghost>>

Nil == {}
Sentinels == {"NotReady", "Unavailable", "Canceled", "Deadline", "Invalid",
              "ClientClosed", "CloseFailed", "other", "false"}
CtxStates == {"live", "Deadline"} \cup CtxErrs
Kinds == {"none", "Start", "Shutdown", "Ready", "EnsureContainer"} \cup GatedOps

StartSteps    == {"startCheck", "ensure", "recheck", "probe", "failCheck",
                  "classify", "commit", "store"}
ShutdownSteps == {"lock", "clear", "clearAgain", "close"}
\* The steps at which a request is out at the provider.
ClientSteps   == {"ensure", "probe", "call"}
Steps == {"idle", "call"} \cup StartSteps \cup ShutdownSteps

TypeOK ==
    /\ started \in BOOLEAN
    /\ shut \in BOOLEAN
    /\ mu \in Callers \cup {Free}
    /\ closer \in BOOLEAN
    /\ closes \in Nat
    /\ pc \in [Callers -> Steps]
    /\ kind \in [Callers -> Kinds]
    /\ ctx \in [Callers -> CtxStates]
    /\ reqCtx \in [Callers -> CtxStates]
    /\ err \in [Callers -> SUBSET Sentinels]
    /\ shutReturned \in BOOLEAN
    /\ late \in [Callers -> BOOLEAN]
    /\ shutAtAnswer \in [Callers -> BOOLEAN]
    /\ doneAtAnswer \in [Callers -> BOOLEAN]

\* New: nothing started, nothing shut.
Init ==
    /\ started = FALSE
    /\ shut = FALSE
    /\ mu = Free
    /\ closer \in BOOLEAN
    /\ closes = 0
    /\ pc = [c \in Callers |-> "idle"]
    /\ kind = [c \in Callers |-> "none"]
    /\ ctx = [c \in Callers |-> "live"]
    /\ reqCtx = [c \in Callers |-> "live"]
    /\ err = [c \in Callers |-> Nil]
    /\ shutReturned = FALSE
    /\ late = [c \in Callers |-> FALSE]
    /\ shutAtAnswer = [c \in Callers |-> FALSE]
    /\ doneAtAnswer = [c \in Callers |-> FALSE]

-----------------------------------------------------------------------------
(* Steps shared by the methods.                                            *)

\* Goroutine c calls method k with a context in state x and is now at step s
\* of it, with e in hand.
Begin(c, k, x, s, e) ==
    /\ pc[c] = "idle"
    /\ pc' = [pc EXCEPT ![c] = s]
    /\ kind' = [kind EXCEPT ![c] = k]
    /\ ctx' = [ctx EXCEPT ![c] = x]
    /\ reqCtx' = [reqCtx EXCEPT ![c] = IF s = "idle" THEN "live" ELSE x]
    /\ err' = [err EXCEPT ![c] = e]
    /\ late' = [late EXCEPT ![c] = shutReturned]
    /\ shutAtAnswer' = [shutAtAnswer EXCEPT ![c] = FALSE]
    /\ doneAtAnswer' = [doneAtAnswer EXCEPT ![c] = FALSE]
    /\ UNCHANGED shutReturned

\* c goes from step s to step t with e in hand; a method that returns releases
\* the context it derived.
Goto(c, s, t, e) ==
    /\ pc[c] = s
    /\ pc' = [pc EXCEPT ![c] = t]
    /\ err' = [err EXCEPT ![c] = e]
    /\ reqCtx' = [reqCtx EXCEPT ![c] = IF t = "idle" THEN "live" ELSE @]
    /\ UNCHANGED <<kind, ctx>>

\* isShut, at step s: lock, read shut, unlock.  A store that is shut makes the
\* method return ErrNotReady; otherwise it goes on to step t.
CheckShut(c, s, t) ==
    /\ mu = Free
    /\ IF shut THEN Goto(c, s, "idle", {"NotReady"})
               ELSE Goto(c, s, t, err[c])
    /\ UNCHANGED <<store, ghost>>

\* What a provider may answer a request whose context is x.  Whatever its
\* state, it may answer late with success, fail to connect, give up on one of
\* its own tries (a deadline, with x still live) or fail otherwise.  A done
\* context may surface bare or classified as unavailable, and a closed client
\* may say so.
Answers(x) ==
    {Nil, {"Unavailable"}, {"Unavailable", "Deadline"}, {"other"}}
        \cup (IF x = "live" THEN {} ELSE {{x}, {"Unavailable", x}})
        \cup (IF closes > 0 THEN {{"ClientClosed"}} ELSE {})

\* The provider answers c's request; the history variables record what had
\* happened by then.
Answered(c) ==
    /\ shutAtAnswer' = [shutAtAnswer EXCEPT ![c] = shut]
    /\ doneAtAnswer' = [doneAtAnswer EXCEPT ![c] = ctx[c] # "live"]
    /\ UNCHANGED <<shutReturned, late>>

-----------------------------------------------------------------------------
(* Start.                                                                  *)

StartCall(c, x) ==
    /\ Begin(c, "Start", x, "startCheck", Nil)
    /\ UNCHANGED store

StartCheck(c) == CheckShut(c, "startCheck", "ensure")

\* The provider answers a step of Start: on success Start goes on to step t,
\* on failure to startFailure.
StepReturn(c, s, t) ==
    /\ \E a \in Answers(reqCtx[c]) :
          Goto(c, s, IF a = Nil THEN t ELSE "failCheck", a)
    /\ Answered(c)
    /\ UNCHANGED store

EnsureReturn(c) == StepReturn(c, "ensure", "recheck")

\* Mutant: no second isShut between the two requests.
StartRecheckSkipped(c) ==
    /\ Goto(c, "recheck", "probe", err[c])
    /\ UNCHANGED <<store, ghost>>

StartRecheck(c) == CheckShut(c, "recheck", "probe")

ProbeReturn(c) == StepReturn(c, "probe", "commit")

\* Mutant: opens the gate without a look at shut.
StartLockUnchecked(c) ==
    /\ mu = Free
    /\ Goto(c, "commit", "store", Nil)
    /\ mu' = c
    /\ UNCHANGED <<started, shut, closer, closes, ghost>>

\* The last lines of Start, under mu: give up when Shutdown has run, otherwise
\* open the gate.
StartLock(c) ==
    /\ mu = Free
    /\ IF shut
       THEN /\ Goto(c, "commit", "idle", {"NotReady"})
            /\ UNCHANGED mu
       ELSE /\ Goto(c, "commit", "store", Nil)
            /\ mu' = c
    /\ UNCHANGED <<started, shut, closer, closes, ghost>>

StartStore(c) ==
    /\ Goto(c, "store", "idle", Nil)
    /\ started' = TRUE
    /\ mu' = Free
    /\ UNCHANGED <<shut, closer, closes, ghost>>

\* startFailure first asks whether Shutdown has run...
FailCheck(c) == CheckShut(c, "failCheck", "classify")

\* Mutant: passes the provider's error through as soon as it matches ctx.Err().
startFailureKeepsClass(e, x) ==
    IF x # "live"
    THEN IF x \in e THEN e ELSE {x}
    ELSE e \cup {"Unavailable"}

\* ... and then what the caller's context says.  e is the provider's error and
\* x the state of the caller's context.
startFailure(e, x) ==
    IF x # "live"
    THEN IF x \in e /\ "Unavailable" \notin e THEN e ELSE {x}
    ELSE e \cup {"Unavailable"}

FailClassify(c) ==
    /\ Goto(c, "classify", "idle", startFailure(err[c], ctx[c]))
    /\ UNCHANGED <<store, ghost>>

-----------------------------------------------------------------------------
(* Shutdown.  Its context is ignored.                                      *)

ShutdownCall(c) ==
    /\ Begin(c, "Shutdown", "live", "lock", Nil)
    /\ UNCHANGED store

\* Mutant: takes itself for the first Shutdown whenever it runs.
ShutdownLockForgetful(c) ==
    /\ mu = Free
    /\ mu' = c
    /\ shut' = TRUE
    /\ Goto(c, "lock", "clear", Nil)
    /\ UNCHANGED <<started, closer, closes, ghost>>

\* Lock, note whether this is the first Shutdown, set shut.
ShutdownLock(c) ==
    /\ mu = Free
    /\ mu' = c
    /\ shut' = TRUE
    /\ Goto(c, "lock", IF shut THEN "clearAgain" ELSE "clear", Nil)
    /\ UNCHANGED <<started, closer, closes, ghost>>

\* c's Shutdown returns e.
ShutdownReturn(c, s, e) ==
    /\ Goto(c, s, "idle", e)
    /\ shutReturned' = TRUE
    /\ UNCHANGED <<late, shutAtAnswer, doneAtAnswer>>

\* Mutant: closes the client only of a store that is started.
ShutdownClearStartedOnly(c) ==
    /\ started' = FALSE
    /\ mu' = Free
    /\ \/ /\ closer /\ started
          /\ Goto(c, "clear", "close", Nil)
          /\ UNCHANGED ghost
       \/ /\ ~closer \/ ~started
          /\ ShutdownReturn(c, "clear", Nil)
       \/ ShutdownReturn(c, "clearAgain", Nil)
    /\ UNCHANGED <<shut, closer, closes>>

\* Clear started and unlock: the first call goes on to Close when the client
\* has one, every other call returns nil.
ShutdownClear(c) ==
    /\ started' = FALSE
    /\ mu' = Free
    /\ \/ /\ closer
          /\ Goto(c, "clear", "close", Nil)
          /\ UNCHANGED ghost
       \/ /\ ~closer
          /\ ShutdownReturn(c, "clear", Nil)
       \/ ShutdownReturn(c, "clearAgain", Nil)
    /\ UNCHANGED <<shut, closer, closes>>

ShutdownClose(c) ==
    /\ closes' = closes + 1
    /\ \E e \in {Nil, {"CloseFailed"}} : ShutdownReturn(c, "close", e)
    /\ UNCHANGED <<started, shut, mu, closer>>

-----------------------------------------------------------------------------
(* Ready, the gated operations, and EnsureContainer.                       *)

\* Ready loads started and probes under a context of its own.
ReadyCall(c) ==
    /\ IF started THEN Begin(c, "Ready", "live", "call", Nil)
                  ELSE Begin(c, "Ready", "live", "idle", {"false"})
    /\ UNCHANGED store

\* Mutant: an operation delegates without the gate.
OpCallUngated(c, o, x) ==
    /\ Begin(c, o, x, "call", Nil)
    /\ UNCHANGED store

\* An object operation, or Probe, loads started.  Put and List also refuse
\* some arguments themselves.
OpCall(c, o, x) ==
    /\ \/ /\ ~started
          /\ Begin(c, o, x, "idle", {"NotReady"})
       \/ /\ started
          /\ o \in {"Put", "List"}
          /\ Begin(c, o, x, "idle", {"Invalid"})
       \/ /\ started
          /\ Begin(c, o, x, "call", Nil)
    /\ UNCHANGED store

EnsureCall(c, x) ==
    /\ Begin(c, "EnsureContainer", x, "call", Nil)
    /\ UNCHANGED store

\* The provider answers: Ready tells nil from an error, the others pass the
\* answer through.
CallReturn(c) ==
    /\ \E a \in Answers(reqCtx[c]) :
          Goto(c, "call", "idle",
               IF kind[c] = "Ready" /\ a # Nil THEN {"false"} ELSE a)
    /\ Answered(c)
    /\ UNCHANGED store

-----------------------------------------------------------------------------
(* Contexts.                                                               *)

\* The caller's context is cancelled or passes its deadline, and the context
\* derived from it with it.
CtxDone(c, x) ==
    /\ pc[c] # "idle"
    /\ kind[c] \notin {"Shutdown", "Ready"}
    /\ ctx[c] = "live"
    /\ ctx' = [ctx EXCEPT ![c] = x]
    /\ reqCtx' = [reqCtx EXCEPT ![c] = IF @ = "live" THEN x ELSE @]
    /\ UNCHANGED <<pc, kind, err, store, ghost>>

\* Mutant: Start's requests have no timeout.
RequestTimeoutReadyOnly(c) ==
    /\ pc[c] \in ClientSteps
    /\ kind[c] = "Ready"
    /\ reqCtx[c] = "live"
    /\ reqCtx' = [reqCtx EXCEPT ![c] = "Deadline"]
    /\ UNCHANGED <<pc, kind, ctx, err, store, ghost>>

\* Mutant: the timeout is reported as something that is no context error.
RequestTimeoutWrongErr(c) ==
    /\ pc[c] \in ClientSteps
    /\ kind[c] \in {"Start", "Ready"}
    /\ reqCtx[c] = "live"
    /\ reqCtx' = [reqCtx EXCEPT ![c] = "Unavailable"]
    /\ UNCHANGED <<pc, kind, ctx, err, store, ghost>>

\* The RequestTimeout of Start and Ready passes while the provider works.
RequestTimeout(c) ==
    /\ pc[c] \in ClientSteps
    /\ kind[c] \in {"Start", "Ready"}
    /\ reqCtx[c] = "live"
    /\ reqCtx' = [reqCtx EXCEPT ![c] = "Deadline"]
    /\ UNCHANGED <<pc, kind, ctx, err, store, ghost>>

Next ==
    \E c \in Callers :
        \/ \E x \in CtxErrs \cup {"live"} : StartCall(c, x)
        \/ StartCheck(c)
        \/ EnsureReturn(c)
        \/ StartRecheck(c)
        \/ ProbeReturn(c)
        \/ StartLock(c)
        \/ StartStore(c)
        \/ FailCheck(c)
        \/ FailClassify(c)
        \/ ShutdownCall(c)
        \/ ShutdownLock(c)
        \/ ShutdownClear(c)
        \/ ShutdownClose(c)
        \/ ReadyCall(c)
        \/ \E o \in GatedOps, x \in CtxErrs \cup {"live"} : OpCall(c, o, x)
        \/ \E x \in CtxErrs \cup {"live"} : EnsureCall(c, x)
        \/ CallReturn(c)
        \/ \E x \in CtxErrs : CtxDone(c, x)
        \/ RequestTimeout(c)

Spec == Init /\ [][Next]_vars

(***************************************************************************)
(* Fairness.  A goroutine that can run does; sync.Mutex hands itself to a  *)
(* waiter that has waited too long, so an acquisition that is enabled again *)
(* and again happens.  The timer of RequestTimeout fires, the provider     *)
(* answers a request whose context is done, and its Close returns.  Nothing *)
(* makes the provider answer a request whose context is live.              *)
(***************************************************************************)
Fairness ==
    \A c \in Callers :
        /\ SF_vars(\/ StartCheck(c) \/ StartRecheck(c) \/ FailCheck(c)
                   \/ StartLock(c) \/ ShutdownLock(c))
        /\ WF_vars(\/ StartStore(c) \/ FailClassify(c)
                   \/ ShutdownClear(c) \/ ShutdownClose(c))
        /\ WF_vars(RequestTimeout(c))
        /\ WF_vars(/\ reqCtx[c] # "live"
                   /\ EnsureReturn(c) \/ ProbeReturn(c) \/ CallReturn(c))

FairSpec == Spec /\ Fairness

-----------------------------------------------------------------------------
(* Safety.                                                                 *)

Returned(c, k) == pc[c] = "idle" /\ kind[c] = k

\* A call that begins after some Shutdown has returned never reaches the
\* provider, EnsureContainer apart, and says so: ErrNotReady from Start and
\* from the gated operations, false from Ready (the documentation of Store
\* and of Ready).
LateCallsRefused ==
    \A c \in Callers :
        late[c] =>
            /\ pc[c] \in ClientSteps => kind[c] = "EnsureContainer"
            /\ \A k \in GatedOps \cup {"Start"} :
                  Returned(c, k) => err[c] = {"NotReady"}
            /\ Returned(c, "Ready") => err[c] = {"false"}

\* A Start that a Shutdown overtakes before a provider's answer returns
\* ErrNotReady whatever the answer was, and does not go on to probe; no Start
\* reports the error of the client that was closed under it (store.go:56-59).
OvertakenStartGivesUp ==
    /\ \A c \in Callers :
        kind[c] = "Start" /\ shutAtAnswer[c] =>
            /\ pc[c] \notin {"probe", "classify", "store"}
            /\ pc[c] = "idle" => err[c] = {"NotReady"}
    /\ \A c \in Callers : Returned(c, "Start") => "ClientClosed" \notin err[c]

\* How a failed Start is classified, over the whole call: with the caller's
\* context still live after it returned, it matched ErrUnavailable, so the
\* RequestTimeout's own deadline is never taken for the caller's; with the
\* context done before the failing answer, it matches ctx.Err() and not
\* ErrUnavailable (store.go:52-54).
StartFailureClass ==
    \A c \in Callers :
        Returned(c, "Start") /\ err[c] \notin {Nil, {"NotReady"}} =>
            /\ ctx[c] = "live" => "Unavailable" \in err[c]
            /\ doneAtAnswer[c] => ctx[c] \in err[c] /\ "Unavailable" \notin err[c]

\* The client's Close runs at most once however many Shutdowns race, never
\* behind an open gate, even with a Start committing at that moment, and only
\* the Shutdown that runs it can return its error (store.go:114-131).
CloseOnce ==
    /\ closes <= 1
    /\ closes > 0 => shut /\ ~started
    /\ \A c \in Callers :
          /\ pc[c] = "close" => closes = 0
          /\ Returned(c, "Shutdown") /\ late[c] => err[c] = Nil

-----------------------------------------------------------------------------
(* Liveness, under FairSpec.                                               *)

\* Start and Ready return, even with a provider that answers nothing:
\* RequestTimeout bounds their requests, and no Shutdown or other Start keeps a
\* Start from the mutex forever.
StartAndReadyReturn ==
    \A c \in Callers :
        /\ (pc[c] \in StartSteps) ~> (pc[c] = "idle")
        /\ (kind[c] = "Ready" /\ pc[c] = "call") ~> (pc[c] = "idle")

\* Every Shutdown returns, and the first one closes a client that has a Close.
ShutdownCompletes ==
    /\ \A c \in Callers : (pc[c] \in ShutdownSteps) ~> (pc[c] = "idle")
    /\ (shut /\ closer) ~> (closes = 1)

-----------------------------------------------------------------------------
(* The abstract lifecycle this implements.                                 *)

Gate == INSTANCE GatedLifecycle WITH
    phase  <- IF started THEN "started" ELSE IF shut THEN "shut" ELSE "fresh",
    inside <- {c \in Callers :
                 pc[c] = "call" /\ kind[c] \in GatedOps \cup {"Ready"}},
    closed <- closes > 0

\* Every step of the goroutines is a step of the abstract gate or leaves it
\* unchanged.
ImplementsGate == Gate!Spec
=============================================================================
