----------------------------- MODULE IdleReader -----------------------------
(***************************************************************************)
(* idleReader (idle.go), the body of a Store.Get: every Read runs under a  *)
(* time.AfterFunc timer whose callback cancels the Get's request.          *)
(*                                                                         *)
(* Three parties run at once: the goroutine that reads, a goroutine that   *)
(* may call Close at any time, and the timer's callbacks.  The Go runtime  *)
(* starts a callback in a goroutine of its own when the timer expires, so  *)
(* between the expiry (after which Stop returns false) and the callback's  *)
(* first line any amount of work of the others may happen.                 *)
(*                                                                         *)
(* The provider's body is external: a Read of it blocks until it answers.  *)
(***************************************************************************)
EXTENDS Naturals

CONSTANT MaxCallbacks   \* bound: callbacks started and not yet done

ASSUME MaxCallbacksAssumption == MaxCallbacks \in Nat \ {0}

VARIABLES
    timer,       \* "armed" or "stopped"
    pending,     \* callbacks started that have not yet stored fired
    cancelling,  \* callbacks that stored fired and have not yet cancelled
    fired,       \* idleReader.fired
    reqErr,      \* the Err() of the Get's request: "none", "Canceled" after
                 \* the cancel function, "CallerDone" after the caller's own ctx
    callerDone,  \* the caller's context is done
    bodyClosed,  \* the provider's body has been closed
    pc,          \* the step of the reading goroutine
    answer,      \* what the body answered this Read, or "none"
    result,      \* the error of the last Read that returned
    closing,     \* the step of the Close in progress
    ownExpired,  \* history: the timer expired during this Read
    cut          \* history: it had, and fired was set, when the body answered

vars == <<timer, pending, cancelling, fired, reqErr, callerDone, bodyClosed,
          pc, answer, result, closing, ownExpired, cut>>

clock   == <<pending, cancelling, fired>>
request == <<reqErr, callerDone, bodyClosed>>
reader  == <<pc, answer, result, ownExpired, cut>>

\* "data" is bytes and a nil error, "net" a failure of the connection, and
\* "Closed" the failure of a Read of a closed body.  The request's error reads
\* as context.Canceled when it is "Canceled".
BodyAnswers == {"data", "eof", "net", "Closed", "Canceled", "CallerDone"}

TypeOK ==
    /\ timer \in {"armed", "stopped"}
    /\ pending \in 0 .. MaxCallbacks
    /\ cancelling \in 0 .. MaxCallbacks
    /\ fired \in BOOLEAN
    /\ reqErr \in {"none", "Canceled", "CallerDone"}
    /\ callerDone \in BOOLEAN
    /\ bodyClosed \in BOOLEAN
    /\ pc \in {"new", "idle", "reset", "reading", "stop", "loadFired"}
    /\ answer \in BodyAnswers \cup {"none"}
    /\ result \in BodyAnswers \cup {"none", "Unavailable"}
    /\ closing \in {"open", "cancel", "body", "closed"}
    /\ ownExpired \in BOOLEAN
    /\ cut \in BOOLEAN

\* newIdleReader between time.AfterFunc and Stop.
Init ==
    /\ timer = "armed"
    /\ pending = 0
    /\ cancelling = 0
    /\ fired = FALSE
    /\ reqErr = "none"
    /\ callerDone = FALSE
    /\ bodyClosed = FALSE
    /\ pc = "new"
    /\ answer = "none"
    /\ result = "none"
    /\ closing = "open"
    /\ ownExpired = FALSE
    /\ cut = FALSE

\* newIdleReader's Stop; Get returns the body to the caller.
Constructed ==
    /\ pc = "new"
    /\ pc' = "idle"
    /\ timer' = "stopped"
    /\ UNCHANGED <<clock, request, answer, result, closing, ownExpired, cut>>

-----------------------------------------------------------------------------
(* Read.                                                                   *)

\* Read returns e.
Return(e) ==
    /\ pc' = "idle"
    /\ result' = e

\* Mutant: forgets that the timer has fired.
ReadCallForgetful ==
    /\ pc = "idle"
    /\ pc' = "reset"
    /\ answer' = "none"
    /\ ownExpired' = FALSE
    /\ cut' = FALSE
    /\ UNCHANGED <<timer, clock, request, result, closing>>

\* The first look at fired: a reader the timer has cut off stays cut off.
ReadCall ==
    /\ pc = "idle"
    /\ IF fired THEN Return("Unavailable")
                ELSE pc' = "reset" /\ UNCHANGED result
    /\ answer' = "none"
    /\ ownExpired' = FALSE
    /\ cut' = FALSE
    /\ UNCHANGED <<timer, clock, request, closing>>

\* timer.Reset, and the body's Read begins.
ReadReset ==
    /\ pc = "reset"
    /\ pc' = "reading"
    /\ timer' = "armed"
    /\ UNCHANGED <<clock, request, answer, result, closing, ownExpired, cut>>

\* The provider's body answers.  A request that is done, or a closed body,
\* may still deliver what was buffered.
BodyReturn ==
    /\ pc = "reading"
    /\ pc' = "stop"
    /\ answer' \in {"data", "eof", "net"}
                      \cup (IF reqErr = "none" THEN {} ELSE {reqErr})
                      \cup (IF bodyClosed THEN {"Closed"} ELSE {})
    /\ cut' = (ownExpired /\ fired)
    /\ UNCHANGED <<timer, clock, request, result, closing, ownExpired>>

\* Mutant: leaves the timer running.
ReadStopForgotten ==
    /\ pc = "stop"
    /\ IF timer = "armed"
       THEN Return(answer)
       ELSE pc' = "loadFired" /\ UNCHANGED result
    /\ UNCHANGED <<timer, clock, request, answer, closing, ownExpired, cut>>

\* timer.Stop: true when the timer was still armed, and then Read returns what
\* the body answered.
ReadStop ==
    /\ pc = "stop"
    /\ IF timer = "armed"
       THEN Return(answer)
       ELSE pc' = "loadFired" /\ UNCHANGED result
    /\ timer' = "stopped"
    /\ UNCHANGED <<clock, request, answer, closing, ownExpired, cut>>

\* Mutant: reports a stall at the body's end too.
ReadEndStallsAtEOF ==
    /\ pc = "loadFired"
    /\ Return(IF fired THEN "Unavailable" ELSE answer)
    /\ UNCHANGED <<timer, clock, request, answer, closing, ownExpired, cut>>

\* The second operand of the condition, and the stalled error.
ReadEnd ==
    /\ pc = "loadFired"
    /\ Return(IF fired /\ answer # "eof" THEN "Unavailable" ELSE answer)
    /\ UNCHANGED <<timer, clock, request, answer, closing, ownExpired, cut>>

-----------------------------------------------------------------------------
(* The timer.                                                              *)

\* The limit passes: the runtime disarms the timer and starts the callback.
Expire ==
    /\ timer = "armed"
    /\ pending + cancelling < MaxCallbacks
    /\ timer' = "stopped"
    /\ pending' = pending + 1
    /\ ownExpired' = (ownExpired \/ pc \in {"reading", "stop"})
    /\ UNCHANGED <<cancelling, fired, request, pc, answer, result, closing, cut>>

\* The callback's two lines.
CallbackFire ==
    /\ pending > 0
    /\ pending' = pending - 1
    /\ cancelling' = cancelling + 1
    /\ fired' = TRUE
    /\ UNCHANGED <<timer, request, reader, closing>>

\* The cancel function given to newIdleReader: the first cause stays.
cancel == reqErr' = IF reqErr = "none" THEN "Canceled" ELSE reqErr

\* Mutant: the callback does not cancel the request.
CallbackCancelForgotten ==
    /\ cancelling > 0
    /\ cancelling' = cancelling - 1
    /\ UNCHANGED <<timer, pending, fired, request, reader, closing>>

CallbackCancel ==
    /\ cancelling > 0
    /\ cancelling' = cancelling - 1
    /\ cancel
    /\ UNCHANGED <<timer, pending, fired, callerDone, bodyClosed, reader, closing>>

-----------------------------------------------------------------------------
(* Close, possibly while a Read is in progress, and the caller's context.  *)

CloseStop ==
    /\ pc # "new"
    /\ closing = "open"
    /\ closing' = "cancel"
    /\ timer' = "stopped"
    /\ UNCHANGED <<clock, request, reader>>

CloseCancel ==
    /\ closing = "cancel"
    /\ closing' = "body"
    /\ cancel
    /\ UNCHANGED <<timer, clock, callerDone, bodyClosed, reader>>

CloseBody ==
    /\ closing = "body"
    /\ closing' = "closed"
    /\ bodyClosed' = TRUE
    /\ UNCHANGED <<timer, clock, reqErr, callerDone, reader>>

CallerCtxDone ==
    /\ ~callerDone
    /\ callerDone' = TRUE
    /\ reqErr' = IF reqErr = "none" THEN "CallerDone" ELSE reqErr
    /\ UNCHANGED <<timer, clock, bodyClosed, reader, closing>>

Next ==
    \/ Constructed
    \/ ReadCall \/ ReadReset \/ BodyReturn \/ ReadStop \/ ReadEnd
    \/ Expire \/ CallbackFire \/ CallbackCancel
    \/ CloseStop \/ CloseCancel \/ CloseBody
    \/ CallerCtxDone

Spec == Init /\ [][Next]_vars

\* The goroutines run, the timer expires and its callbacks run; a Close that
\* has begun goes on.  The body answers once its request is done: nothing makes
\* it answer before.
Fairness ==
    /\ WF_vars(Constructed)
    /\ WF_vars(ReadReset \/ ReadStop \/ ReadEnd)
    /\ WF_vars(Expire) /\ WF_vars(CallbackFire) /\ WF_vars(CallbackCancel)
    /\ WF_vars(CloseCancel \/ CloseBody)
    /\ WF_vars(reqErr # "none" /\ BodyReturn)

FairSpec == Spec /\ Fairness

-----------------------------------------------------------------------------
(* Properties.                                                             *)

\* A caller that reads slowly is never cut off: outside newIdleReader the timer
\* runs only while a Read is in progress, even when Close or an expiry of an
\* earlier Read's timer overlaps it (idle.go:12-13, idle_test.go:78-79).
TimerOnlyDuringRead == timer = "armed" => pc \in {"new", "reading", "stop"}

\* A Read whose own timer expired, with its callback run, before the body
\* answered reports the stall; but a Read that reached the body's end says so,
\* although the timer fired as it returned (idle.go:41-48).
StallReported ==
    pc = "idle" =>
        /\ answer = "eof" => result = "eof"
        /\ cut /\ answer # "eof" => result = "Unavailable"

\* A stall is final: once a Read has reported it no later Read reports anything
\* else, whatever the body could still deliver.
StallIsFinal == [][result = "Unavailable" => result' = "Unavailable"]_vars

\* Close cancels the request before it closes the body, so that a body that
\* resumes finds its request done (idle.go:60-62).
CancelledBeforeClosed == bodyClosed => reqErr # "none"

\* What the comment on stalled says (idle.go:53-55) and the test of it
\* (idle_test.go:150-151): a caller never sees the timer's cancellation as a
\* context.Canceled.  A Read that returns one has its own context done, or a
\* Close under way.
StallNotMistaken ==
    pc = "idle" /\ result = "Canceled" => callerDone \/ closing # "open"

\* A Read returns, even from a body that sends nothing: the timer, or the Close
\* that stopped it, cancels the request.
ReadReturns == (pc \notin {"new", "idle"}) ~> (pc = "idle")
=============================================================================
