------------------------------ MODULE GetBody ------------------------------
(***************************************************************************)
(* The body of a Store.Get over the S3 provider (store.go, idle.go,        *)
(* s3/objects.go): an idleReader around a resumingBody, which share the    *)
(* request's context.  Store.Get derives that context and hands it to the  *)
(* provider; the idleReader's timer and its Close cancel it.               *)
(*                                                                         *)
(* IdleReader assumes of the body under it that it answers once its        *)
(* request is done.  Here the body is the resumingBody itself, step by     *)
(* step, and only the service is assumed to answer, and only then.         *)
(***************************************************************************)
EXTENDS IdleReader

CONSTANTS Length, Retries, MaxBodies \* of the resumingBody

ASSUME BodyAssumption ==
    Length \in Nat /\ Retries \in Nat /\ MaxBodies \in Nat \ {0}

VARIABLES
    \* The resumingBody; b marks the names that the idleReader has too.
    object, hasETag, sizeKnown, resumed, version, at, shutBodies, ended,
    current, closed, bclosing, offset, lastErr, err,
    bpc, resumes, body, count, fail, bresult, faithful

bvars == <<object, hasETag, sizeKnown, resumed, version, at, shutBodies, ended,
           current, closed, bclosing, offset, lastErr, err,
           bpc, resumes, body, count, fail, bresult, faithful>>
gvars == <<vars, bvars>>

\* Mutant: the provider is handed the caller's own context.
RequestDoneCaller == callerDone

\* The context that Store.Get hands to the provider.
RequestDone == reqErr # "none"

B == INSTANCE ResumingBody
        WITH ctxDone <- RequestDone, pc <- bpc, result <- bresult,
             closing <- bclosing

GetInit == Init /\ B!Init

-----------------------------------------------------------------------------
(* Steps of one of the two alone.                                          *)

\* The idleReader's own steps.  Those that cancel the request end the
\* resumingBody's context.
IdleStep ==
    /\ \/ Constructed \/ ReadCall \/ ReadStop \/ ReadEnd
       \/ Expire \/ CallbackFire \/ CallbackCancel
       \/ CloseStop \/ CloseCancel \/ CallerCtxDone
    /\ UNCHANGED bvars

BodyClosesCurrent == UNCHANGED vars /\ B!CloseCurrent

ObjectChanges == UNCHANGED vars /\ B!ObjectChanges

-----------------------------------------------------------------------------
(* Steps of both.                                                          *)

\* idleReader.Read calls the body's.
ReadBegins == ReadReset /\ B!ReadCall

\* What the idleReader sees of the body's error, which classifiedBody passes
\* on: the failures it does not tell apart are "net".
Seen(e) ==
    CASE e = "nil" -> "data"
      [] e = "eof" -> "eof"
      [] e = "ctx" -> reqErr
      [] e \in {"Closed", "bodyClosed"} -> "Closed"
      [] OTHER -> "net"

\* A step A of resumingBody.Read: within it, or back to the idleReader's Read.
BodyStep(A) ==
    \/ UNCHANGED vars /\ A /\ bpc' # "idle"
    \/ BodyReturn /\ A /\ bpc' = "idle" /\ answer' = Seen(bresult')

\* The lines of resumingBody.Read that wait for nobody...
BodyRuns ==
    BodyStep(B!Loop \/ B!Current \/ B!SetCurrent \/ B!CloseBroken \/ B!Drop)
\* ... and those that wait for the service.
BodyWaits == BodyStep(B!ResumeOpens \/ B!ResumeFails \/ B!BodyRead)

\* Mutant: Close leaves the provider's body open.
CloseProviderForgotten == CloseBody /\ UNCHANGED bvars

\* idleReader.Close calls the body's.
CloseProvider == CloseBody /\ B!CloseMark

GetNext ==
    \/ IdleStep \/ ReadBegins \/ BodyRuns \/ BodyWaits \/ CloseProvider
    \/ BodyClosesCurrent \/ ObjectChanges

GetSpec == GetInit /\ [][GetNext]_gvars

\* The goroutines, the timer and its callbacks run; the service, or the SDK for
\* it, ends a request whose context is done.  Nothing makes it answer before.
GetFairness ==
    /\ WF_gvars(Constructed /\ UNCHANGED bvars)
    /\ WF_gvars(ReadBegins \/ ((ReadStop \/ ReadEnd) /\ UNCHANGED bvars))
    /\ WF_gvars(Expire /\ UNCHANGED bvars)
    /\ WF_gvars(CallbackFire /\ UNCHANGED bvars)
    /\ WF_gvars(CallbackCancel /\ UNCHANGED bvars)
    /\ WF_gvars((CloseCancel /\ UNCHANGED bvars) \/ CloseProvider)
    /\ WF_gvars(BodyRuns) /\ WF_gvars(BodyClosesCurrent)
    /\ WF_gvars(RequestDone /\ BodyWaits)

GetFairSpec == GetSpec /\ GetFairness

-----------------------------------------------------------------------------
(* Properties.                                                             *)

\* The composition implements IdleReader, fairness included: what IdleReader
\* assumes of a provider's body the resumingBody keeps, since it is handed the
\* request that the timer cancels and resumes only while that request is live
\* (store.go:212-218, s3/objects.go:262).  So a Read returns from a service
\* that sends nothing, however often it has resumed.
ImplementsIdleReader == FairSpec

\* Closing the body cancels the request before it closes the provider's body,
\* so that a body about to resume finds its request done, and releases every
\* answer the body opened, although a Read may be opening one as Close runs
\* (idle.go:60-62, store.go:205-207); a caller that is told the end has had
\* every byte of the version its Get began on.
CloseReleasesAll ==
    /\ bodyClosed => reqErr # "none"
    /\ pc = "idle" /\ closing = "closed" /\ bclosing # "marked" =>
          shutBodies = B!Bodies
    /\ result = "eof" => faithful /\ offset = Length
=============================================================================
