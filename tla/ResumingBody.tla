---------------------------- MODULE ResumingBody ----------------------------
(***************************************************************************)
(* resumingBody (s3/objects.go), the body of an S3 Get: a Read whose       *)
(* answer breaks off sends a ranged GetObject from its offset, conditioned *)
(* on the ETag the Get began with, and reads on from the new answer.       *)
(*                                                                         *)
(* One goroutine reads, one may call Close at any time, and other writers  *)
(* replace or delete the object meanwhile.  mu only ever guards one access *)
(* to body, so a critical section is one step.  The service and the answer *)
(* bodies are external.  Bytes are counted, not carried: an answer's body  *)
(* has the version it serves and the position it is at.                    *)
(***************************************************************************)
EXTENDS Naturals

CONSTANTS
    Length,     \* the object's length
    Retries,    \* Client.readRetries
    MaxBodies   \* bound: answer bodies that are open at once

ASSUME LengthAssumption == Length \in Nat
ASSUME RetriesAssumption == Retries \in Nat
ASSUME MaxBodiesAssumption == MaxBodies \in Nat \ {0}

\* An answer's body has a number, of those that no open one has; None is nil.
Bodies == 1 .. MaxBodies
None == 0

VARIABLES
    object,      \* the version now at the key: "first", "other" or "gone"
    ctxDone,     \* the Get's context is done
    hasETag,     \* the first answer carried an ETag
    sizeKnown,   \* the first answer carried a Content-Length
    resumed,     \* an answer after the first has been opened
    version, at, \* what each body serves, and where it is
    shutBodies,  \* the bodies that are not open
    ended,       \* the bodies that have reported their end
    current,     \* resumingBody.body
    closed,      \* resumingBody.closed
    closing,     \* the step of Close
    offset,      \* resumingBody.offset
    lastErr, err,
    pc,          \* the step of the reading goroutine
    resumes,     \* Read's local resumes
    body,        \* Read's local body
    count, fail, \* what the body answered: bytes, error
    result,      \* the error of the last Read that returned
    faithful     \* history: the bytes delivered are the first version's first
                 \* offset bytes, in order

service == <<object, ctxDone>>
answer0 == <<hasETag, sizeKnown>>
answers == <<resumed, version, at, shutBodies, ended>>
shared  == <<current, closed, closing>>
local   == <<pc, resumes, body, count, fail>>
vars    == <<service, answer0, answers, shared, offset, lastErr, err, local,
             result, faithful>>

\* Failures: of the connection or a try's deadline, the context's, the SDK's
\* checksum check, a read of a closed body, a missing or changed object, a range
\* the service does not satisfy, an answer that ignored the range.
Failures == {"net", "ctx", "checksum", "bodyClosed", "NotFound", "range",
             "ignoredRange"}
Errs == {"nil", "eof", "Closed"} \cup Failures

TypeOK ==
    /\ object \in {"first", "other", "gone"}
    /\ ctxDone \in BOOLEAN /\ hasETag \in BOOLEAN /\ sizeKnown \in BOOLEAN
    /\ resumed \in BOOLEAN
    /\ version \in [Bodies -> {"first", "other"}]
    /\ at \in [Bodies -> Nat]
    /\ shutBodies \subseteq Bodies /\ ended \subseteq Bodies
    /\ current \in Bodies \cup {None}
    /\ closed \in BOOLEAN
    /\ closing \in {"open", "marked", "done"}
    /\ offset \in 0 .. Length
    /\ lastErr \in Errs
    /\ err \in Errs
    /\ pc \in {"idle", "loop", "current", "resume", "set", "read",
               "close", "drop"}
    /\ resumes \in 0 .. Retries
    /\ body \in Bodies \cup {None}
    /\ count \in 0 .. Length
    /\ fail \in Errs
    /\ result \in Errs
    /\ faithful \in BOOLEAN

\* Get has answered: the first body is the current one.
Init ==
    /\ object = "first"
    /\ ctxDone = FALSE
    /\ hasETag \in BOOLEAN
    /\ sizeKnown \in BOOLEAN
    /\ resumed = FALSE
    /\ version = [b \in Bodies |-> "first"]
    /\ at = [b \in Bodies |-> 0]
    /\ shutBodies = Bodies \ {1}
    /\ ended = {}
    /\ current = 1
    /\ closed = FALSE
    /\ closing = "open"
    /\ offset = 0
    /\ lastErr = "nil"
    /\ err = "nil"
    /\ pc = "idle"
    /\ resumes = 0
    /\ body = None
    /\ count = 0
    /\ fail = "nil"
    /\ result = "nil"
    /\ faithful = TRUE

-----------------------------------------------------------------------------
(* Read.                                                                   *)

\* Read returns e; its locals end with it.
Return(e) ==
    /\ pc' = "idle"
    /\ result' = e
    /\ resumes' = 0
    /\ body' = None
    /\ count' = 0
    /\ fail' = "nil"

Step(t) ==
    /\ pc' = t
    /\ UNCHANGED <<resumes, count, fail, result>>

ReadCall ==
    /\ pc = "idle"
    /\ Step("loop")
    /\ UNCHANGED <<service, answer0, answers, shared, offset, lastErr, err,
                   body, faithful>>

\* The top of the loop: a closed body, or the failure of an earlier Read.
Loop ==
    /\ pc = "loop"
    /\ \/ closed /\ Return("Closed")
       \/ ~closed /\ err # "nil" /\ Return(err)
       \/ ~closed /\ err = "nil" /\ Step("current") /\ UNCHANGED body
    /\ UNCHANGED <<service, answer0, answers, shared, offset, lastErr, err,
                   faithful>>

\* Mutant: resumes after the last byte too.
resumableAtEnd == ~ctxDone /\ hasETag

resumable == ~ctxDone /\ hasETag /\ (~sizeKnown \/ offset < Length)

\* Take the current body; when there is none, give up with the failure that
\* broke the last one once this Read's resumptions are spent, or send the request
\* that resumes, which makes n of them.
TakeOrResume(n) ==
    /\ pc = "current"
    /\ \/ /\ current # None
          /\ Step("read")
          /\ body' = current
          /\ UNCHANGED err
       \/ /\ current = None
          /\ resumes = Retries \/ ~resumable
          /\ Return(lastErr)
          /\ err' = lastErr
       \/ /\ current = None
          /\ resumes # Retries /\ resumable
          /\ pc' = "resume"
          /\ resumes' = n
          /\ UNCHANGED <<body, count, fail, result, err>>
    /\ UNCHANGED <<service, answer0, answers, shared, offset, lastErr,
                   faithful>>

\* Mutant: the resumptions of a Read are not counted.
CurrentUncounted == TakeOrResume(resumes)

Current == TakeOrResume(resumes + 1)

\* The ranged, conditioned GetObject opens a new body at position p.
OpenAt(p) ==
    /\ pc = "resume"
    /\ resumed' = TRUE
    /\ \E b \in shutBodies :
          /\ version' = [version EXCEPT ![b] = object]
          /\ at' = [at EXCEPT ![b] = p]
          /\ shutBodies' = shutBodies \ {b}
          /\ ended' = ended \ {b}
          /\ body' = b
    /\ Step("set")
    /\ UNCHANGED <<service, answer0, shared, offset, lastErr, err, faithful>>

\* Mutant: sends no If-Match.
ResumeUnconditional == object # "gone" /\ offset < Length /\ OpenAt(offset)

ResumeOpens == object = "first" /\ offset < Length /\ OpenAt(offset)

\* What the resumption may fail with: the connection, the context, an object
\* that was replaced (a failed If-Match) or deleted, no byte left in the range,
\* or an answer that ignored the range, whose body is closed unread.
ResumeErr(e) ==
    \/ e = "net"
    \/ e = "ctx" /\ ctxDone
    \/ e = "NotFound" /\ object # "first"
    \/ e = "ignoredRange" /\ object = "first"
    \/ e = "range" /\ object = "first" /\ offset = Length

\* Mutant: a failure of the resumption is not kept.
ResumeFailsForgetful ==
    /\ pc = "resume"
    /\ \E e \in Failures : ResumeErr(e) /\ Return(e)
    /\ UNCHANGED <<service, answer0, answers, shared, offset, lastErr, err,
                   faithful>>

\* Or it fails, and Read with it for good.
ResumeFails ==
    /\ pc = "resume"
    /\ \E e \in Failures : ResumeErr(e) /\ Return(e) /\ err' = e
    /\ UNCHANGED <<service, answer0, answers, shared, offset, lastErr,
                   faithful>>

\* Mutant: a body set after Close stays open.
SetCurrentForgetful ==
    /\ pc = "set"
    /\ Step("read")
    /\ current' = body
    /\ UNCHANGED <<service, answer0, answers, closed, closing, offset, lastErr,
                   err, body, faithful>>

\* setCurrent(out.Body): a body set after Close is closed at once.
SetCurrent ==
    /\ pc = "set"
    /\ Step("read")
    /\ current' = body
    /\ shutBodies' = IF closed THEN shutBodies \cup {body} ELSE shutBodies
    /\ UNCHANGED <<service, answer0, resumed, version, at, ended, closed, closing,
                   offset, lastErr, err, body, faithful>>

\* body.Read answers n bytes and e.  A break may come with bytes or without,
\* and the SDK checks the checksum of a whole object at its end.
BodyAnswer(n, e) ==
    \/ /\ body \in shutBodies
       /\ n = 0 /\ e = "bodyClosed"
    \/ /\ body \notin shutBodies
       /\ at[body] + n <= Length
       /\ body \in ended => e = "eof"
       /\ \/ e = "nil" /\ n > 0
          \/ e = "eof" /\ at[body] + n = Length
          \/ e = "net"
          \/ e = "ctx" /\ ctxDone
          \/ e = "checksum" /\ ~resumed /\ at[body] + n = Length

BodyRead ==
    /\ pc = "read"
    /\ \E n \in 0 .. Length, e \in Errs :
          /\ BodyAnswer(n, e)
          /\ offset' = offset + n
          /\ at' = [at EXCEPT ![body] = @ + n]
          /\ ended' = IF e = "eof" THEN ended \cup {body} ELSE ended
          /\ faithful' = (/\ faithful
                          /\ n > 0 => version[body] = "first" /\ at[body] = offset)
          /\ IF e \in {"nil", "eof"}
             THEN Return(e)
             ELSE /\ pc' = "close"
                  /\ count' = n
                  /\ fail' = e
                  /\ UNCHANGED <<resumes, body, result>>
    /\ UNCHANGED <<service, answer0, resumed, version, shutBodies, shared, lastErr,
                   err>>

\* body.Close after a break...
CloseBroken ==
    /\ pc = "close"
    /\ Step("drop")
    /\ shutBodies' = shutBodies \cup {body}
    /\ UNCHANGED <<service, answer0, resumed, version, at, ended, shared, offset,
                   lastErr, err, body, faithful>>

\* ... and setCurrent(nil): bytes that came with the break are delivered first.
Drop ==
    /\ pc = "drop"
    /\ current' = None
    /\ lastErr' = fail
    /\ IF count > 0 THEN Return("nil") ELSE Step("loop") /\ body' = None
    /\ UNCHANGED <<service, answer0, answers, closed, closing, offset, err,
                   faithful>>

-----------------------------------------------------------------------------
(* Close, and the world.                                                   *)

CloseMark ==
    /\ closing = "open"
    /\ closing' = "marked"
    /\ closed' = TRUE
    /\ UNCHANGED <<service, answer0, answers, current, offset, lastErr, err,
                   local, result, faithful>>

CloseCurrent ==
    /\ closing = "marked"
    /\ closing' = "done"
    /\ shutBodies' = IF current # None THEN shutBodies \cup {current}
                                       ELSE shutBodies
    /\ UNCHANGED <<service, answer0, resumed, version, at, ended, current, closed,
                   offset, lastErr, err, local, result, faithful>>

\* Another writer replaces the object, or deletes it.
ObjectChanges ==
    /\ object = "first"
    /\ object' \in {"other", "gone"}
    /\ UNCHANGED <<ctxDone, answer0, answers, shared, offset, lastErr, err, local,
                   result, faithful>>

CtxDone ==
    /\ ~ctxDone
    /\ ctxDone' = TRUE
    /\ UNCHANGED <<object, answer0, answers, shared, offset, lastErr, err, local,
                   result, faithful>>

Next ==
    \/ ReadCall \/ Loop \/ Current \/ ResumeOpens \/ ResumeFails \/ SetCurrent
    \/ BodyRead \/ CloseBroken \/ Drop
    \/ CloseMark \/ CloseCurrent
    \/ ObjectChanges \/ CtxDone

Spec == Init /\ [][Next]_vars

\* The reading goroutine runs and reads on; the service and the answer bodies
\* answer, if only with a failure, since the transport and the SDK bound every
\* wait.
FairSpec ==
    Spec /\ WF_vars(ReadCall \/ Loop \/ Current \/ ResumeFails \/ ResumeOpens
                       \/ SetCurrent \/ BodyRead \/ CloseBroken \/ Drop)

-----------------------------------------------------------------------------
(* Properties.                                                             *)

\* What a Get delivers is a prefix of the version it began on, without a gap or
\* a repeat, whatever breaks and whoever replaces the object; a Read that
\* reports the end has delivered the whole of it (s3/objects.go:254-258,
\* 350-353).
OneVersionPrefix ==
    /\ faithful
    /\ result = "eof" => offset = Length

\* No answer's body leaks: between Reads only the current one may be open, and
\* none once Close has returned, although Close may run while a Read opens one
\* (s3/objects.go:284-286, 333-334).
NoBodyLeaks ==
    pc = "idle" =>
        /\ Bodies \ shutBodies \subseteq {current}
        /\ closing = "done" => shutBodies = Bodies

\* A failure a Read returns is returned again on every later Read, or the
\* error of a closed body after Close (s3/objects.go:265-266).
FailureSticks ==
    [][(result \in Failures) => (result' \in {result, "Closed"})]_vars

\* A failed check of the whole object's checksum is never followed by a clean
\* end: not by resuming after the last byte (s3/objects.go:263-265).
ChecksumFailureStands ==
    lastErr = "checksum" => result # "eof" /\ (sizeKnown => pc # "resume")

\* Whoever reads on comes to the end or to a failure, and no Read of theirs
\* hangs: though the service opens an answer for every resumption and each of
\* them breaks without a byte, the budget of a Read ends it, and though bytes
\* came with a break, its failure is not lost, which would leave Reads of no
\* byte and no error for ever (s3/objects.go:258-260, 299-303, 316-321).
ReadingEnds ==
    /\ <>(result # "nil")
    /\ (pc # "idle") ~> (pc = "idle")
=============================================================================
