------------------------------- MODULE S3Put --------------------------------
(***************************************************************************)
(* The S3 provider's Put (s3/objects.go): it reads a part and a byte of    *)
(* the body to choose between one PutObject and a multipart upload, sends  *)
(* it, and asks for the object's ModifiedAt with a HeadObject; a failed    *)
(* multipart upload is aborted twice, by transfermanager and by Put.       *)
(*                                                                         *)
(* The body, the service, the SDK's retries, transfermanager and the other *)
(* writers of the key are external.  The body answers a Read in every way  *)
(* io.Reader allows.  A request that writes may be lost, be applied with   *)
(* its answer lost, be sent again by the SDK, or be applied after the      *)
(* client gave it up; so may a part.  Bytes are counted, not carried.      *)
(***************************************************************************)
EXTENDS Integers, FiniteSets

CONSTANTS
    PartSize,    \* Client.partSize
    Workers,     \* the concurrency option
    Lengths,     \* the lengths a body may have
    Sizes,       \* the values of opts.Size, 0 for an unknown size
    MaxParts,    \* bound: parts of one upload
    MaxTries     \* bound: tries of a request that writes the object

ASSUME PartSizeAssumption == PartSize \in Nat \ {0}
ASSUME WorkersAssumption == Workers \in Nat \ {0}
ASSUME LengthsAssumption ==
    Lengths \subseteq Nat /\ \A n \in Lengths : n <= PartSize * MaxParts
ASSUME SizesAssumption == Sizes \subseteq Nat
ASSUME BoundsAssumption == MaxParts \in Nat /\ MaxTries \in Nat \ {0}

VARIABLES
    length, ending,     \* the body: its length, then "eof" or "fail"
    size,               \* opts.Size
    ctxDone,            \* the caller's context is cancelled
    broke,              \* the body has failed
    srcN, srcErr,       \* bodyReader.n and bodyReader.err
    pc,                 \* the step of Put
    buffered,           \* bytes in Put's buffer
    taken, fill, parts, \* transfermanager: bytes taken, in the part being
                        \* filled, and parts begun
    inflight, acked,    \* parts sent, and parts answered
    streamed,           \* transfermanager has met the body's end
    cause,              \* the failure of the upload
    result,             \* what Put returned
    object,             \* the version at the key
    tries, sent,        \* tries of the writing request at large; sent so far
    applied,            \* how often the service has applied it
    landed,             \* the upload's parts the service holds
    late                \* history: parts that landed after Put's own abort

given   == <<length, ending, size>>
reader  == <<broke, srcN, srcErr>>
stream  == <<buffered, taken, fill, parts, streamed>>
upload  == <<inflight, acked, landed, late>>
service == <<object, tries, sent, applied>>
vars    == <<given, ctxDone, reader, pc, stream, upload, cause, result,
             service>>

\* The body's own failure and the two mismatches with a declared size.
BodyErrs == {"body", "short", "long"}

\* A request's failure, classified: no answer or a server error, the caller's
\* cancellation, an answer that refuses it.
RequestErrs == {"Unavailable", "cancel", "refused"}

\* What may be at the key: this Put's object, another's of the same content,
\* from before this Put's was written or since, or one of other content.
Versions == {"mine", "oldTwin", "twin", "old", "other"}

NoResult == [err |-> "none", size |-> 0, modified |-> "none", named |-> FALSE]

TypeOK ==
    /\ length \in Nat /\ ending \in {"eof", "fail"} /\ size \in Nat
    /\ ctxDone \in BOOLEAN
    /\ broke \in BOOLEAN
    /\ srcN \in 0 .. length
    /\ srcErr \in BodyErrs \cup {"nil"}
    /\ pc \in {"call", "buffer", "decide", "put", "create", "stream",
               "complete", "tmAbort", "abort", "head", "done"}
    /\ buffered \in 0 .. PartSize + 1
    /\ taken \in Nat /\ taken <= srcN
    /\ fill \in 0 .. PartSize
    /\ parts \in 0 .. MaxParts
    /\ streamed \in BOOLEAN
    /\ inflight \subseteq 1 .. parts /\ acked \subseteq 1 .. parts
    /\ landed \subseteq 1 .. parts /\ late \subseteq 1 .. parts
    /\ cause \in RequestErrs \cup BodyErrs \cup {"nil"}
    /\ result \in [err : RequestErrs \cup BodyErrs
                           \cup {"none", "nil", "Invalid"},
                   size : Nat,
                   modified : {"none", "date", "zero"} \cup Versions,
                   named : BOOLEAN]
    /\ object \in Versions
    /\ sent \in 0 .. MaxTries
    /\ tries \in 0 .. sent
    /\ applied \in 0 .. sent

Init ==
    /\ length \in Lengths /\ ending \in {"eof", "fail"} /\ size \in Sizes
    /\ ctxDone = FALSE
    /\ broke = FALSE /\ srcN = 0 /\ srcErr = "nil"
    /\ pc = "call"
    /\ buffered = 0 /\ taken = 0 /\ fill = 0 /\ parts = 0 /\ streamed = FALSE
    /\ inflight = {} /\ acked = {} /\ landed = {} /\ late = {}
    /\ cause = "nil"
    /\ result = NoResult
    /\ object \in {"old", "oldTwin"} /\ tries = 0 /\ sent = 0 /\ applied = 0

Return(e) ==
    /\ pc' = "done"
    /\ result' = [NoResult EXCEPT !.err = e]

-----------------------------------------------------------------------------
(* bodyReader.Read.                                                        *)

\* The body answers a Read of at most room bytes.  Its end may come with its
\* last bytes or after them, and once it has failed it may say anything.
BodyAnswer(room, k, e) ==
    /\ k <= room /\ srcN + k <= length
    /\ \/ e = "nil" /\ k > 0
       \/ e = ending /\ srcN + k = length
       \/ e = "eof" /\ broke
    /\ broke' = (broke \/ e = "fail")

\* At the declared size, one byte more shows a longer body.
LookPastSize(k, e) ==
    /\ size > 0 /\ srcN >= size
    /\ k = 0
    /\ \E n \in 0 .. 1, f \in {"nil", "eof", "fail"} :
          /\ BodyAnswer(1, n, f)
          /\ e = (IF n > 0 THEN "long" ELSE IF f = "fail" THEN "body" ELSE f)
    /\ UNCHANGED srcN

\* Mutant: looks for a short body before it has counted the bytes of this Read.
ReadWithinUncounted(room, k, e) ==
    /\ size = 0 \/ srcN < size
    /\ \E f \in {"nil", "eof", "fail"} :
          /\ BodyAnswer(IF size > 0 /\ size - srcN < room THEN size - srcN
                                                          ELSE room, k, f)
          /\ e = (IF f = "fail" THEN "body"
                  ELSE IF f = "eof" /\ size > 0 THEN "short" ELSE f)
    /\ srcN' = srcN + k

\* Otherwise the Read is cut to the declared size, and an end short of it fails.
ReadWithin(room, k, e) ==
    /\ size = 0 \/ srcN < size
    /\ \E f \in {"nil", "eof", "fail"} :
          /\ BodyAnswer(IF size > 0 /\ size - srcN < room THEN size - srcN
                                                          ELSE room, k, f)
          /\ e = (IF f = "fail" THEN "body"
                  ELSE IF f = "eof" /\ size > 0 /\ srcN + k < size THEN "short"
                  ELSE f)
    /\ srcN' = srcN + k

\* Mutant: a failure is returned once, not kept.
ReadBodyForgetful(room, k, e) ==
    /\ LookPastSize(k, e) \/ ReadWithin(room, k, e)
    /\ UNCHANGED srcErr

\* Read returns k bytes and e; the first failure is returned again.
ReadBody(room, k, e) ==
    \/ srcErr # "nil" /\ k = 0 /\ e = srcErr /\ UNCHANGED reader
    \/ /\ srcErr = "nil"
       /\ LookPastSize(k, e) \/ ReadWithin(room, k, e)
       /\ srcErr' = IF e \in BodyErrs THEN e ELSE "nil"

ReadErrs == {"nil", "eof"} \cup BodyErrs

-----------------------------------------------------------------------------
(* Put.                                                                    *)

PutInvalidKey ==
    /\ pc = "call"
    /\ Return("Invalid")
    /\ UNCHANGED <<given, ctxDone, reader, stream, upload, cause, service>>

PutCall ==
    /\ pc = "call"
    /\ pc' = "buffer"
    /\ UNCHANGED <<given, ctxDone, reader, stream, upload, cause, result,
                   service>>

\* buf.ReadFrom(io.LimitReader(src, limit)), one Read at a time.
ReadUpTo(limit) ==
    /\ pc = "buffer"
    /\ \/ /\ buffered = limit
          /\ pc' = "decide"
          /\ UNCHANGED <<reader, buffered, result>>
       \/ /\ buffered < limit
          /\ \E k \in 0 .. limit, e \in ReadErrs :
                /\ ReadBody(limit - buffered, k, e)
                /\ buffered' = buffered + k
                /\ \/ e = "nil" /\ UNCHANGED <<pc, result>>
                   \/ e = "eof" /\ pc' = "decide" /\ UNCHANGED result
                   \/ e \in BodyErrs /\ Return(e)
    /\ UNCHANGED <<given, ctxDone, taken, fill, parts, streamed, upload, cause,
                   service>>

\* One byte past a part shows whether the body needs more than one.
Buffer == ReadUpTo(PartSize + 1)

\* A body of at most a part is one PutObject; taken is what it carries.
Decide ==
    /\ pc = "decide"
    /\ \/ buffered <= PartSize /\ pc' = "put" /\ taken' = buffered
       \/ buffered > PartSize /\ pc' = "create" /\ UNCHANGED taken
    /\ UNCHANGED <<given, ctxDone, reader, buffered, fill, parts, streamed,
                   upload, cause, result, service>>

\* A request fails: it was lost or refused, its answer was lost, or ctx ended
\* it.
RequestErr(e) ==
    \/ e \in {"Unavailable", "refused"}
    \/ e = "cancel" /\ ctxDone

\* The request that writes fails: a refusal answers one of its tries.
WriteErr(e) ==
    /\ RequestErr(e)
    /\ \/ e # "refused" /\ UNCHANGED tries
       \/ e = "refused" /\ tries > 0 /\ tries' = tries - 1
    /\ UNCHANGED <<object, sent, applied>>

\* PutObject's answer.
PutAnswered ==
    /\ pc = "put"
    /\ \/ applied > 0 /\ pc' = "head" /\ UNCHANGED <<result, service>>
       \/ \E e \in RequestErrs : WriteErr(e) /\ Return(e)
    /\ UNCHANGED <<given, ctxDone, reader, stream, upload, cause>>

-----------------------------------------------------------------------------
(* transfermanager's UploadObject.                                         *)

\* The upload failed with e: the parts at large are given up.
UploadFailed(e) ==
    /\ pc' = "tmAbort"
    /\ cause' = e
    /\ inflight' = inflight \ landed
    /\ UNCHANGED <<acked, landed, late>>

\* CreateMultipartUpload; without an answer there is no upload ID to abort.
Create ==
    /\ pc = "create"
    /\ \/ pc' = "stream" /\ UNCHANGED result
       \/ \E e \in RequestErrs : RequestErr(e) /\ Return(e)
    /\ UNCHANGED <<given, ctxDone, reader, stream, upload, cause, service>>

\* The part that was filled is handed to a worker.
SendPart ==
    /\ parts < MaxParts
    /\ parts' = parts + 1
    /\ inflight' = inflight \cup {parts + 1}
    /\ fill' = 0
    /\ UNCHANGED <<acked, landed, late>>

\* The next bytes of io.MultiReader(&buf, src), until a part is full, the body
\* ends or it fails.  A failure that comes with the bytes that fill a part is
\* dropped.
StreamRead ==
    /\ pc = "stream" /\ ~streamed
    /\ Cardinality(inflight) < Workers
    /\ \E k \in 0 .. PartSize, e \in ReadErrs :
          /\ IF taken < buffered
             THEN /\ e = "nil"
                  /\ k = IF buffered - taken < PartSize - fill
                         THEN buffered - taken ELSE PartSize - fill
                  /\ UNCHANGED reader
             ELSE ReadBody(PartSize - fill, k, e)
          /\ taken' = taken + k
          /\ \/ /\ fill + k = PartSize
                /\ SendPart
                /\ UNCHANGED <<pc, cause, streamed>>
             \/ /\ fill + k < PartSize /\ e = "nil"
                /\ fill' = fill + k
                /\ UNCHANGED <<pc, cause, parts, streamed, upload>>
             \/ /\ fill + k < PartSize /\ e = "eof"
                /\ streamed' = TRUE
                /\ IF fill + k > 0 THEN SendPart
                                   ELSE UNCHANGED <<parts, fill, upload>>
                /\ UNCHANGED <<pc, cause>>
             \/ /\ fill + k < PartSize /\ e \in BodyErrs
                /\ UploadFailed(e)
                /\ UNCHANGED <<parts, fill, streamed>>
    /\ UNCHANGED <<given, ctxDone, buffered, result, service>>

\* The service stores a part, perhaps after it was given up.
PartLands ==
    /\ applied = 0
    /\ \E i \in inflight \ landed :
          /\ landed' = landed \cup {i}
          /\ inflight' = IF pc = "stream" THEN inflight ELSE inflight \ {i}
          /\ late' = IF pc = "done" THEN late \cup {i} ELSE late
    /\ UNCHANGED <<given, ctxDone, reader, pc, stream, acked, cause, result,
                   service>>

PartAnswered ==
    /\ pc = "stream"
    /\ \E i \in inflight :
          \/ /\ i \in landed
             /\ inflight' = inflight \ {i}
             /\ acked' = acked \cup {i}
             /\ UNCHANGED <<pc, cause, landed, late>>
          \/ \E e \in RequestErrs : RequestErr(e) /\ UploadFailed(e)
    /\ UNCHANGED <<given, ctxDone, reader, stream, result, service>>

StreamCancelled ==
    /\ pc = "stream" /\ ctxDone
    /\ UploadFailed("cancel")
    /\ UNCHANGED <<given, ctxDone, reader, stream, result, service>>

StreamDone ==
    /\ pc = "stream" /\ streamed /\ acked = 1 .. parts
    /\ pc' = "complete"
    /\ UNCHANGED <<given, ctxDone, reader, stream, upload, cause, result,
                   service>>

\* CompleteMultipartUpload's answer.
CompleteAnswered ==
    /\ pc = "complete"
    /\ \/ applied > 0 /\ pc' = "head" /\ UNCHANGED <<cause, upload, service>>
       \/ \E e \in RequestErrs : WriteErr(e) /\ UploadFailed(e)
    /\ UNCHANGED <<given, ctxDone, reader, stream, result>>

\* transfermanager's abort, on a context of its own; its failure is dropped.
TmAbort ==
    /\ pc = "tmAbort"
    /\ pc' = "abort"
    /\ landed' \in {landed, {}}
    /\ UNCHANGED <<given, ctxDone, reader, stream, inflight, acked, late, cause,
                   result, service>>

-----------------------------------------------------------------------------
(* failedUpload and abortUpload.                                           *)

\* Mutant: reports whatever failed the upload first.
failedUploadFirst == cause

\* The body's failure is reported as it is, any other as classified.
failedUpload == IF srcErr # "nil" THEN srcErr ELSE cause

Failed(named) ==
    /\ pc' = "done"
    /\ result' = [NoResult EXCEPT !.err = failedUpload, !.named = named]

\* Mutant: Put leaves the abort to transfermanager.
AbortLeft ==
    /\ pc = "abort"
    /\ Failed(FALSE)
    /\ UNCHANGED <<given, ctxDone, reader, stream, upload, cause, service>>

\* Put's own abort is answered, NoSuchUpload included: no part remains.  Or it
\* is refused, or its answer lost, and the error names that.
AbortAnswered ==
    /\ pc = "abort"
    /\ \/ landed' = {} /\ Failed(FALSE)
       \/ landed' \in {landed, {}} /\ Failed(TRUE)
    /\ UNCHANGED <<given, ctxDone, reader, stream, inflight, acked, late, cause,
                   service>>

\* Mutant: the detached context has no deadline.
AbortUnbounded == FALSE /\ UNCHANGED vars

\* abortTimeout ends an abort that is not answered.
AbortTimesOut ==
    /\ pc = "abort"
    /\ Failed(TRUE)
    /\ UNCHANGED <<given, ctxDone, reader, stream, upload, cause, service>>

-----------------------------------------------------------------------------
(* The HeadObject, and the world.                                          *)

Succeed(modified) ==
    /\ pc' = "done"
    /\ result' = [NoResult EXCEPT !.err = "nil", !.size = srcN,
                                  !.modified = modified]

\* The ETag is the content's.
SameETag == object \in {"mine", "twin", "oldTwin"}

\* The write answer's date, if it has one.
SucceedDated == Succeed("date") \/ Succeed("zero")

\* Mutant: takes ModifiedAt from whatever is there.
HeadAnsweredBlindly ==
    /\ pc = "head"
    /\ Succeed(object)
    /\ UNCHANGED <<given, ctxDone, reader, stream, upload, cause, service>>

HeadAnswered ==
    /\ pc = "head"
    /\ \/ SameETag /\ Succeed(object)
       \/ ~SameETag /\ SucceedDated
    /\ UNCHANGED <<given, ctxDone, reader, stream, upload, cause, service>>

HeadFails ==
    /\ pc = "head"
    /\ SucceedDated
    /\ UNCHANGED <<given, ctxDone, reader, stream, upload, cause, service>>

\* The SDK sends the request that writes, again after a try without an answer.
SendTry ==
    /\ pc \in {"put", "complete"} /\ sent < MaxTries
    /\ sent' = sent + 1
    /\ tries' = tries + 1
    /\ UNCHANGED <<given, ctxDone, reader, pc, stream, upload, cause, result,
                   object, applied>>

\* The service applies a try, perhaps after the client gave it up; a
\* multipart upload completes once, with its parts.
Apply ==
    /\ tries > 0
    /\ tries' = tries - 1
    /\ parts > 0 => applied = 0 /\ landed = 1 .. parts
    /\ object' = "mine"
    /\ applied' = applied + 1
    /\ landed' = {}
    /\ UNCHANGED <<given, ctxDone, reader, pc, stream, inflight, acked, late,
                   cause, result, sent>>

\* Another writer replaces the object while Put runs.
OtherWrites ==
    /\ pc # "done"
    /\ object' \in {IF applied > 0 THEN "twin" ELSE "oldTwin", "other"}
    /\ object' # object
    /\ UNCHANGED <<given, ctxDone, reader, pc, stream, upload, cause, result,
                   tries, sent, applied>>

Cancel ==
    /\ ~ctxDone /\ pc # "done"
    /\ ctxDone' = TRUE
    /\ UNCHANGED <<given, reader, pc, stream, upload, cause, result, service>>

Next ==
    \/ PutInvalidKey \/ PutCall \/ Buffer \/ Decide \/ PutAnswered
    \/ Create \/ StreamRead \/ PartAnswered \/ StreamCancelled \/ StreamDone
    \/ CompleteAnswered \/ TmAbort \/ AbortAnswered \/ AbortTimesOut
    \/ HeadAnswered \/ HeadFails
    \/ SendTry \/ PartLands \/ Apply \/ OtherWrites \/ Cancel

Spec == Init /\ [][Next]_vars

\* Once ctx is done every wait on the service but the aborts' ends with it, and
\* the aborts end with their own timeouts.  The body is assumed to answer.
FairSpec ==
    /\ Spec
    /\ WF_vars(ctxDone /\ (\/ PutCall \/ Buffer \/ Decide \/ PutAnswered
                           \/ Create \/ StreamCancelled \/ CompleteAnswered
                           \/ HeadFails))
    /\ WF_vars(TmAbort)
    /\ WF_vars(AbortTimesOut)

-----------------------------------------------------------------------------
(* Properties.                                                             *)

Failure == pc = "done" /\ result.err \notin {"none", "nil"}

\* What this Put writes at the key is the whole body, read to a clean end and of
\* the declared size, whichever way it is sent and whenever the service applies
\* it; a Put that succeeds has written it and reports its size
\* (s3/objects.go:28-43, client.go:106-113).
ObjectIsWholeBody ==
    /\ applied > 0 => /\ taken = length /\ ending = "eof"
                      /\ size \in {0, length}
    /\ result.err = "nil" => applied > 0 /\ result.size = length

\* A failure of the body writes nothing, even one that came with the bytes that
\* filled a part, and is what Put reports, even when a part failed first
\* (s3/objects.go:47-48, 136-140).
BodyFailureReported ==
    srcErr # "nil" => /\ applied = 0
                      /\ pc = "done" => result.err = srcErr

\* A Put that failed leaves no part at the service, unless its error says so or
\* the part arrived after the second abort (s3/objects.go:41-47).
PartsFreedOrNamed == Failure => result.named \/ landed \subseteq late

\* ModifiedAt is never that of an object of other content, nor of an equal one
\* from before this Put's write, though others write the key before, between and
\* after its tries: it is of this Put's object or of an equal one written since,
\* or the write answer's date (s3/objects.go:49-54, 112-117).
ModifiedAtFits == result.modified \notin {"old", "oldTwin", "other"}

\* A Put whose context is cancelled returns, although the service answers
\* nothing, the abort included (s3/objects.go:147-150).
CancelledPutReturns == ctxDone ~> (pc = "done")

\* The contract: on any error nothing is written at key and an object already
\* stored there is unchanged (client.go:106-110).
AllOrNothing == Failure => applied = 0

\* Put as its caller sees it: each step of the two ways to upload, of
\* transfermanager and of the service is one of ClientPut.  So a request that
\* writes is sent only once the body was read to a clean end of the declared
\* size, and a body is called short, long or failed only when it is
\* (client.go:106-113, s3/objects.go:28-48, 178-210).
Contract == INSTANCE ClientPut WITH
    n <- srcN, err <- srcErr,
    result <- [err |-> result.err, size |-> result.size]
KeepsContract == Contract!Spec
=============================================================================
