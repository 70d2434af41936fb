------------------------------ MODULE AzurePut ------------------------------
(***************************************************************************)
(* The Azure provider's Put (azureblob/objects.go): the body is read       *)
(* through a trackedReader by the SDK's UploadStream, which stages it in   *)
(* blocks and writes the blob once the body has ended.                     *)
(*                                                                         *)
(* The body, the SDK and the service are external.  UploadStream reads     *)
(* until a block is full, and drops an error that comes with the bytes     *)
(* that fill it; it stages blocks in the background and stops reading when *)
(* one fails.  The request that writes may be lost, be applied with its    *)
(* answer lost, or be applied late.  Bytes are counted, not carried.       *)
(***************************************************************************)
EXTENDS Integers, FiniteSets

CONSTANTS
    BlockSize,   \* Client.blockSize
    Concurrency, \* Client.concurrency
    Lengths,     \* the lengths a body may have
    Sizes,       \* the values of opts.Size, 0 for an unknown size
    MaxTries     \* bound: tries of the request that writes

ASSUME BlockSizeAssumption == BlockSize \in Nat \ {0}
ASSUME ConcurrencyAssumption == Concurrency \in Nat \ {0}
ASSUME LengthsAssumption == Lengths \subseteq Nat
ASSUME SizesAssumption == Sizes \subseteq Nat
ASSUME MaxTriesAssumption == MaxTries \in Nat \ {0}

VARIABLES
    length, ending,   \* the body: its length, then "eof" or "fail"
    size,             \* opts.Size
    ctxDone,          \* the caller's context is cancelled
    broke,            \* the body has failed
    n, err,           \* trackedReader.n and trackedReader.err
    pc,               \* where UploadStream is; "done" once Put has returned
    taken, fill,      \* bytes UploadStream has, and those in the open block
    blocks, inflight, \* blocks begun, and those not yet staged
    uploadErr,        \* what UploadStream returns
    result,           \* what Put returned: its error and Size
    tries, sent,      \* tries of the writing request at large; sent so far
    applied           \* how often the service has applied it

given   == <<length, ending, size>>
reader  == <<broke, n, err>>
staging == <<taken, fill, blocks, inflight>>
service == <<tries, sent, applied>>
vars    == <<given, ctxDone, reader, pc, staging, uploadErr, result, service>>

\* The body's own failure and the two mismatches with a declared size.
BodyErrs == {"body", "short", "long"}
ReadErrs == {"nil", "eof"} \cup BodyErrs
\* A request's failure, classified.
RequestErrs == {"Unavailable", "cancel", "refused"}

TypeOK ==
    /\ length \in Nat /\ ending \in {"eof", "fail"} /\ size \in Nat
    /\ ctxDone \in BOOLEAN /\ broke \in BOOLEAN
    /\ n \in 0 .. length /\ (size > 0 => n <= size)
    /\ err \in BodyErrs \cup {"nil"}
    /\ pc \in {"read", "wait", "commit", "return", "done"}
    /\ taken \in 0 .. length
    /\ fill \in 0 .. BlockSize
    /\ blocks \in Nat /\ inflight \subseteq 1 .. blocks
    /\ uploadErr \in RequestErrs \cup BodyErrs \cup {"nil"}
    /\ result \in [err : RequestErrs \cup BodyErrs \cup {"none", "nil"},
                   size : Nat]
    /\ sent \in 0 .. MaxTries /\ tries \in 0 .. sent /\ applied \in 0 .. sent

Init ==
    /\ length \in Lengths /\ ending \in {"eof", "fail"} /\ size \in Sizes
    /\ ctxDone = FALSE
    /\ broke = FALSE /\ n = 0 /\ err = "nil"
    /\ pc = "read"
    /\ taken = 0 /\ fill = 0 /\ blocks = 0 /\ inflight = {}
    /\ uploadErr = "nil"
    /\ result = [err |-> "none", size |-> 0]
    /\ tries = 0 /\ sent = 0 /\ applied = 0

-----------------------------------------------------------------------------
(* trackedReader.                                                          *)

\* The body answers a Read of at most room bytes.  Its end may come with its
\* last bytes or after them, and once it has failed it may say anything.
BodyAnswer(room, k, e) ==
    /\ k <= room /\ n + k <= length
    /\ \/ e = "nil" /\ k > 0
       \/ e = ending /\ n + k = length
       \/ e = "eof" /\ broke
    /\ broke' = (broke \/ e = "fail")

\* Mutant: the body is cut at the declared size.
ProbePastSizeCuts(k, e) ==
    /\ size > 0 /\ n >= size
    /\ k = 0 /\ e = "eof"
    /\ UNCHANGED <<broke, n>>

\* Mutant: a body that fails at the declared size is called longer.
ProbePastSizeBlind(k, e) ==
    /\ size > 0 /\ n >= size
    /\ k = 0
    /\ \E m \in 0 .. 1, f \in {"nil", "eof", "fail"} :
          BodyAnswer(1, m, f) /\ e = (IF f = "eof" /\ m = 0 THEN f ELSE "long")
    /\ UNCHANGED n

\* The declared size is spent: one byte more shows a longer body.
ProbePastSize(k, e) ==
    /\ size > 0 /\ n >= size
    /\ k = 0
    /\ \E m \in 0 .. 1, f \in {"nil", "eof", "fail"} :
          /\ BodyAnswer(1, m, f)
          /\ e = (IF m > 0 THEN "long" ELSE IF f = "fail" THEN "body" ELSE f)
    /\ UNCHANGED n

\* The Read is cut to what remains, and an end short of the size fails.
ReadWithin(room, k, e) ==
    /\ size = 0 \/ n < size
    /\ \E f \in {"nil", "eof", "fail"} :
          /\ BodyAnswer(IF size > 0 /\ size - n < room THEN size - n ELSE room,
                        k, f)
          /\ e = (IF f = "fail" THEN "body"
                  ELSE IF f = "eof" /\ size > 0 /\ n + k < size THEN "short"
                  ELSE f)
    /\ n' = n + k

\* fail records the body's first failure.
fail(e) == err' = IF e \in BodyErrs THEN e ELSE err

\* Read returns k bytes and e; a recorded failure is repeated.
Read(room, k, e) ==
    \/ err # "nil" /\ k = 0 /\ e = err /\ UNCHANGED reader
    \/ err = "nil" /\ (ProbePastSize(k, e) \/ ReadWithin(room, k, e)) /\ fail(e)

-----------------------------------------------------------------------------
(* UploadStream.                                                           *)

Stage ==
    /\ blocks' = blocks + 1
    /\ inflight' = inflight \cup {blocks + 1}
    /\ fill' = 0

\* UploadStream gives up with e.
Fails(e) ==
    /\ uploadErr' = e
    /\ pc' = "return"

\* A Read into the open block.  At the body's end what is in it is staged, or
\* written by itself when it is the only one.
StreamRead ==
    /\ pc = "read"
    /\ Cardinality(inflight) < Concurrency
    /\ \E k \in 0 .. BlockSize, e \in ReadErrs :
          /\ Read(BlockSize - fill, k, e)
          /\ taken' = taken + k
          /\ \/ /\ fill + k = BlockSize
                /\ Stage
                /\ UNCHANGED <<pc, uploadErr>>
             \/ /\ fill + k < BlockSize /\ e = "nil"
                /\ fill' = fill + k
                /\ UNCHANGED <<pc, uploadErr, blocks, inflight>>
             \/ /\ fill + k < BlockSize /\ e = "eof"
                /\ IF fill + k > 0 /\ blocks > 0
                   THEN Stage ELSE UNCHANGED <<fill, blocks, inflight>>
                /\ pc' = "wait"
                /\ UNCHANGED uploadErr
             \/ /\ fill + k < BlockSize /\ e \in BodyErrs
                /\ Fails(e)
                /\ UNCHANGED <<fill, blocks, inflight>>
    /\ UNCHANGED <<given, ctxDone, result, service>>

\* A request fails: without an answer, refused, or with its context.
RequestErr(e) == e \in {"Unavailable", "refused"} \/ (e = "cancel" /\ ctxDone)

BlockStaged ==
    /\ pc \in {"read", "wait"}
    /\ \E i \in inflight : inflight' = inflight \ {i}
    /\ UNCHANGED <<given, ctxDone, reader, pc, taken, fill, blocks, uploadErr,
                   result, service>>

BlockFails ==
    /\ pc \in {"read", "wait"} /\ inflight # {}
    /\ \E e \in RequestErrs : RequestErr(e) /\ Fails(e)
    /\ UNCHANGED <<given, ctxDone, reader, staging, result, service>>

AllStaged ==
    /\ pc = "wait" /\ inflight = {}
    /\ pc' = "commit"
    /\ UNCHANGED <<given, ctxDone, reader, staging, uploadErr, result, service>>

\* A try of the Put Blob or the Put Block List, again after one without an
\* answer.
SendTry ==
    /\ pc = "commit" /\ sent < MaxTries
    /\ sent' = sent + 1 /\ tries' = tries + 1
    /\ UNCHANGED <<given, ctxDone, reader, pc, staging, uploadErr, result,
                   applied>>

\* The service applies a try, perhaps after the client gave it up.
Apply ==
    /\ tries > 0
    /\ tries' = tries - 1 /\ applied' = applied + 1
    /\ UNCHANGED <<given, ctxDone, reader, pc, staging, uploadErr, result, sent>>

CommitAnswered ==
    /\ pc = "commit"
    /\ \/ applied > 0 /\ pc' = "return" /\ UNCHANGED uploadErr
       \/ \E e \in RequestErrs : RequestErr(e) /\ Fails(e)
    /\ UNCHANGED <<given, ctxDone, reader, staging, result, service>>

-----------------------------------------------------------------------------
(* Put, once UploadStream has returned.                                    *)

\* Mutant: whatever failed the upload is reported.
PutErrFirst == uploadErr

\* A failed upload reports the body's failure before its own.
PutErr == IF uploadErr # "nil" /\ err # "nil" THEN err ELSE uploadErr

PutReturn ==
    /\ pc = "return"
    /\ pc' = "done"
    /\ result' = [err |-> PutErr, size |-> IF PutErr = "nil" THEN n ELSE 0]
    /\ UNCHANGED <<given, ctxDone, reader, staging, uploadErr, service>>

Cancel ==
    /\ ~ctxDone /\ pc # "done"
    /\ ctxDone' = TRUE
    /\ UNCHANGED <<given, reader, pc, staging, uploadErr, result, service>>

Next ==
    \/ StreamRead \/ BlockStaged \/ BlockFails \/ AllStaged
    \/ SendTry \/ Apply \/ CommitAnswered
    \/ PutReturn \/ Cancel

Spec == Init /\ [][Next]_vars

-----------------------------------------------------------------------------
(* Properties.                                                             *)

\* What this Put writes is the whole body, read to a clean end and of the
\* declared size, never cut to it; a Put that succeeds has written it and
\* reports its size (azureblob/objects.go:26-28, client.go:106-113).
BlobIsWholeBody ==
    /\ applied > 0 => taken = length /\ ending = "eof" /\ size \in {0, length}
    /\ result.err = "nil" => applied > 0 /\ result.size = length

\* A failure of the body writes nothing, even one that the SDK dropped because
\* it came with the bytes that filled a block, and is what Put reports, even
\* when a block failed first (azureblob/objects.go:28, 178-182).
BodyFailureReported ==
    err # "nil" => /\ applied = 0
                   /\ pc = "done" => result.err = err

\* Put as its caller sees it: each step of UploadStream and of the service is
\* one of ClientPut.  So the blob is written only once the body was read to a
\* clean end of the declared size, and a body is called short, long or failed
\* only when it is (client.go:106-113, azureblob/objects.go:178-182, 190-232).
Contract == INSTANCE ClientPut
KeepsContract == Contract!Spec
=============================================================================
