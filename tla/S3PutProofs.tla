---------------------------- MODULE S3PutProofs -----------------------------
(***************************************************************************)
(* Proofs about S3Put, for every body, size, part size, number of workers, *)
(* parts and tries.  They are about Spec: none needs the fairness of       *)
(* FairSpec.                                                               *)
(***************************************************************************)
EXTENDS S3Put, TLAPS

\* The bodyReader has given all of a body that ended cleanly and has the
\* declared size.
Clean ==
    /\ srcN = length /\ ending = "eof" /\ size \in {0, length}
    /\ srcErr = "nil"

\* The steps before a part is read for the upload.
Early == {"call", "buffer", "decide", "put", "create"}

\* Where the bytes are: all in the buffer until the upload streams, then the
\* buffer's first and the body's after them.  A body that broke has left its
\* failure in the bodyReader.
ReaderInv ==
    /\ broke => srcErr # "nil"
    /\ size > 0 => srcN <= size
    /\ buffered <= srcN
    /\ pc \in Early =>
          srcErr = "nil" /\ parts = 0 /\ ~streamed /\ srcN = buffered
    /\ pc \in Early \ {"put"} => taken = 0
    /\ pc = "stream" => srcN = IF taken < buffered THEN buffered ELSE taken

\* The object is written from a body read to a clean end, and a request to
\* write it is sent only then.
CleanInv ==
    /\ pc = "decide" /\ buffered <= PartSize => Clean
    /\ pc = "put" => Clean /\ taken = srcN
    /\ streamed => Clean /\ taken = srcN
    /\ pc = "complete" => streamed
    /\ sent > 0 => Clean /\ taken = srcN /\ pc \notin (Early \ {"put"}) \cup {"stream"}
    /\ tries + applied <= sent

\* What Put returns: a write that is answered was applied, an upload that is
\* aborted has a cause, and the body's failure is not replaced.  Once Put's write
\* was applied, what is at the key is from then or later.
ReturnInv ==
    /\ pc = "head" => applied > 0
    /\ pc \in {"tmAbort", "abort"} => cause # "nil"
    /\ cause \in BodyErrs => srcErr # "nil"
    /\ pc # "done" => result = NoResult
    /\ result.err = "nil" => applied > 0 /\ result.size = srcN
    /\ pc = "done" /\ srcErr # "nil" => result.err = srcErr
    /\ applied > 0 => object \notin {"old", "oldTwin"}
    /\ result.modified \notin {"old", "oldTwin", "other"}

\* The inductive invariant; the parts at the service are its last conjunct.
IInv == TypeOK /\ ReaderInv /\ CleanInv /\ ReturnInv /\ PartsFreedOrNamed

-----------------------------------------------------------------------------
(* bodyReader.Read.                                                        *)

\* What every Read leaves behind: bytes counted once, within the body, the size
\* and the buffer; a failure kept when the body broke; and an end passed on
\* only when it is clean.
LEMMA ReadEffect ==
    ASSUME TypeOK, ReaderInv,
           NEW room \in Nat, NEW k \in Nat, NEW e \in ReadErrs,
           ReadBody(room, k, e)
    PROVE  /\ k <= room
           /\ srcN' = srcN + k /\ srcN' <= length /\ (size > 0 => srcN' <= size)
           /\ broke' \in BOOLEAN /\ (broke' => srcErr' # "nil")
           /\ srcErr' \in BodyErrs \cup {"nil"}
           /\ e \in BodyErrs => srcErr' = e
           /\ e \notin BodyErrs => srcErr' = "nil" /\ srcErr = "nil"
           /\ e = "eof" => /\ srcN' = length /\ ending = "eof"
                           /\ size \in {0, length}
<1> USE DEF TypeOK, ReaderInv, BodyErrs, ReadErrs
<1>1. CASE srcErr # "nil" /\ k = 0 /\ e = srcErr /\ UNCHANGED reader
  BY <1>1 DEF reader
<1>2. CASE /\ srcErr = "nil" /\ LookPastSize(k, e)
           /\ srcErr' = IF e \in BodyErrs THEN e ELSE "nil"
  <2>1. PICK m \in 0 .. 1, f \in {"nil", "eof", "fail"} :
           /\ BodyAnswer(1, m, f)
           /\ e = (IF m > 0 THEN "long" ELSE IF f = "fail" THEN "body" ELSE f)
    BY <1>2 DEF LookPastSize
  <2>2. size > 0 /\ srcN = size /\ k = 0 /\ srcN' = srcN
    BY <1>2 DEF LookPastSize
  <2>3. QED
    BY <1>2, <2>1, <2>2 DEF BodyAnswer
<1>3. CASE /\ srcErr = "nil" /\ ReadWithin(room, k, e)
           /\ srcErr' = IF e \in BodyErrs THEN e ELSE "nil"
  <2>1. PICK f \in {"nil", "eof", "fail"} :
           /\ BodyAnswer(IF size > 0 /\ size - srcN < room THEN size - srcN
                                                           ELSE room, k, f)
           /\ e = (IF f = "fail" THEN "body"
                   ELSE IF f = "eof" /\ size > 0 /\ srcN + k < size THEN "short"
                   ELSE f)
    BY <1>3 DEF ReadWithin
  <2>2. (size = 0 \/ srcN < size) /\ srcN' = srcN + k
    BY <1>3 DEF ReadWithin
  <2>3. QED
    BY <1>3, <2>1, <2>2 DEF BodyAnswer
<1>4. QED
  BY <1>1, <1>2, <1>3 DEF ReadBody

\* A failure that a Read keeps is the one the body shows.
LEMMA ReadShows ==
    ASSUME TypeOK, ReaderInv, srcErr = "nil", srcErr' # "nil",
           NEW room \in Nat, NEW k \in Nat, NEW e \in ReadErrs,
           ReadBody(room, k, e)
    PROVE  Contract!Shows(srcN', srcErr')
<1> USE DEF TypeOK, ReaderInv, BodyErrs, ReadErrs, Contract!Shows
<1>1. e \in BodyErrs /\ srcErr' = e
  BY DEF ReadBody
<1>2. CASE LookPastSize(k, e)
  <2>1. PICK m \in 0 .. 1, f \in {"nil", "eof", "fail"} :
           /\ BodyAnswer(1, m, f)
           /\ e = (IF m > 0 THEN "long" ELSE IF f = "fail" THEN "body" ELSE f)
    BY <1>2 DEF LookPastSize
  <2>2. size > 0 /\ srcN = size /\ srcN' = srcN
    BY <1>2 DEF LookPastSize
  <2>3. CASE m = 1
    BY <1>1, <2>1, <2>2, <2>3 DEF BodyAnswer
  <2>4. CASE m = 0
    <3>1. f = "fail" /\ srcErr' = "body"
      BY <1>1, <2>1, <2>4
    <3>2. ending = "fail" /\ srcN = length
      BY <2>1, <2>4, <3>1 DEF BodyAnswer
    <3>3. QED
      BY <2>2, <3>1, <3>2
  <2>5. QED
    BY <2>1, <2>3, <2>4
<1>3. CASE ReadWithin(room, k, e)
  <2>1. PICK f \in {"nil", "eof", "fail"} :
           /\ BodyAnswer(IF size > 0 /\ size - srcN < room THEN size - srcN
                                                           ELSE room, k, f)
           /\ e = (IF f = "fail" THEN "body"
                   ELSE IF f = "eof" /\ size > 0 /\ srcN + k < size THEN "short"
                   ELSE f)
    BY <1>3 DEF ReadWithin
  <2>2. srcN' = srcN + k
    BY <1>3 DEF ReadWithin
  <2>3. QED
    BY <1>1, <2>1, <2>2 DEF BodyAnswer
<1>4. QED
  BY <1>2, <1>3 DEF ReadBody

-----------------------------------------------------------------------------
(* The invariant.                                                          *)

\* A call of Put satisfies the invariant.
LEMMA InitInv == Init => IInv
<1> SUFFICES ASSUME Init PROVE IInv
  OBVIOUS
<1> USE LengthsAssumption, SizesAssumption, PartSizeAssumption, BoundsAssumption
    DEF Init
<1>1. TypeOK
  <2>1. ctxDone \in BOOLEAN /\ broke \in BOOLEAN /\ streamed \in BOOLEAN
    BY Zenon
  <2>2. /\ length \in Nat /\ ending \in {"eof", "fail"} /\ size \in Nat
        /\ srcN \in 0 .. length /\ buffered \in 0 .. PartSize + 1
        /\ taken \in Nat /\ taken <= srcN /\ fill \in 0 .. PartSize
        /\ parts \in 0 .. MaxParts
        /\ sent \in 0 .. MaxTries /\ tries \in 0 .. sent /\ applied \in 0 .. sent
    OBVIOUS
  <2>3. /\ inflight \subseteq 1 .. parts /\ acked \subseteq 1 .. parts
        /\ landed \subseteq 1 .. parts /\ late \subseteq 1 .. parts
    OBVIOUS
  <2>4. result \in [err : {"none"}, size : Nat, modified : {"none"}, named : BOOLEAN]
    BY DEF NoResult
  <2>5. QED
    BY <2>1, <2>2, <2>3, <2>4 DEF TypeOK, Versions
<1>2. ReaderInv /\ CleanInv
  BY DEF ReaderInv, CleanInv, Early
<1>3. ReturnInv /\ PartsFreedOrNamed
  BY DEF ReturnInv, PartsFreedOrNamed, Failure, NoResult, BodyErrs
<1>4. QED
  BY <1>1, <1>2, <1>3 DEF IInv

\* The result of a failed Put.
FailedWith(e, b) ==
    /\ pc' = "done"
    /\ result' \in [err : RequestErrs \cup BodyErrs \cup {"none", "nil", "Invalid"},
                    size : Nat,
                    modified : {"none", "date", "zero"} \cup Versions,
                    named : BOOLEAN]
    /\ result'.err = e /\ result'.modified = "none" /\ result'.named = b

\* Return fails Put with its argument.
LEMMA ReturnEffect ==
    ASSUME NEW e \in RequestErrs \cup BodyErrs \cup {"nil", "Invalid"}, Return(e)
    PROVE  FailedWith(e, FALSE)
BY DEF Return, FailedWith, NoResult

\* All that a failing request leaves alone.
AllButTries ==
    UNCHANGED <<length, ending, size, ctxDone, broke, srcN, srcErr, buffered,
                taken, fill, parts, streamed, inflight, acked, landed, late,
                cause, object, sent, applied>>

\* A try that is answered leaves the others within the number sent.
LEMMA FewerTries ==
    \A u, a, s \in Nat : \A t \in 0 .. u :
        u + a <= s => t \in 0 .. s /\ t + a <= s
OBVIOUS

\* Put fails before the upload has a part: nothing was written, and the body's
\* failure, if there is one, is the error.
LEMMA EarlyFailure ==
    ASSUME IInv, pc \in Early,
           NEW e \in RequestErrs \cup BodyErrs \cup {"Invalid"}, Return(e),
           AllButTries, tries' \in 0 .. tries
    PROVE  IInv'
<1>1. FailedWith(e, FALSE)
  BY ReturnEffect
<1>2. e \notin {"nil", "none"} /\ srcErr = "nil" /\ parts = 0
  BY DEF RequestErrs, BodyErrs, IInv, ReaderInv
<1>3. tries' \in 0 .. sent' /\ tries' + applied' <= sent'
  <2>1. /\ tries \in Nat /\ applied \in Nat /\ sent \in Nat
        /\ tries + applied <= sent
    BY DEF IInv, TypeOK, CleanInv
  <2>2. tries' \in 0 .. sent /\ tries' + applied <= sent
    BY <2>1, FewerTries
  <2>3. QED
    BY <2>2 DEF AllButTries
<1>4. TypeOK'
  BY <1>1, <1>3 DEF IInv, TypeOK, FailedWith, AllButTries
<1>5. ReaderInv'
  BY <1>1 DEF IInv, ReaderInv, Early, FailedWith, AllButTries
<1>6. CleanInv'
  BY <1>1, <1>3 DEF IInv, CleanInv, Clean, Early, FailedWith, AllButTries
<1>7. ReturnInv'
  BY <1>1, <1>2 DEF IInv, ReturnInv, FailedWith, AllButTries
<1>8. landed' = {}
  BY <1>2 DEF IInv, TypeOK, AllButTries
<1>9. QED
  BY <1>4, <1>5, <1>6, <1>7, <1>8 DEF IInv, PartsFreedOrNamed

\* The upload fails: its parts are given up and the abort begins.
LEMMA UploadFailedInv ==
    ASSUME IInv, pc \in {"stream", "complete"},
           NEW e \in RequestErrs, UploadFailed(e),
           UNCHANGED <<length, ending, size, ctxDone, broke, srcN, srcErr,
                       buffered, taken, fill, parts, streamed, result, object,
                       sent, applied>>,
           tries' \in 0 .. tries
    PROVE  IInv'
<1>1. /\ pc' = "tmAbort" /\ cause' = e /\ inflight' = inflight \ landed
      /\ UNCHANGED <<acked, landed, late>>
  BY DEF UploadFailed
<1>2. tries' \in 0 .. sent' /\ tries' + applied' <= sent'
  <2>1. /\ tries \in Nat /\ applied \in Nat /\ sent \in Nat
        /\ tries + applied <= sent
    BY DEF IInv, TypeOK, CleanInv
  <2>2. tries' \in 0 .. sent /\ tries' + applied <= sent
    BY <2>1, FewerTries
  <2>3. QED
    BY <2>2
<1>3. TypeOK'
  BY <1>1, <1>2 DEF IInv, TypeOK
<1>4. ReaderInv'
  BY <1>1 DEF IInv, ReaderInv, Early
<1>5. CleanInv'
  BY <1>1, <1>2 DEF IInv, CleanInv, Clean, Early
<1>6. ReturnInv'
  BY <1>1 DEF IInv, ReturnInv, RequestErrs, BodyErrs
<1>7. PartsFreedOrNamed'
  BY <1>1 DEF PartsFreedOrNamed, Failure
<1>8. QED
  BY <1>3, <1>4, <1>5, <1>6, <1>7 DEF IInv

\* Put reads into its buffer.
LEMMA BufferInv ==
    ASSUME IInv, Buffer
    PROVE  IInv'
<1> USE PartSizeAssumption
<1>1. /\ pc = "buffer"
      /\ UNCHANGED <<length, ending, size, ctxDone, taken, fill, parts, streamed,
                     inflight, acked, landed, late, cause, object, tries, sent,
                     applied>>
  BY DEF Buffer, ReadUpTo, given, upload, service
<1>2. /\ srcErr = "nil" /\ parts = 0 /\ srcN = buffered /\ taken = 0 /\ sent = 0
      /\ applied = 0 /\ tries = 0 /\ result = NoResult /\ landed = {} /\ ~streamed
      /\ buffered \in Nat /\ buffered <= PartSize + 1 /\ length \in Nat
  <2>1. /\ srcErr = "nil" /\ parts = 0 /\ ~streamed
        /\ srcN = buffered /\ taken = 0
    BY <1>1 DEF IInv, ReaderInv, Early
  <2>2. sent = 0 /\ applied = 0 /\ tries = 0
    BY <1>1 DEF IInv, TypeOK, CleanInv, Early
  <2>3. QED
    BY <1>1, <2>1, <2>2 DEF IInv, TypeOK, ReturnInv
<1>3. CASE /\ buffered = PartSize + 1 /\ pc' = "decide"
           /\ UNCHANGED <<reader, buffered, result>>
  <2>1. TypeOK'
    BY <1>1, <1>3 DEF IInv, TypeOK, reader
  <2>2. ReaderInv' /\ CleanInv'
    BY <1>1, <1>2, <1>3 DEF IInv, ReaderInv, CleanInv, Early, reader
  <2>3. ReturnInv' /\ PartsFreedOrNamed'
    BY <1>1, <1>2, <1>3 DEF IInv, ReturnInv, PartsFreedOrNamed, Failure, NoResult
  <2>4. QED
    BY <2>1, <2>2, <2>3 DEF IInv
<1>4. CASE buffered < PartSize + 1
  <2>0. PICK k \in 0 .. PartSize + 1, e \in ReadErrs :
           /\ ReadBody(PartSize + 1 - buffered, k, e)
           /\ buffered' = buffered + k
           /\ \/ e = "nil" /\ UNCHANGED <<pc, result>>
              \/ e = "eof" /\ pc' = "decide" /\ UNCHANGED result
              \/ e \in BodyErrs /\ Return(e)
    BY <1>2, <1>4 DEF Buffer, ReadUpTo
  <2>1. /\ k <= PartSize + 1 - buffered
        /\ srcN' = srcN + k /\ srcN' <= length /\ (size > 0 => srcN' <= size)
        /\ broke' \in BOOLEAN /\ (broke' => srcErr' # "nil")
        /\ srcErr' \in BodyErrs \cup {"nil"}
        /\ e \in BodyErrs => srcErr' = e
        /\ e \notin BodyErrs => srcErr' = "nil" /\ srcErr = "nil"
        /\ e = "eof" => srcN' = length /\ ending = "eof" /\ size \in {0, length}
    <3>1. PartSize + 1 - buffered \in Nat
      BY <1>2, <1>4
    <3>2. QED
      BY <2>0, <3>1, ReadEffect DEF IInv
  <2>2. /\ srcN' \in 0 .. length' /\ buffered' \in 0 .. PartSize + 1
        /\ taken' <= srcN' /\ buffered' = srcN'
    BY <1>1, <1>2, <2>0, <2>1
  <2>3. CASE e \in {"nil", "eof"}
    <3>1. /\ pc' \in {"buffer", "decide"} /\ (pc' = "decide" => e = "eof")
          /\ result' = result
      BY <1>1, <2>0, <2>3 DEF BodyErrs
    <3>2. TypeOK'
      BY <1>1, <2>1, <2>2, <3>1 DEF IInv, TypeOK
    <3>3. ReaderInv' /\ CleanInv'
      BY <1>1, <1>2, <2>1, <2>2, <2>3, <3>1
      DEF ReaderInv, CleanInv, Clean, Early, BodyErrs
    <3>4. ReturnInv' /\ PartsFreedOrNamed'
      BY <1>1, <1>2, <3>1
      DEF IInv, ReturnInv, PartsFreedOrNamed, Failure, NoResult
    <3>5. QED
      BY <3>2, <3>3, <3>4 DEF IInv
  <2>4. CASE e \in BodyErrs
    <3>1. FailedWith(e, FALSE) /\ e \notin {"nil", "none"}
      BY <2>0, <2>4, ReturnEffect DEF BodyErrs
    <3>2. TypeOK'
      BY <1>1, <2>1, <2>2, <3>1 DEF IInv, TypeOK, FailedWith
    <3>3. ReaderInv' /\ CleanInv'
      BY <1>1, <1>2, <2>1, <2>2, <3>1 DEF ReaderInv, CleanInv, Early, FailedWith
    <3>4. ReturnInv' /\ PartsFreedOrNamed'
      BY <1>1, <1>2, <2>1, <2>4, <3>1
      DEF ReturnInv, PartsFreedOrNamed, FailedWith
    <3>5. QED
      BY <3>2, <3>3, <3>4 DEF IInv
  <2>5. QED
    BY <2>3, <2>4 DEF ReadErrs
<1>5. QED
  BY <1>2, <1>3, <1>4 DEF Buffer, ReadUpTo

\* The parts after one more was sent.
LEMMA SendPartEffect ==
    ASSUME TypeOK, SendPart
    PROVE  /\ parts' \in 0 .. MaxParts /\ fill' \in 0 .. PartSize
           /\ inflight' \subseteq 1 .. parts' /\ acked' \subseteq 1 .. parts'
           /\ landed' \subseteq 1 .. parts' /\ late' \subseteq 1 .. parts'
<1>1. /\ parts \in Nat /\ parts < MaxParts /\ parts' = parts + 1 /\ fill' = 0
      /\ inflight' = inflight \cup {parts + 1}
      /\ UNCHANGED <<acked, landed, late>>
      /\ MaxParts \in Nat /\ PartSize \in Nat
  BY BoundsAssumption, PartSizeAssumption DEF TypeOK, SendPart
<1>2. 1 .. parts \subseteq 1 .. parts' /\ parts + 1 \in 1 .. parts'
  BY <1>1
<1>3. QED
  BY <1>1, <1>2 DEF TypeOK

\* transfermanager reads: the buffer's bytes, then the body's.
LEMMA StreamReadInv ==
    ASSUME IInv, StreamRead
    PROVE  IInv'
<1> USE PartSizeAssumption
<1>1. PICK k \in 0 .. PartSize, e \in ReadErrs :
         /\ IF taken < buffered
            THEN /\ e = "nil"
                 /\ k = IF buffered - taken < PartSize - fill
                        THEN buffered - taken ELSE PartSize - fill
                 /\ UNCHANGED reader
            ELSE ReadBody(PartSize - fill, k, e)
         /\ taken' = taken + k
         /\ \/ /\ fill + k = PartSize
               /\ SendPart
               /\ UNCHANGED <<pc, cause, streamed>>
            \/ /\ fill + k < PartSize /\ e = "nil"
               /\ fill' = fill + k
               /\ UNCHANGED <<pc, cause, parts, streamed, upload>>
            \/ /\ fill + k < PartSize /\ e = "eof"
               /\ streamed' = TRUE
               /\ IF fill + k > 0 THEN SendPart
                                  ELSE UNCHANGED <<parts, fill, upload>>
               /\ UNCHANGED <<pc, cause>>
            \/ /\ fill + k < PartSize /\ e \in BodyErrs
               /\ UploadFailed(e)
               /\ UNCHANGED <<parts, fill, streamed>>
  BY DEF StreamRead
<1>2. /\ pc = "stream" /\ ~streamed
      /\ UNCHANGED <<length, ending, size, ctxDone, buffered, result, object,
                     tries, sent, applied>>
  BY DEF StreamRead, given, service
<1>3. /\ sent = 0 /\ tries = 0 /\ applied = 0 /\ result = NoResult
      /\ srcN = IF taken < buffered THEN buffered ELSE taken
  BY <1>2 DEF IInv, TypeOK, ReaderInv, CleanInv, ReturnInv
<1>4. /\ k <= PartSize - fill
      /\ srcN' \in 0 .. length /\ taken' \in Nat /\ taken' <= srcN'
      /\ srcN' = (IF taken' < buffered THEN buffered ELSE taken')
      /\ buffered <= srcN' /\ (size > 0 => srcN' <= size)
      /\ broke' \in BOOLEAN /\ (broke' => srcErr' # "nil")
      /\ srcErr' \in BodyErrs \cup {"nil"}
      /\ e \in BodyErrs => srcErr' = e
      /\ srcErr # "nil" => srcErr' # "nil"
      /\ e = "eof" => /\ srcN' = length /\ ending = "eof" /\ size \in {0, length}
                      /\ srcErr' = "nil" /\ taken' = srcN'
  <2>1. CASE taken < buffered
    <3>1. /\ e = "nil" /\ UNCHANGED <<broke, srcN, srcErr>>
          /\ k <= PartSize - fill /\ k <= buffered - taken
      BY <1>1, <2>1 DEF IInv, TypeOK, reader
    <3>2. QED
      BY <1>1, <1>3, <2>1, <3>1 DEF IInv, TypeOK, ReaderInv, BodyErrs
  <2>2. CASE ~(taken < buffered)
    <3>1. PartSize - fill \in Nat
      BY DEF IInv, TypeOK
    <3>2. /\ k <= PartSize - fill
          /\ srcN' = srcN + k /\ srcN' <= length /\ (size > 0 => srcN' <= size)
          /\ broke' \in BOOLEAN /\ (broke' => srcErr' # "nil")
          /\ srcErr' \in BodyErrs \cup {"nil"}
          /\ e \in BodyErrs => srcErr' = e
          /\ e \notin BodyErrs => srcErr' = "nil" /\ srcErr = "nil"
          /\ e = "eof" => srcN' = length /\ ending = "eof" /\ size \in {0, length}
      BY <1>1, <2>2, <3>1, ReadEffect DEF IInv
    <3>3. QED
      BY <1>1, <1>3, <2>2, <3>2 DEF IInv, TypeOK, BodyErrs
  <2>3. QED
    BY <2>1, <2>2
<1>5. /\ parts' \in 0 .. MaxParts /\ fill' \in 0 .. PartSize
      /\ inflight' \subseteq 1 .. parts' /\ acked' \subseteq 1 .. parts'
      /\ landed' \subseteq 1 .. parts' /\ late' \subseteq 1 .. parts'
  <2>1. CASE SendPart
    BY <2>1, SendPartEffect DEF IInv
  <2>2. CASE /\ fill' \in {fill, fill + k} /\ parts' = parts
             /\ inflight' \subseteq inflight /\ UNCHANGED <<acked, landed, late>>
    BY <1>4, <2>2 DEF IInv, TypeOK
  <2>3. QED
    BY <1>1, <2>1, <2>2 DEF upload, UploadFailed
<1>6. /\ pc' \in {"stream", "tmAbort"}
      /\ pc' = "stream" => cause' = cause
      /\ pc' = "tmAbort" => cause' = e /\ e \in BodyErrs
      /\ streamed' \in BOOLEAN
      /\ streamed' => e = "eof" /\ pc' = "stream"
  <2>1. CASE UNCHANGED <<pc, cause, streamed>>
    BY <1>2, <2>1 DEF IInv, TypeOK
  <2>2. CASE e = "eof" /\ streamed' = TRUE /\ UNCHANGED <<pc, cause>>
    BY <1>2, <2>2
  <2>3. CASE e \in BodyErrs /\ UploadFailed(e) /\ UNCHANGED streamed
    BY <1>2, <2>3 DEF UploadFailed, IInv, TypeOK
  <2>4. QED
    BY <1>1, <2>1, <2>2, <2>3
<1>7. TypeOK'
  <2>1. cause' \in RequestErrs \cup BodyErrs \cup {"nil"}
    BY <1>6 DEF IInv, TypeOK
  <2>2. QED
    BY <1>2, <1>4, <1>5, <1>6, <2>1 DEF IInv, TypeOK
<1>8. ReaderInv'
  BY <1>2, <1>4, <1>6 DEF ReaderInv, Early
<1>9. CleanInv'
  BY <1>2, <1>3, <1>4, <1>6 DEF CleanInv, Clean, Early
<1>10. ReturnInv' /\ PartsFreedOrNamed'
  BY <1>2, <1>3, <1>4, <1>6
  DEF IInv, ReturnInv, PartsFreedOrNamed, Failure, NoResult, BodyErrs
<1>11. QED
  BY <1>7, <1>8, <1>9, <1>10 DEF IInv

\* A Put that succeeds reports the size that was read and a ModifiedAt.
LEMMA SucceedEffect ==
    ASSUME NEW m \in {"mine", "twin", "date", "zero"}, Succeed(m), srcN \in Nat
    PROVE  /\ pc' = "done"
           /\ result' \in [err : {"nil"}, size : Nat,
                            modified : {"mine", "twin", "date", "zero"}, named : BOOLEAN]
           /\ result'.err = "nil" /\ result'.size = srcN
           /\ result'.modified \notin {"old", "oldTwin", "other"}
BY DEF Succeed, NoResult

\* The steps of Put before an upload, and the HeadObject after it.
LEMMA PutStepInv ==
    ASSUME IInv,
           \/ PutInvalidKey \/ PutCall \/ Decide \/ PutAnswered \/ Create
           \/ HeadAnswered \/ HeadFails
    PROVE  IInv'
<1> USE PartSizeAssumption DEF given, reader, stream, upload, service
<1>1. CASE PutInvalidKey
  <2>1. pc \in Early /\ Return("Invalid") /\ AllButTries /\ tries' \in 0 .. tries
    BY <1>1 DEF PutInvalidKey, Early, AllButTries, IInv, TypeOK
  <2>2. QED
    BY <2>1, EarlyFailure
<1>2. CASE PutCall
  <2>1. TypeOK'
    BY <1>2 DEF PutCall, IInv, TypeOK
  <2>2. ReaderInv' /\ CleanInv'
    BY <1>2 DEF PutCall, IInv, TypeOK, ReaderInv, CleanInv, Clean, Early
  <2>3. ReturnInv' /\ PartsFreedOrNamed'
    BY <1>2 DEF PutCall, IInv, ReturnInv, PartsFreedOrNamed, Failure
  <2>4. QED
    BY <2>1, <2>2, <2>3 DEF IInv
<1>3. CASE Decide
  <2>1. TypeOK'
    BY <1>3 DEF Decide, IInv, TypeOK, ReaderInv
  <2>2. ReaderInv'
    BY <1>3 DEF Decide, IInv, ReaderInv, Early
  <2>3. CleanInv'
    BY <1>3 DEF Decide, IInv, TypeOK, ReaderInv, CleanInv, Clean, Early
  <2>4. ReturnInv' /\ PartsFreedOrNamed'
    BY <1>3 DEF Decide, IInv, ReturnInv, PartsFreedOrNamed, Failure
  <2>5. QED
    BY <2>1, <2>2, <2>3, <2>4 DEF IInv
<1>4. CASE PutAnswered
  <2>1. CASE applied > 0 /\ pc' = "head" /\ UNCHANGED <<result, service>>
    <3>1. /\ pc = "put"
          /\ UNCHANGED <<given, ctxDone, reader, stream, upload, cause>>
      BY <1>4 DEF PutAnswered
    <3>2. TypeOK'
      BY <2>1, <3>1 DEF IInv, TypeOK
    <3>3. ReaderInv' /\ CleanInv'
      BY <2>1, <3>1 DEF IInv, ReaderInv, CleanInv, Clean, Early
    <3>4. ReturnInv' /\ PartsFreedOrNamed'
      BY <2>1, <3>1 DEF IInv, ReturnInv, PartsFreedOrNamed, Failure
    <3>5. QED
      BY <3>2, <3>3, <3>4 DEF IInv
  <2>2. CASE \E e \in RequestErrs : WriteErr(e) /\ Return(e)
    <3>1. PICK e \in RequestErrs : WriteErr(e) /\ Return(e)
      BY <2>2
    <3>2. pc \in Early /\ AllButTries /\ tries' \in 0 .. tries
      BY <1>4, <3>1 DEF PutAnswered, WriteErr, Early, AllButTries, IInv, TypeOK
    <3>3. QED
      BY <3>1, <3>2, EarlyFailure
  <2>3. QED
    BY <1>4, <2>1, <2>2 DEF PutAnswered
<1>5. CASE Create
  <2>1. CASE pc' = "stream" /\ UNCHANGED result
    <3>1. /\ pc = "create"
          /\ UNCHANGED <<given, ctxDone, reader, stream, upload, cause, service>>
      BY <1>5 DEF Create
    <3>2. TypeOK'
      BY <2>1, <3>1 DEF IInv, TypeOK
    <3>3. ReaderInv' /\ CleanInv'
      BY <2>1, <3>1 DEF IInv, TypeOK, ReaderInv, CleanInv, Clean, Early
    <3>4. ReturnInv' /\ PartsFreedOrNamed'
      BY <2>1, <3>1 DEF IInv, ReturnInv, PartsFreedOrNamed, Failure
    <3>5. QED
      BY <3>2, <3>3, <3>4 DEF IInv
  <2>2. CASE \E e \in RequestErrs : RequestErr(e) /\ Return(e)
    <3>1. PICK e \in RequestErrs : RequestErr(e) /\ Return(e)
      BY <2>2
    <3>2. pc \in Early /\ AllButTries /\ tries' \in 0 .. tries
      BY <1>5 DEF Create, Early, AllButTries, IInv, TypeOK
    <3>3. QED
      BY <3>1, <3>2, EarlyFailure
  <2>3. QED
    BY <1>5, <2>1, <2>2 DEF Create
<1>6. CASE HeadAnswered \/ HeadFails
  <2>1. /\ pc = "head"
        /\ \E m \in {"mine", "twin", "date", "zero"} : Succeed(m)
        /\ UNCHANGED <<given, ctxDone, reader, stream, upload, cause, service>>
    BY <1>6 DEF HeadAnswered, HeadFails, SameETag, SucceedDated, IInv, ReturnInv
  <2>2. /\ pc' = "done"
        /\ result' \in [err : {"nil"}, size : Nat,
                         modified : {"mine", "twin", "date", "zero"}, named : BOOLEAN]
        /\ result'.err = "nil" /\ result'.size = srcN
        /\ result'.modified \notin {"old", "oldTwin", "other"}
    BY <2>1, SucceedEffect DEF IInv, TypeOK
  <2>3. applied > 0 /\ srcErr = "nil"
    BY <2>1 DEF IInv, TypeOK, ReturnInv, CleanInv, Clean
  <2>4. TypeOK'
    BY <2>1, <2>2 DEF IInv, TypeOK, Versions
  <2>5. ReaderInv' /\ CleanInv'
    BY <2>1, <2>2 DEF IInv, ReaderInv, CleanInv, Clean, Early
  <2>6. ReturnInv' /\ PartsFreedOrNamed'
    BY <2>1, <2>2, <2>3 DEF IInv, ReturnInv, PartsFreedOrNamed, Failure
  <2>7. QED
    BY <2>4, <2>5, <2>6 DEF IInv
<1>7. QED
  BY <1>1, <1>2, <1>3, <1>4, <1>5, <1>6

\* The steps of an upload after its reads, and of the aborts.
LEMMA UploadStepInv ==
    ASSUME IInv,
           \/ PartAnswered \/ StreamCancelled \/ StreamDone \/ CompleteAnswered
           \/ TmAbort \/ AbortAnswered \/ AbortTimesOut
    PROVE  IInv'
<1> USE DEF given, reader, stream, upload, service
<1>1. CASE PartAnswered
  <2>0. /\ pc = "stream"
        /\ UNCHANGED <<given, ctxDone, reader, stream, result, service>>
    BY <1>1 DEF PartAnswered
  <2>1. CASE \E e \in RequestErrs : UploadFailed(e)
    <3>1. tries' \in 0 .. tries
      BY <2>0 DEF IInv, TypeOK
    <3>2. QED
      BY <2>0, <2>1, <3>1, UploadFailedInv
  <2>2. CASE \E i \in inflight : /\ i \in landed
                                 /\ inflight' = inflight \ {i}
                                 /\ acked' = acked \cup {i}
                                 /\ UNCHANGED <<pc, cause, landed, late>>
    <3>1. TypeOK'
      BY <2>0, <2>2 DEF IInv, TypeOK
    <3>2. ReaderInv' /\ CleanInv'
      BY <2>0, <2>2 DEF IInv, ReaderInv, CleanInv, Clean, Early
    <3>3. ReturnInv' /\ PartsFreedOrNamed'
      BY <2>0, <2>2 DEF IInv, ReturnInv, PartsFreedOrNamed, Failure
    <3>4. QED
      BY <3>1, <3>2, <3>3 DEF IInv
  <2>3. QED
    BY <1>1, <2>1, <2>2 DEF PartAnswered
<1>2. CASE StreamCancelled
  <2>1. tries' \in 0 .. tries
    BY <1>2 DEF StreamCancelled, IInv, TypeOK
  <2>2. QED
    BY <1>2, <2>1, UploadFailedInv DEF StreamCancelled, RequestErrs
<1>3. CASE StreamDone
  <2>1. TypeOK'
    BY <1>3 DEF StreamDone, IInv, TypeOK
  <2>2. ReaderInv' /\ CleanInv'
    BY <1>3 DEF StreamDone, IInv, ReaderInv, CleanInv, Clean, Early
  <2>3. ReturnInv' /\ PartsFreedOrNamed'
    BY <1>3 DEF StreamDone, IInv, ReturnInv, PartsFreedOrNamed, Failure
  <2>4. QED
    BY <2>1, <2>2, <2>3 DEF IInv
<1>4. CASE CompleteAnswered
  <2>0. /\ pc = "complete"
        /\ UNCHANGED <<given, ctxDone, reader, stream, result>>
    BY <1>4 DEF CompleteAnswered
  <2>1. CASE applied > 0 /\ pc' = "head" /\ UNCHANGED <<cause, upload, service>>
    <3>1. TypeOK'
      BY <2>0, <2>1 DEF IInv, TypeOK
    <3>2. ReaderInv' /\ CleanInv'
      BY <2>0, <2>1 DEF IInv, ReaderInv, CleanInv, Clean, Early
    <3>3. ReturnInv' /\ PartsFreedOrNamed'
      BY <2>0, <2>1 DEF IInv, ReturnInv, PartsFreedOrNamed, Failure
    <3>4. QED
      BY <3>1, <3>2, <3>3 DEF IInv
  <2>2. CASE \E e \in RequestErrs : WriteErr(e) /\ UploadFailed(e)
    <3>1. PICK e \in RequestErrs : WriteErr(e) /\ UploadFailed(e)
      BY <2>2
    <3>2. tries' \in 0 .. tries /\ UNCHANGED <<object, sent, applied>>
      BY <3>1 DEF WriteErr, IInv, TypeOK
    <3>3. QED
      BY <2>0, <3>1, <3>2, UploadFailedInv
  <2>3. QED
    BY <1>4, <2>1, <2>2 DEF CompleteAnswered
<1>5. CASE TmAbort
  <2>1. TypeOK'
    BY <1>5 DEF TmAbort, IInv, TypeOK
  <2>2. ReaderInv' /\ CleanInv'
    BY <1>5 DEF TmAbort, IInv, ReaderInv, CleanInv, Clean, Early
  <2>3. ReturnInv' /\ PartsFreedOrNamed'
    BY <1>5 DEF TmAbort, IInv, ReturnInv, PartsFreedOrNamed, Failure
  <2>4. QED
    BY <2>1, <2>2, <2>3 DEF IInv
<1>6. CASE AbortAnswered \/ AbortTimesOut
  <2>1. /\ pc = "abort" /\ landed' \in {landed, {}}
        /\ \E b \in BOOLEAN : Failed(b) /\ (b \/ landed' = {})
        /\ UNCHANGED <<given, ctxDone, reader, stream, inflight, acked, late,
                       cause, service>>
    BY <1>6 DEF AbortAnswered, AbortTimesOut
  <2>2. PICK b \in BOOLEAN : Failed(b) /\ (b \/ landed' = {})
    BY <2>1
  <2>3. /\ failedUpload \in RequestErrs \cup BodyErrs
        /\ failedUpload # "nil" /\ (srcErr # "nil" => failedUpload = srcErr)
    BY <2>1 DEF IInv, TypeOK, ReturnInv, failedUpload
  <2>4. FailedWith(failedUpload, b)
    BY <2>2, <2>3 DEF Failed, FailedWith, NoResult
  <2>5. TypeOK'
    BY <2>1, <2>4 DEF IInv, TypeOK, FailedWith
  <2>6. ReaderInv' /\ CleanInv'
    BY <2>1, <2>4 DEF IInv, ReaderInv, CleanInv, Clean, Early, FailedWith
  <2>7. ReturnInv'
    BY <2>1, <2>3, <2>4 DEF IInv, ReturnInv, FailedWith
  <2>8. PartsFreedOrNamed'
    BY <2>2, <2>4 DEF PartsFreedOrNamed, FailedWith
  <2>9. QED
    BY <2>5, <2>6, <2>7, <2>8 DEF IInv
<1>7. QED
  BY <1>1, <1>2, <1>3, <1>4, <1>5, <1>6

\* The steps of the service, of the other writers and of the caller.
LEMMA WorldStepInv ==
    ASSUME IInv, SendTry \/ PartLands \/ Apply \/ OtherWrites \/ Cancel
    PROVE  IInv'
<1> USE BoundsAssumption DEF given, reader, stream, upload, service
<1>1. CASE SendTry
  <2>1. TypeOK'
    BY <1>1 DEF SendTry, IInv, TypeOK
  <2>2. ReaderInv'
    BY <1>1 DEF SendTry, IInv, ReaderInv, Early
  <2>3. CleanInv'
    BY <1>1 DEF SendTry, IInv, TypeOK, CleanInv, Clean, Early
  <2>4. ReturnInv' /\ PartsFreedOrNamed'
    BY <1>1 DEF SendTry, IInv, ReturnInv, PartsFreedOrNamed, Failure
  <2>5. QED
    BY <2>1, <2>2, <2>3, <2>4 DEF IInv
<1>2. CASE PartLands
  <2>1. TypeOK'
    BY <1>2 DEF PartLands, IInv, TypeOK
  <2>2. ReaderInv' /\ CleanInv'
    BY <1>2 DEF PartLands, IInv, ReaderInv, CleanInv, Clean, Early
  <2>3. ReturnInv'
    BY <1>2 DEF PartLands, IInv, ReturnInv
  <2>4. PartsFreedOrNamed'
    BY <1>2 DEF PartLands, IInv, PartsFreedOrNamed, Failure
  <2>5. QED
    BY <2>1, <2>2, <2>3, <2>4 DEF IInv
<1>3. CASE Apply
  <2>1. /\ tries > 0 /\ tries' = tries - 1 /\ applied' = applied + 1
        /\ object' = "mine" /\ landed' = {}
        /\ UNCHANGED <<length, ending, size, ctxDone, broke, srcN, srcErr, pc,
                       buffered, taken, fill, parts, streamed, inflight, acked,
                       late, cause, result, sent>>
    BY <1>3 DEF Apply
  <2>2. applied' \in 0 .. sent' /\ tries' \in 0 .. sent' /\ tries' + applied' <= sent'
    BY <2>1 DEF IInv, TypeOK, CleanInv
  <2>3. applied' > 0
    BY <2>1 DEF IInv, TypeOK
  <2>4. TypeOK'
    BY <2>1, <2>2 DEF IInv, TypeOK, Versions
  <2>5. ReaderInv' /\ CleanInv'
    BY <2>1, <2>2 DEF IInv, ReaderInv, CleanInv, Clean, Early
  <2>6. ReturnInv' /\ PartsFreedOrNamed'
    BY <2>1, <2>3 DEF IInv, ReturnInv, PartsFreedOrNamed, Failure
  <2>7. QED
    BY <2>4, <2>5, <2>6 DEF IInv
<1>4. CASE OtherWrites
  <2>1. TypeOK'
    BY <1>4 DEF OtherWrites, IInv, TypeOK, Versions
  <2>2. ReaderInv' /\ CleanInv'
    BY <1>4 DEF OtherWrites, IInv, ReaderInv, CleanInv, Clean, Early
  <2>3. ReturnInv' /\ PartsFreedOrNamed'
    BY <1>4 DEF OtherWrites, IInv, ReturnInv, PartsFreedOrNamed, Failure
  <2>4. QED
    BY <2>1, <2>2, <2>3 DEF IInv
<1>5. CASE Cancel
  <2>1. TypeOK'
    BY <1>5 DEF Cancel, IInv, TypeOK
  <2>2. ReaderInv' /\ CleanInv'
    BY <1>5 DEF Cancel, IInv, ReaderInv, CleanInv, Clean, Early
  <2>3. ReturnInv' /\ PartsFreedOrNamed'
    BY <1>5 DEF Cancel, IInv, ReturnInv, PartsFreedOrNamed, Failure
  <2>4. QED
    BY <2>1, <2>2, <2>3 DEF IInv
<1>6. QED
  BY <1>1, <1>2, <1>3, <1>4, <1>5

\* Every step keeps the invariant.
LEMMA StepInv ==
    ASSUME IInv, [Next]_vars
    PROVE  IInv'
<1>1. CASE UNCHANGED vars
  <2> USE <1>1 DEF vars, given, reader, stream, upload, service
  <2>1. TypeOK' /\ ReaderInv' /\ CleanInv'
    BY DEF IInv, TypeOK, ReaderInv, CleanInv, Clean
  <2>2. ReturnInv' /\ PartsFreedOrNamed'
    BY DEF IInv, ReturnInv, PartsFreedOrNamed, Failure
  <2>3. QED
    BY <2>1, <2>2 DEF IInv
<1>2. CASE Next
  BY <1>2, PutStepInv, BufferInv, StreamReadInv, UploadStepInv, WorldStepInv
  DEF Next
<1>3. QED
  BY <1>1, <1>2

-----------------------------------------------------------------------------
(* The theorems.                                                           *)

\* The invariant holds of every state of a Put, its upload and the service.
THEOREM Invariance == Spec => []IInv
BY InitInv, StepInv, PTL DEF Spec

\* The values of the bodyReader, the upload and the service are of their types:
\* no part past the ones sent is at large, answered or held (s3/objects.go).
THEOREM TypeCorrect == Spec => []TypeOK
<1>1. IInv => TypeOK
  BY DEF IInv
<1>2. QED
  BY Invariance, <1>1, PTL

\* Whatever Put writes, in one request or in parts, and whenever the service
\* applies it, is the whole body of the declared size; success means that it
\* was written (s3/objects.go:28-43).
THEOREM WritesWholeBody == Spec => []ObjectIsWholeBody
<1>1. IInv => ObjectIsWholeBody
  BY DEF IInv, TypeOK, CleanInv, Clean, ReturnInv, ObjectIsWholeBody
<1>2. QED
  BY Invariance, <1>1, PTL

\* A body that failed writes nothing, and its failure is what Put reports
\* (s3/objects.go:47-48, 136-140).
THEOREM BodyFailuresReported == Spec => []BodyFailureReported
<1>1. IInv => BodyFailureReported
  BY DEF IInv, TypeOK, CleanInv, Clean, ReturnInv, BodyFailureReported
<1>2. QED
  BY Invariance, <1>1, PTL

\* A failed Put frees its parts or says that it may not have, for any number of
\* parts and any interleaving of their arrival with the two aborts
\* (s3/objects.go:41-47).
THEOREM PartsAreFreed == Spec => []PartsFreedOrNamed
<1>1. IInv => PartsFreedOrNamed
  BY DEF IInv
<1>2. QED
  BY Invariance, <1>1, PTL

\* ModifiedAt is of this Put's object, or of an equal one that another writer put
\* there since, or the write answer's date: never of other content, and never
\* older than this Put's write (s3/objects.go:49-54, 112-117).
THEOREM ModifiedAtIsOfContent == Spec => []ModifiedAtFits
<1>1. IInv => ModifiedAtFits
  BY DEF IInv, ReturnInv, ModifiedAtFits
<1>2. QED
  BY Invariance, <1>1, PTL

-----------------------------------------------------------------------------
(* The contract.                                                           *)

\* What a caller of Put sees of its result.
Seen == [err |-> result.err, size |-> result.size]

\* The result of a failure, as the caller sees it.
LEMMA ReturnSeen ==
    ASSUME NEW e, Return(e)
    PROVE  Contract!Fail(e)
BY DEF Return, NoResult, Contract!Fail

\* A Read of the bodyReader is one of Client.Put's, or its failure, or neither
\* when the body has failed before; Put may return the failure in the same step.
LEMMA ReadKeeps ==
    ASSUME IInv, pc # "done",
           NEW room \in Nat, NEW k \in Nat, NEW e \in ReadErrs,
           ReadBody(room, k, e),
           UNCHANGED result \/ (srcErr = "nil" /\ e \in BodyErrs /\ Return(e)),
           UNCHANGED <<length, ending, size, tries, applied>>
    PROVE  [Contract!Next]_(Contract!vars)
<1>1. /\ srcN' \in srcN .. length /\ (size > 0 => srcN' <= size)
      /\ srcErr' \in BodyErrs \cup {"nil"}
      /\ e \in BodyErrs => srcErr' = e
      /\ srcN \in Nat /\ length \in Nat
  BY ReadEffect DEF IInv, TypeOK
<1>2. Contract!Running
  BY DEF IInv, ReturnInv, NoResult, Contract!Running
<1>3. CASE srcErr # "nil"
  BY <1>3 DEF ReadBody, reader, Contract!vars, Contract!given
<1>4. CASE srcErr = "nil" /\ srcErr' = "nil"
  <2>1. UNCHANGED result
    BY <1>1, <1>4 DEF BodyErrs
  <2>2. Contract!Read
    BY <1>1, <1>2, <1>4, <2>1 DEF Contract!Read, Contract!given
  <2>3. QED
    BY <2>2 DEF Contract!Next
<1>5. CASE srcErr = "nil" /\ srcErr' # "nil"
  <2>1. Contract!Shows(srcN', srcErr')
    BY <1>5, ReadShows DEF IInv
  <2>2. srcErr' \in Contract!BodyErrs
    BY <1>1, <1>5 DEF BodyErrs, Contract!BodyErrs
  <2>3. UNCHANGED Seen \/ Contract!Fail(srcErr')
    BY <1>1, ReturnSeen DEF Seen
  <2>4. Contract!ReadFails
    BY <1>1, <1>2, <1>5, <2>1, <2>2, <2>3
       DEF Contract!ReadFails, Contract!given, Seen
  <2>5. QED
    BY <2>4 DEF Contract!Next
<1>6. QED
  BY <1>3, <1>4, <1>5

\* The reads into Put's buffer keep the contract.
LEMMA BufferKeeps ==
    ASSUME IInv, Buffer
    PROVE  [Contract!Next]_(Contract!vars)
<1> USE PartSizeAssumption
<1>1. /\ pc = "buffer" /\ buffered \in Nat
      /\ UNCHANGED <<length, ending, size, tries, applied>>
  BY DEF Buffer, ReadUpTo, given, service, IInv, TypeOK
<1>2. srcErr = "nil"
  BY <1>1 DEF IInv, ReaderInv, Early
<1>3. CASE UNCHANGED <<reader, buffered, result>>
  BY <1>1, <1>3 DEF reader, Contract!vars, Contract!given
<1>4. CASE buffered < PartSize + 1
  <2>1. PICK k \in 0 .. PartSize + 1, e \in ReadErrs :
           /\ ReadBody(PartSize + 1 - buffered, k, e)
           /\ UNCHANGED result \/ (e \in BodyErrs /\ Return(e))
    BY <1>1, <1>4 DEF Buffer, ReadUpTo
  <2>2. PartSize + 1 - buffered \in Nat /\ k \in Nat
    BY <1>1, <1>4
  <2>3. QED
    BY <1>1, <1>2, <2>1, <2>2, ReadKeeps
<1>5. QED
  BY <1>3, <1>4 DEF Buffer, ReadUpTo

\* So do transfermanager's: the bytes it takes from the buffer were read before.
LEMMA StreamReadKeeps ==
    ASSUME IInv, StreamRead
    PROVE  [Contract!Next]_(Contract!vars)
<1> USE PartSizeAssumption
<1>1. /\ pc = "stream"
      /\ UNCHANGED <<length, ending, size, result, tries, applied>>
  BY DEF StreamRead, given, service
<1>2. CASE UNCHANGED reader
  BY <1>1, <1>2 DEF reader, Contract!vars, Contract!given
<1>3. CASE \E k \in 0 .. PartSize, e \in ReadErrs : ReadBody(PartSize - fill, k, e)
  <2>1. PICK k \in 0 .. PartSize, e \in ReadErrs : ReadBody(PartSize - fill, k, e)
    BY <1>3
  <2>2. PartSize - fill \in Nat /\ k \in Nat
    BY DEF IInv, TypeOK
  <2>3. QED
    BY <1>1, <2>1, <2>2, ReadKeeps
<1>4. QED
  BY <1>2, <1>3 DEF StreamRead

\* Put returns e without a failure of the body: a refusal of the writing request,
\* or another failure that leaves its tries.
LEMMA FailureKeeps ==
    ASSUME IInv, pc # "done", srcErr = "nil",
           NEW e \in RequestErrs \cup {"Invalid"}, Return(e),
           UNCHANGED <<length, ending, size, srcN, srcErr, applied>>,
           \/ UNCHANGED tries
           \/ e = "refused" /\ tries > 0 /\ tries' = tries - 1
    PROVE  Contract!Next
<1>1. Contract!Running /\ Contract!Fail(e)
  BY ReturnSeen DEF IInv, ReturnInv, NoResult, Contract!Running
<1>2. CASE UNCHANGED tries
  <2>1. Contract!PutFails
    BY <1>1, <1>2 DEF Contract!PutFails, Contract!given, RequestErrs
  <2>2. QED
    BY <2>1 DEF Contract!Next
<1>3. CASE e = "refused" /\ tries > 0 /\ tries' = tries - 1
  <2>1. Contract!Refused
    BY <1>1, <1>3 DEF Contract!Refused, Contract!given
  <2>2. QED
    BY <2>1 DEF Contract!Next
<1>4. QED
  BY <1>2, <1>3

\* The steps of Put before an upload, and the HeadObject after it.
LEMMA PutStepKeeps ==
    ASSUME IInv,
           \/ PutInvalidKey \/ PutCall \/ Decide \/ PutAnswered \/ Create
           \/ HeadAnswered \/ HeadFails
    PROVE  [Contract!Next]_(Contract!vars)
<1> USE DEF given, reader, stream, upload, service, Contract!vars, Contract!given
<1>1. CASE PutInvalidKey
  <2>1. srcErr = "nil"
    BY <1>1 DEF PutInvalidKey, IInv, ReaderInv, Early
  <2>2. QED
    BY <1>1, <2>1, FailureKeeps DEF PutInvalidKey
<1>2. CASE PutCall \/ Decide
  BY <1>2 DEF PutCall, Decide
<1>3. CASE PutAnswered
  <2>1. /\ pc = "put" /\ srcErr = "nil"
        /\ UNCHANGED <<length, ending, size, srcN, srcErr>>
    BY <1>3 DEF PutAnswered, IInv, ReaderInv, Early
  <2>2. CASE UNCHANGED <<result, service>>
    BY <2>1, <2>2
  <2>3. CASE \E e \in RequestErrs : WriteErr(e) /\ Return(e)
    BY <2>1, <2>3, FailureKeeps DEF WriteErr
  <2>4. QED
    BY <1>3, <2>2, <2>3 DEF PutAnswered
<1>4. CASE Create
  <2>1. /\ pc = "create" /\ srcErr = "nil"
        /\ UNCHANGED <<length, ending, size, srcN, srcErr, tries, applied>>
    BY <1>4 DEF Create, IInv, ReaderInv, Early
  <2>2. CASE UNCHANGED result
    BY <2>1, <2>2
  <2>3. CASE \E e \in RequestErrs : Return(e)
    BY <2>1, <2>3, FailureKeeps
  <2>4. QED
    BY <1>4, <2>2, <2>3 DEF Create
<1>5. CASE HeadAnswered \/ HeadFails
  <2>1. /\ pc = "head"
        /\ UNCHANGED <<length, ending, size, srcN, srcErr, tries, applied>>
        /\ \E m \in {"mine", "twin", "date", "zero"} : Succeed(m)
    BY <1>5 DEF HeadAnswered, HeadFails, SameETag, SucceedDated, IInv, ReturnInv
  <2>2. Contract!Running /\ applied > 0 /\ srcN = length
    BY <2>1
    DEF IInv, TypeOK, ReturnInv, CleanInv, Clean, NoResult, Contract!Running
  <2>3. Seen' = [err |-> "nil", size |-> length]
    BY <2>1, <2>2 DEF Succeed, NoResult, Seen
  <2>4. Contract!PutSucceeds
    BY <2>1, <2>2, <2>3 DEF Contract!PutSucceeds, Seen
  <2>5. QED
    BY <2>4 DEF Contract!Next
<1>6. QED
  BY <1>1, <1>2, <1>3, <1>4, <1>5

\* The steps of an upload after its reads, and of the aborts.
LEMMA UploadStepKeeps ==
    ASSUME IInv,
           \/ PartAnswered \/ StreamCancelled \/ StreamDone \/ CompleteAnswered
           \/ TmAbort \/ AbortAnswered \/ AbortTimesOut
    PROVE  [Contract!Next]_(Contract!vars)
<1> USE DEF given, reader, stream, upload, service, Contract!vars, Contract!given
<1>1. CASE PartAnswered \/ StreamCancelled \/ StreamDone \/ TmAbort
  BY <1>1 DEF PartAnswered, StreamCancelled, StreamDone, TmAbort
<1>2. CASE CompleteAnswered
  <2>1. /\ pc = "complete"
        /\ UNCHANGED <<length, ending, size, srcN, srcErr, result>>
    BY <1>2 DEF CompleteAnswered
  <2>2. CASE UNCHANGED service
    BY <2>1, <2>2
  <2>3. CASE \E e \in RequestErrs : WriteErr(e)
    <3>1. CASE UNCHANGED tries
      BY <2>1, <2>3, <3>1 DEF WriteErr
    <3>2. CASE tries > 0 /\ tries' = tries - 1
      <4>1. Contract!Running
        BY <2>1 DEF IInv, ReturnInv, NoResult, Contract!Running
      <4>2. Contract!Refused
        BY <2>1, <2>3, <3>2, <4>1 DEF WriteErr, Contract!Refused
      <4>3. QED
        BY <4>2 DEF Contract!Next
    <3>3. QED
      BY <2>3, <3>1, <3>2 DEF WriteErr
  <2>4. QED
    BY <1>2, <2>2, <2>3 DEF CompleteAnswered
<1>3. CASE AbortAnswered \/ AbortTimesOut
  <2>1. /\ pc = "abort" /\ \E b \in BOOLEAN : Failed(b)
        /\ UNCHANGED <<length, ending, size, srcN, srcErr, tries, applied>>
    BY <1>3 DEF AbortAnswered, AbortTimesOut
  <2>2. IF srcErr # "nil" THEN failedUpload = srcErr
                          ELSE failedUpload \in RequestErrs
    BY <2>1 DEF IInv, TypeOK, ReturnInv, failedUpload
  <2>3. Contract!Running /\ Contract!Fail(failedUpload)
    BY <2>1
    DEF IInv, ReturnInv, Failed, NoResult, Contract!Running, Contract!Fail
  <2>4. Contract!PutFails
    BY <2>1, <2>2, <2>3 DEF Contract!PutFails, RequestErrs
  <2>5. QED
    BY <2>4 DEF Contract!Next
<1>4. QED
  BY <1>1, <1>2, <1>3

\* The steps of the service, of the other writers and of the caller.
LEMMA WorldStepKeeps ==
    ASSUME IInv, SendTry \/ PartLands \/ Apply \/ OtherWrites \/ Cancel
    PROVE  [Contract!Next]_(Contract!vars)
<1> USE DEF given, reader, stream, upload, service, Contract!vars, Contract!given
<1>1. CASE SendTry
  <2>1. Contract!Running
    BY <1>1 DEF SendTry, IInv, ReturnInv, NoResult, Contract!Running
  <2>2. Contract!Whole
    BY <1>1 DEF SendTry, IInv, CleanInv, Clean, Contract!Whole
  <2>3. Contract!Send
    BY <1>1, <2>1, <2>2 DEF SendTry, Contract!Send
  <2>4. QED
    BY <2>3 DEF Contract!Next
<1>2. CASE Apply
  <2>1. Contract!Write
    BY <1>2 DEF Apply, Contract!Write
  <2>2. QED
    BY <2>1 DEF Contract!Next
<1>3. CASE PartLands \/ OtherWrites \/ Cancel
  BY <1>3 DEF PartLands, OtherWrites, Cancel
<1>4. QED
  BY <1>1, <1>2, <1>3

\* Every step is one of Client.Put's, or none.
LEMMA StepKeeps ==
    ASSUME IInv, [Next]_vars
    PROVE  [Contract!Next]_(Contract!vars)
<1>1. CASE UNCHANGED vars
  BY <1>1 DEF vars, given, reader, service, Contract!vars, Contract!given
<1>2. CASE Next
  BY <1>2, PutStepKeeps, BufferKeeps, StreamReadKeeps, UploadStepKeeps,
     WorldStepKeeps
  DEF Next
<1>3. QED
  BY <1>1, <1>2

\* The S3 provider's Put implements the contract of Client.Put, for every body,
\* part size and number of parts, in one request or in an upload, with requests
\* lost or applied late (client.go:106-113, s3/objects.go:28-54).
THEOREM S3KeepsContract == Spec => KeepsContract
<1>1. Init => Contract!Init
  BY LengthsAssumption, SizesAssumption DEF Init, NoResult, Contract!Init
<1>2. QED
  BY Invariance, <1>1, StepKeeps, PTL DEF Spec, KeepsContract, Contract!Spec
=============================================================================
