--------------------------- MODULE AzurePutProofs ---------------------------
(***************************************************************************)
(* Proofs about AzurePut, for every body, size, block size, concurrency    *)
(* and number of tries.                                                    *)
(***************************************************************************)
EXTENDS AzurePut, TLAPS

\* The trackedReader has given all of a body that ended cleanly and has the
\* declared size.
Clean == n = length /\ ending = "eof" /\ size \in {0, length}

\* UploadStream has every byte the trackedReader gave, and a body that broke
\* has left its failure in the trackedReader: the SDK may drop the error of one
\* Read, but not of the next.
ReaderInv ==
    /\ taken = n
    /\ broke => err # "nil"

\* UploadStream goes on to write only after a clean end, and a write is sent
\* only then.
CleanInv ==
    /\ pc \in {"wait", "commit"} => err = "nil" /\ Clean
    /\ sent > 0 => err = "nil" /\ Clean /\ pc \notin {"read", "wait"}
    /\ tries + applied <= sent

\* What UploadStream returns and Put makes of it.
ReturnInv ==
    /\ pc \notin {"return", "done"} => uploadErr = "nil"
    /\ pc \in {"return", "done"} /\ uploadErr = "nil" => applied > 0
    /\ uploadErr \in BodyErrs => err # "nil"
    /\ pc # "done" => result.err = "none"
    /\ pc = "done" =>
          /\ result.err = PutErr
          /\ PutErr = "nil" => result.size = n

\* The inductive invariant.
IInv == TypeOK /\ ReaderInv /\ CleanInv /\ ReturnInv

-----------------------------------------------------------------------------
(* trackedReader.Read.                                                     *)

\* What every Read leaves behind: bytes counted once, within the body, the size
\* and the buffer; a failure recorded when the body broke; and an end passed on
\* only when it is clean.
LEMMA ReadEffect ==
    ASSUME TypeOK, ReaderInv,
           NEW room \in Nat, NEW k \in Nat, NEW e \in ReadErrs, Read(room, k, e)
    PROVE  /\ k <= room
           /\ n' = n + k /\ n' <= length /\ (size > 0 => n' <= size)
           /\ broke' \in BOOLEAN /\ (broke' => err' # "nil")
           /\ err' \in BodyErrs \cup {"nil"}
           /\ e \in BodyErrs => err' = e
           /\ e \notin BodyErrs => err' = "nil" /\ err = "nil"
           /\ e = "eof" => /\ n' = length /\ ending = "eof"
                           /\ size \in {0, length}
<1> USE DEF TypeOK, ReaderInv, BodyErrs, ReadErrs
<1>1. CASE err # "nil" /\ k = 0 /\ e = err /\ UNCHANGED reader
  BY <1>1 DEF reader
<1>2. CASE err = "nil" /\ ProbePastSize(k, e) /\ fail(e)
  <2>1. PICK m \in 0 .. 1, f \in {"nil", "eof", "fail"} :
           /\ BodyAnswer(1, m, f)
           /\ e = (IF m > 0 THEN "long" ELSE IF f = "fail" THEN "body" ELSE f)
    BY <1>2 DEF ProbePastSize
  <2>2. size > 0 /\ n = size /\ k = 0 /\ n' = n
    BY <1>2 DEF ProbePastSize
  <2>3. err' = (IF e \in BodyErrs THEN e ELSE err)
    BY <1>2 DEF fail
  <2>4. QED
    BY <1>2, <2>1, <2>2, <2>3 DEF BodyAnswer
<1>3. CASE err = "nil" /\ ReadWithin(room, k, e) /\ fail(e)
  <2>1. PICK f \in {"nil", "eof", "fail"} :
           /\ BodyAnswer(IF size > 0 /\ size - n < room THEN size - n ELSE room,
                         k, f)
           /\ e = (IF f = "fail" THEN "body"
                   ELSE IF f = "eof" /\ size > 0 /\ n + k < size THEN "short"
                   ELSE f)
    BY <1>3 DEF ReadWithin
  <2>2. (size = 0 \/ n < size) /\ n' = n + k
    BY <1>3 DEF ReadWithin
  <2>3. err' = (IF e \in BodyErrs THEN e ELSE err)
    BY <1>3 DEF fail
  <2>4. QED
    BY <1>3, <2>1, <2>2, <2>3 DEF BodyAnswer
<1>4. QED
  BY <1>1, <1>2, <1>3 DEF Read

\* A failure that a Read records is the one the body shows.
LEMMA ReadShows ==
    ASSUME TypeOK, ReaderInv, err = "nil", err' # "nil",
           NEW room \in Nat, NEW k \in Nat, NEW e \in ReadErrs, Read(room, k, e)
    PROVE  Contract!Shows(n', err')
<1> USE DEF TypeOK, ReaderInv, BodyErrs, ReadErrs, Contract!Shows
<1>1. e \in BodyErrs /\ err' = e
  BY DEF Read, fail
<1>2. CASE ProbePastSize(k, e)
  <2>1. PICK m \in 0 .. 1, f \in {"nil", "eof", "fail"} :
           /\ BodyAnswer(1, m, f)
           /\ e = (IF m > 0 THEN "long" ELSE IF f = "fail" THEN "body" ELSE f)
    BY <1>2 DEF ProbePastSize
  <2>2. size > 0 /\ n = size /\ n' = n
    BY <1>2 DEF ProbePastSize
  <2>3. CASE m = 1
    BY <1>1, <2>1, <2>2, <2>3 DEF BodyAnswer
  <2>4. CASE m = 0
    <3>1. f = "fail" /\ err' = "body"
      BY <1>1, <2>1, <2>4
    <3>2. ending = "fail" /\ n = length
      BY <2>1, <2>4, <3>1 DEF BodyAnswer
    <3>3. QED
      BY <2>2, <3>1, <3>2
  <2>5. QED
    BY <2>1, <2>3, <2>4
<1>3. CASE ReadWithin(room, k, e)
  <2>1. PICK f \in {"nil", "eof", "fail"} :
           /\ BodyAnswer(IF size > 0 /\ size - n < room THEN size - n ELSE room,
                         k, f)
           /\ e = (IF f = "fail" THEN "body"
                   ELSE IF f = "eof" /\ size > 0 /\ n + k < size THEN "short"
                   ELSE f)
    BY <1>3 DEF ReadWithin
  <2>2. n' = n + k
    BY <1>3 DEF ReadWithin
  <2>3. QED
    BY <1>1, <2>1, <2>2 DEF BodyAnswer
<1>4. QED
  BY <1>2, <1>3 DEF Read

-----------------------------------------------------------------------------
(* The invariant.                                                          *)

\* A Put about to read its body satisfies the invariant.
LEMMA InitInv == Init => IInv
<1> SUFFICES ASSUME Init PROVE IInv
  OBVIOUS
<1> USE LengthsAssumption, SizesAssumption, BlockSizeAssumption,
        MaxTriesAssumption DEF Init
<1>1. TypeOK
  <2>1. ctxDone \in BOOLEAN /\ broke \in BOOLEAN
    BY Zenon
  <2>2. /\ length \in Nat /\ ending \in {"eof", "fail"} /\ size \in Nat
        /\ n \in 0 .. length /\ (size > 0 => n <= size)
        /\ taken \in 0 .. length /\ fill \in 0 .. BlockSize
        /\ blocks \in Nat /\ inflight \subseteq 1 .. blocks
        /\ sent \in 0 .. MaxTries /\ tries \in 0 .. sent /\ applied \in 0 .. sent
    OBVIOUS
  <2>3. result \in [err : {"none"}, size : Nat]
    OBVIOUS
  <2>4. QED
    BY <2>1, <2>2, <2>3 DEF TypeOK
<1>2. ReaderInv /\ CleanInv /\ ReturnInv
  BY DEF ReaderInv, CleanInv, ReturnInv, BodyErrs
<1>3. QED
  BY <1>1, <1>2 DEF IInv

\* The blocks begun and at large after a Stage.
LEMMA StageEffect ==
    ASSUME TypeOK, Stage
    PROVE  fill' \in 0 .. BlockSize /\ blocks' \in Nat /\ inflight' \subseteq 1 .. blocks'
BY BlockSizeAssumption DEF TypeOK, Stage

\* UploadStream reads: it takes what the Read gave, and leaves the loop with a
\* clean end or with the body's failure.
LEMMA StreamReadInv ==
    ASSUME IInv, StreamRead
    PROVE  IInv'
<1> USE BlockSizeAssumption
<1>1. PICK k \in 0 .. BlockSize, e \in ReadErrs :
         /\ Read(BlockSize - fill, k, e)
         /\ taken' = taken + k
         /\ \/ /\ fill + k = BlockSize
               /\ Stage
               /\ UNCHANGED <<pc, uploadErr>>
            \/ /\ fill + k < BlockSize /\ e = "nil"
               /\ fill' = fill + k
               /\ UNCHANGED <<pc, uploadErr, blocks, inflight>>
            \/ /\ fill + k < BlockSize /\ e = "eof"
               /\ IF fill + k > 0 /\ blocks > 0
                  THEN Stage ELSE UNCHANGED <<fill, blocks, inflight>>
               /\ pc' = "wait"
               /\ UNCHANGED uploadErr
            \/ /\ fill + k < BlockSize /\ e \in BodyErrs
               /\ Fails(e)
               /\ UNCHANGED <<fill, blocks, inflight>>
  BY DEF StreamRead
<1>2. /\ pc = "read"
      /\ UNCHANGED <<length, ending, size, ctxDone, result, tries, sent, applied>>
  BY DEF StreamRead, given, service
<1>3. /\ k <= BlockSize - fill
      /\ n' = n + k /\ n' <= length /\ (size > 0 => n' <= size)
      /\ broke' \in BOOLEAN /\ (broke' => err' # "nil")
      /\ err' \in BodyErrs \cup {"nil"}
      /\ e \in BodyErrs => err' = e
      /\ e \notin BodyErrs => err' = "nil" /\ err = "nil"
      /\ e = "eof" => n' = length /\ ending = "eof" /\ size \in {0, length}
  <2>1. BlockSize - fill \in Nat
    BY DEF IInv, TypeOK
  <2>2. QED
    BY <1>1, <2>1, ReadEffect DEF IInv
<1>4. /\ fill' \in 0 .. BlockSize /\ blocks' \in Nat
      /\ inflight' \subseteq 1 .. blocks'
  <2>1. CASE Stage
    BY <2>1, StageEffect DEF IInv
  <2>2. CASE UNCHANGED <<blocks, inflight>> /\ fill' \in {fill, fill + k}
    BY <2>2, <1>3 DEF IInv, TypeOK
  <2>3. QED
    BY <1>1, <2>1, <2>2
<1>5. /\ pc' \in {"read", "wait", "return"}
      /\ pc' = "wait" => e = "eof" /\ uploadErr' = uploadErr
      /\ pc' = "return" => uploadErr' = e /\ e \in BodyErrs
      /\ pc' = "read" => uploadErr' = uploadErr
  BY <1>1, <1>2 DEF Fails
<1>6. sent = 0 /\ uploadErr = "nil" /\ applied = 0 /\ tries = 0 /\ result.err = "none"
  BY <1>2 DEF IInv, TypeOK, CleanInv, ReturnInv
<1>7. ReaderInv'
  BY <1>1, <1>3 DEF IInv, ReaderInv
<1>8. TypeOK'
  <2>1. n' \in 0 .. length' /\ taken' \in 0 .. length' /\ (size' > 0 => n' <= size')
    BY <1>1, <1>2, <1>3 DEF IInv, TypeOK, ReaderInv
  <2>2. uploadErr' \in RequestErrs \cup BodyErrs \cup {"nil"}
    BY <1>5, <1>6
  <2>3. QED
    BY <1>2, <1>3, <1>4, <1>5, <2>1, <2>2 DEF IInv, TypeOK
<1>9. CleanInv'
  BY <1>2, <1>3, <1>5, <1>6 DEF CleanInv, Clean, BodyErrs
<1>10. ReturnInv'
  BY <1>2, <1>3, <1>5, <1>6 DEF ReturnInv, BodyErrs
<1>11. QED
  BY <1>7, <1>8, <1>9, <1>10 DEF IInv

\* Every step of UploadStream, of the service and of Put keeps the invariant.
LEMMA StepInv ==
    ASSUME IInv, [Next]_vars
    PROVE  IInv'
<1> USE BlockSizeAssumption, MaxTriesAssumption
    DEF given, reader, staging, service, RequestErrs, BodyErrs
<1>1. CASE UNCHANGED vars
  BY <1>1 DEF vars, IInv, TypeOK, ReaderInv, CleanInv, Clean, ReturnInv, PutErr
<1>2. CASE StreamRead
  BY <1>2, StreamReadInv
<1>3. CASE BlockStaged
  <2>1. TypeOK'
    BY <1>3 DEF BlockStaged, IInv, TypeOK
  <2>2. ReaderInv' /\ CleanInv' /\ ReturnInv'
    BY <1>3 DEF BlockStaged, IInv, ReaderInv, CleanInv, Clean, ReturnInv, PutErr
  <2>3. QED
    BY <2>1, <2>2 DEF IInv
<1>4. CASE BlockFails
  <2>1. TypeOK'
    BY <1>4 DEF BlockFails, Fails, IInv, TypeOK
  <2>2. ReaderInv' /\ CleanInv' /\ ReturnInv'
    BY <1>4 DEF BlockFails, Fails, IInv, ReaderInv, CleanInv, Clean, ReturnInv
  <2>3. QED
    BY <2>1, <2>2 DEF IInv
<1>5. CASE AllStaged
  <2>1. TypeOK'
    BY <1>5 DEF AllStaged, IInv, TypeOK
  <2>2. ReaderInv' /\ CleanInv' /\ ReturnInv'
    BY <1>5 DEF AllStaged, IInv, ReaderInv, CleanInv, Clean, ReturnInv
  <2>3. QED
    BY <2>1, <2>2 DEF IInv
<1>6. CASE SendTry
  <2>1. TypeOK'
    BY <1>6 DEF SendTry, IInv, TypeOK
  <2>2. ReaderInv' /\ CleanInv' /\ ReturnInv'
    BY <1>6 DEF SendTry, IInv, TypeOK, ReaderInv, CleanInv, Clean, ReturnInv
  <2>3. QED
    BY <2>1, <2>2 DEF IInv
<1>7. CASE Apply
  <2>1. TypeOK'
    BY <1>7 DEF Apply, IInv, TypeOK, CleanInv
  <2>2. ReaderInv' /\ CleanInv' /\ ReturnInv'
    BY <1>7 DEF Apply, IInv, TypeOK, ReaderInv, CleanInv, Clean, ReturnInv, PutErr
  <2>3. QED
    BY <2>1, <2>2 DEF IInv
<1>8. CASE CommitAnswered
  <2>1. TypeOK'
    BY <1>8 DEF CommitAnswered, Fails, IInv, TypeOK
  <2>2. ReaderInv' /\ CleanInv' /\ ReturnInv'
    BY <1>8 DEF CommitAnswered, Fails, IInv, ReaderInv, CleanInv, Clean, ReturnInv
  <2>3. QED
    BY <2>1, <2>2 DEF IInv
<1>9. CASE PutReturn
  <2>1. PutErr' = PutErr /\ PutErr \in RequestErrs \cup BodyErrs \cup {"nil"}
    BY <1>9 DEF PutReturn, PutErr, IInv, TypeOK
  <2>2. TypeOK'
    BY <1>9, <2>1 DEF PutReturn, IInv, TypeOK
  <2>3. ReaderInv' /\ CleanInv' /\ ReturnInv'
    BY <1>9, <2>1 DEF PutReturn, IInv, ReaderInv, CleanInv, Clean, ReturnInv
  <2>4. QED
    BY <2>2, <2>3 DEF IInv
<1>10. CASE Cancel
  <2>1. TypeOK'
    BY <1>10 DEF Cancel, IInv, TypeOK
  <2>2. ReaderInv' /\ CleanInv' /\ ReturnInv'
    BY <1>10 DEF Cancel, IInv, ReaderInv, CleanInv, Clean, ReturnInv, PutErr
  <2>3. QED
    BY <2>1, <2>2 DEF IInv
<1>11. QED
  BY <1>1, <1>2, <1>3, <1>4, <1>5, <1>6, <1>7, <1>8, <1>9, <1>10 DEF Next

-----------------------------------------------------------------------------
(* The theorems.                                                           *)

\* The invariant holds of every state of a Put, its upload and the service.
THEOREM Invariance == Spec => []IInv
BY InitInv, StepInv, PTL DEF Spec

\* The values of the trackedReader, the upload and the service are of their
\* types: in particular what is read never passes the declared size.
THEOREM TypeCorrect == Spec => []TypeOK
<1>1. IInv => TypeOK
  BY DEF IInv
<1>2. QED
  BY Invariance, <1>1, PTL

\* Whatever Put writes, and whenever the service applies it, is the whole body
\* of the declared size; success means that it was written.
THEOREM WritesWholeBody == Spec => []BlobIsWholeBody
<1>1. IInv => BlobIsWholeBody
  <2> SUFFICES ASSUME IInv PROVE BlobIsWholeBody
    OBVIOUS
  <2>1. applied > 0 => taken = length /\ ending = "eof" /\ size \in {0, length}
    BY DEF IInv, TypeOK, ReaderInv, CleanInv, Clean
  <2>2. ASSUME result.err = "nil"
        PROVE  pc = "done" /\ uploadErr = "nil" /\ PutErr = "nil"
    BY <2>2 DEF IInv, ReturnInv, PutErr
  <2>3. result.err = "nil" => applied > 0 /\ result.size = length
    BY <2>1, <2>2 DEF IInv, ReturnInv, ReaderInv
  <2>4. QED
    BY <2>1, <2>3 DEF BlobIsWholeBody
<1>2. QED
  BY Invariance, <1>1, PTL

\* A body that failed writes nothing, and its failure is what Put reports.
THEOREM BodyFailuresReported == Spec => []BodyFailureReported
<1>1. IInv => BodyFailureReported
  <2> SUFFICES ASSUME IInv, err # "nil" PROVE applied = 0 /\ (pc = "done" => result.err = err)
    BY DEF BodyFailureReported
  <2>1. applied = 0
    BY DEF IInv, TypeOK, CleanInv
  <2>2. pc = "done" => result.err = err
    BY <2>1 DEF IInv, ReturnInv, PutErr
  <2>3. QED
    BY <2>1, <2>2
<1>2. QED
  BY Invariance, <1>1, PTL

-----------------------------------------------------------------------------
(* The contract.                                                           *)

\* A step of the stream reads for Client.Put, or meets its failure.
LEMMA StreamReadKeeps ==
    ASSUME IInv, StreamRead
    PROVE  [Contract!Next]_(Contract!vars)
<1> USE BlockSizeAssumption
<1>1. PICK k \in 0 .. BlockSize, e \in ReadErrs : Read(BlockSize - fill, k, e)
  BY DEF StreamRead
<1>2. BlockSize - fill \in Nat /\ TypeOK /\ ReaderInv
  BY DEF IInv, TypeOK
<1>3. /\ n' \in n .. length /\ (size > 0 => n' <= size)
      /\ err' \in BodyErrs \cup {"nil"}
  BY <1>1, <1>2, ReadEffect DEF TypeOK
<1>4. /\ pc = "read"
      /\ UNCHANGED <<length, ending, size, result, tries, applied>>
  BY DEF StreamRead, given, service
<1>5. result.err = "none"
  BY <1>4 DEF IInv, ReturnInv
<1>6. CASE err # "nil"
  BY <1>1, <1>4, <1>6 DEF Read, reader, Contract!vars, Contract!given
<1>7. CASE err = "nil" /\ err' = "nil"
  <2>1. Contract!Read
    BY <1>3, <1>4, <1>5, <1>7 DEF Contract!Read, Contract!Running, Contract!given
  <2>2. QED
    BY <2>1 DEF Contract!Next
<1>8. CASE err = "nil" /\ err' # "nil"
  <2>1. Contract!Shows(n', err')
    BY <1>1, <1>2, <1>8, ReadShows
  <2>2. Contract!ReadFails
    BY <1>3, <1>4, <1>5, <1>8, <2>1
       DEF Contract!ReadFails, Contract!Running, Contract!given, BodyErrs,
           Contract!BodyErrs
  <2>3. QED
    BY <2>2 DEF Contract!Next
<1>9. QED
  BY <1>6, <1>7, <1>8

\* Every step is one of Client.Put's, or none.
LEMMA StepKeeps ==
    ASSUME IInv, [Next]_vars
    PROVE  [Contract!Next]_(Contract!vars)
<1> USE DEF given, reader, staging, service, Contract!vars, Contract!given
<1>1. CASE UNCHANGED vars
  BY <1>1 DEF vars
<1>2. CASE StreamRead
  BY <1>2, StreamReadKeeps
<1>3. CASE BlockStaged \/ BlockFails \/ AllStaged \/ CommitAnswered \/ Cancel
  BY <1>3 DEF BlockStaged, BlockFails, AllStaged, CommitAnswered, Cancel
<1>4. CASE SendTry
  <2>1. result.err = "none" /\ Contract!Whole
    BY <1>4 DEF SendTry, IInv, ReturnInv, CleanInv, Clean, Contract!Whole
  <2>2. Contract!Send
    BY <1>4, <2>1 DEF SendTry, Contract!Send, Contract!Running
  <2>3. QED
    BY <2>2 DEF Contract!Next
<1>5. CASE Apply
  BY <1>5 DEF Apply, Contract!Next, Contract!Write
<1>6. CASE PutReturn
  <2>1. result.err = "none" /\ result' = [err |-> PutErr, size |-> IF PutErr = "nil" THEN n ELSE 0]
    BY <1>6 DEF PutReturn, IInv, ReturnInv
  <2>2. CASE PutErr = "nil"
    <3>1. applied > 0 /\ n = length
      BY <1>6, <2>2 DEF PutReturn, PutErr, IInv, TypeOK, ReturnInv, CleanInv, Clean
    <3>2. Contract!PutSucceeds
      BY <1>6, <2>1, <2>2, <3>1 DEF PutReturn, Contract!PutSucceeds, Contract!Running
    <3>3. QED
      BY <3>2 DEF Contract!Next
  <2>3. CASE PutErr # "nil"
    <3>1. IF err # "nil" THEN PutErr = err ELSE PutErr \in RequestErrs
      BY <1>6, <2>3 DEF PutReturn, PutErr, IInv, TypeOK, CleanInv, ReturnInv
    <3>2. Contract!PutFails
      BY <1>6, <2>1, <2>3, <3>1
         DEF PutReturn, RequestErrs, Contract!PutFails, Contract!Fail,
             Contract!Running
    <3>3. QED
      BY <3>2 DEF Contract!Next
  <2>4. QED
    BY <2>2, <2>3
<1>7. QED
  BY <1>1, <1>2, <1>3, <1>4, <1>5, <1>6 DEF Next

\* The Azure provider's Put implements the contract of Client.Put, for every
\* body, block size and concurrency, with requests lost or applied late
\* (client.go:106-113, azureblob/objects.go:26-58).
THEOREM AzureKeepsContract == Spec => KeepsContract
<1>1. Init => Contract!Init
  BY LengthsAssumption, SizesAssumption DEF Init, Contract!Init
<1>2. QED
  BY Invariance, <1>1, StepKeeps, PTL DEF Spec, KeepsContract, Contract!Spec
=============================================================================
