------------------------- MODULE ResumingBodyProofs -------------------------
(***************************************************************************)
(* Proofs about ResumingBody, for an object of any length, any number of   *)
(* retries and any number of resumptions.                                  *)
(***************************************************************************)
EXTENDS ResumingBody, TLAPS

\* Every body serves the version the Get began on, and the one that is read
\* stands at the offset.
PositionInv ==
    /\ faithful
    /\ \A b \in Bodies : version[b] = "first"
    /\ current # None => at[current] = offset
    /\ pc \in {"resume", "set"} => current = None
    /\ pc = "set" => body # None /\ at[body] = offset
    /\ pc \in {"read", "close", "drop"} => body = current /\ body # None

\* Which bodies are open while a Read is under way.
OpenInv ==
    /\ pc = "set" => Bodies \ shutBodies \subseteq {body}
    /\ pc # "set" => Bodies \ shutBodies \subseteq {current}
    /\ pc = "drop" => body \in shutBodies
    /\ closing = "open" <=> ~closed
    /\ closing = "done" /\ current # None => current \in shutBodies

\* A failure returned is the one kept, and a Read that finds one kept goes no
\* further than the top of its loop; a body that was dropped has left one.
FailureInv ==
    /\ lastErr \in Failures \cup {"nil"}
    /\ err \in Failures \cup {"nil"}
    /\ pc \in {"close", "drop"} => fail \in Failures
    /\ err # "nil" => pc \in {"idle", "loop"}
    /\ result \in Failures => err = result
    /\ current = None => lastErr \in Failures

\* A failed checksum is the first body's, at its last byte, and no other body is
\* opened or read after it.
ChecksumInv ==
    /\ ended # {} => offset = Length
    /\ current # None => ended \subseteq {current}
    /\ pc = "set" => ended = {}
    /\ result = "eof" => ended # {}
    /\ pc \in {"close", "drop"} /\ fail = "checksum" =>
            offset = Length /\ ended = {}
    /\ lastErr = "checksum" =>
            /\ offset = Length /\ ended = {} /\ current = None
            /\ pc \notin {"set", "read", "close", "drop"}
            /\ sizeKnown => pc # "resume"

\* The end is reported after the last byte.
EndIsWhole == result = "eof" => offset = Length

\* The inductive invariant.
IInv ==
    /\ TypeOK /\ PositionInv /\ OpenInv /\ FailureInv /\ ChecksumInv
    /\ EndIsWhole

\* nil is the number of no body.
LEMMA NilIsNoBody == None \notin Bodies
BY DEF None, Bodies

\* The body Get answers with satisfies the invariant.
LEMMA InitInv == Init => IInv
<1> SUFFICES ASSUME Init PROVE IInv
  OBVIOUS
<1> USE LengthAssumption, RetriesAssumption, MaxBodiesAssumption
<1>1. 1 \in Bodies /\ 0 \in 0 .. Length /\ 0 \in 0 .. Retries
  BY DEF Bodies
<1>2. TypeOK
  BY <1>1 DEF Init, TypeOK, Errs, Failures, None
<1>3. PositionInv /\ OpenInv
  BY <1>1 DEF Init, PositionInv, OpenInv, None, Bodies
<1>4. FailureInv /\ ChecksumInv /\ EndIsWhole
  BY DEF Init, FailureInv, ChecksumInv, EndIsWhole, Failures, None
<1>5. QED
  BY <1>2, <1>3, <1>4 DEF IInv

\* Every step of Read, of Close and of the world keeps the invariant.
LEMMA StepInv ==
    ASSUME IInv, [Next]_vars
    PROVE  IInv'
<1> USE LengthAssumption, RetriesAssumption, MaxBodiesAssumption
    DEF IInv, TypeOK, PositionInv, OpenInv, FailureInv, ChecksumInv,
        EndIsWhole, Errs, Failures, None, Bodies, service, answer0, answers,
        shared, local
<1>0. 0 \in 0 .. Length /\ 0 \in 0 .. Retries
  OBVIOUS
<1>1. CASE UNCHANGED vars
  BY <1>0, <1>1 DEF vars
<1>2. CASE ReadCall
  BY <1>0, <1>2 DEF ReadCall, Step
<1>3. CASE Loop
  <2>1. CASE closed /\ Return("Closed")
    BY <1>0, <1>3, <2>1 DEF Loop, Return
  <2>2. CASE ~closed /\ err # "nil" /\ Return(err)
    BY <1>0, <1>3, <2>2 DEF Loop, Return
  <2>3. CASE ~closed /\ err = "nil" /\ Step("current") /\ UNCHANGED body
    BY <1>3, <2>3 DEF Loop, Step
  <2>4. QED
    BY <1>3, <2>1, <2>2, <2>3 DEF Loop
<1>4. CASE Current
  BY <1>0, <1>4, SMTT(30) DEF Current, TakeOrResume, resumable, Step, Return
<1>5. CASE ResumeOpens
  BY <1>0, <1>5 DEF ResumeOpens, OpenAt, Step
<1>6. CASE ResumeFails
  BY <1>0, <1>6 DEF ResumeFails, ResumeErr, Return
<1>7. CASE SetCurrent
  BY <1>0, <1>7 DEF SetCurrent, Step
<1>8. CASE BodyRead
  <2>1. PICK n \in 0 .. Length, e \in Errs :
            /\ BodyAnswer(n, e)
            /\ offset' = offset + n
            /\ at' = [at EXCEPT ![body] = @ + n]
            /\ ended' = IF e = "eof" THEN ended \cup {body} ELSE ended
            /\ faithful' = (/\ faithful
                            /\ n > 0 => /\ version[body] = "first"
                                        /\ at[body] = offset)
            /\ IF e \in {"nil", "eof"}
               THEN Return(e)
               ELSE /\ pc' = "close"
                    /\ count' = n
                    /\ fail' = e
                    /\ UNCHANGED <<resumes, body, result>>
    BY <1>8 DEF BodyRead
  <2>2. /\ pc = "read"
        /\ UNCHANGED <<service, answer0, resumed, version, shutBodies, shared,
                       lastErr, err>>
    BY <1>8 DEF BodyRead
  <2>3. /\ body \in Bodies /\ at[body] = offset
        /\ offset + n \in 0 .. Length
    BY <2>1, <2>2 DEF BodyAnswer
  <2>4. e \in {"nil", "eof"} \/ e \in Failures
    BY <2>1 DEF BodyAnswer
  <2>5. CASE e \in {"nil", "eof"}
    <3>1. /\ pc' = "idle" /\ result' = e /\ resumes' = 0 /\ body' = 0
          /\ count' = 0 /\ fail' = "nil"
      BY <2>1, <2>5 DEF Return
    <3>2. TypeOK'
      BY <1>0, <2>1, <2>2, <2>3, <3>1
    <3>3. PositionInv' /\ OpenInv' /\ FailureInv'
      BY <2>1, <2>2, <2>3, <2>5, <3>1
    <3>4. e = "eof" => offset + n = Length /\ ended' = ended \cup {body}
      BY <2>1, <2>3 DEF BodyAnswer
    <3>5. EndIsWhole'
      BY <2>1, <3>1, <3>4
    <3>6. /\ ended' # {} => offset' = Length
          /\ ended' \subseteq {current'}
          /\ lastErr' # "checksum"
      BY <2>1, <2>2, <2>3, <3>4
    <3>7. ChecksumInv'
      BY <3>1, <3>4, <3>6
    <3>8. QED
      BY <3>2, <3>3, <3>5, <3>7
  <2>6. CASE e \in Failures
    BY <2>1, <2>2, <2>3, <2>6, SMTT(30) DEF BodyAnswer
  <2>7. QED
    BY <2>4, <2>5, <2>6
<1>9. CASE CloseBroken
  BY <1>0, <1>9 DEF CloseBroken, Step
<1>10. CASE Drop
  BY <1>0, <1>10 DEF Drop, Step, Return
<1>11. CASE CloseMark
  BY <1>0, <1>11 DEF CloseMark
<1>12. CASE CloseCurrent
  BY <1>0, <1>12 DEF CloseCurrent
<1>13. CASE ObjectChanges
  BY <1>0, <1>13 DEF ObjectChanges
<1>14. CASE CtxDone
  BY <1>0, <1>14 DEF CtxDone
<1>15. QED
  BY <1>1, <1>2, <1>3, <1>4, <1>5, <1>6, <1>7, <1>8, <1>9,
     <1>10, <1>11, <1>12, <1>13, <1>14 DEF Next

\* The invariant holds in every state of a Get's body.
THEOREM Invariance == Spec => []IInv
BY InitInv, StepInv, PTL DEF Spec

\* A Get delivers a prefix of one version of the object, without a gap or a
\* repeat, and reports the end only after the whole of it, however many answers
\* break and whoever replaces the object (s3/objects.go:254-258, 350-353).
THEOREM OneVersion == Spec => []OneVersionPrefix
<1>1. IInv => OneVersionPrefix
  BY DEF IInv, PositionInv, EndIsWhole, OneVersionPrefix
<1>2. QED
  BY <1>1, Invariance, PTL

\* No answer's body is left open, although Close may run while a Read opens one
\* (s3/objects.go:284-286, 333-334).
THEOREM BodiesAreClosed == Spec => []NoBodyLeaks
<1>1. ASSUME IInv, pc = "idle" PROVE Bodies \ shutBodies \subseteq {current}
  BY <1>1 DEF IInv, OpenInv
<1>2. ASSUME IInv, pc = "idle", closing = "done" PROVE shutBodies = Bodies
  BY <1>1, <1>2, NilIsNoBody DEF IInv, TypeOK, OpenInv
<1>3. QED
  BY <1>1, <1>2, Invariance, PTL DEF NoBodyLeaks

\* A failed checksum is not followed by a clean end (s3/objects.go:263-265).
THEOREM ChecksumsStand == Spec => []ChecksumFailureStands
<1>1. IInv => ChecksumFailureStands
  BY DEF IInv, ChecksumInv, ChecksumFailureStands
<1>2. QED
  BY <1>1, Invariance, PTL

\* A failure a Read returned is what every later Read returns, until Close
\* (s3/objects.go:265-266).
THEOREM FailuresStick == Spec => FailureSticks
<1>1. ASSUME IInv, [Next]_vars, result \in Failures
      PROVE  result' \in {result, "Closed"}
  <2> USE <1>1 DEF IInv, FailureInv, Failures
  <2>1. pc \in {"idle", "loop"} /\ err = result
    OBVIOUS
  <2>2. CASE Loop
    BY <2>1, <2>2 DEF Loop, Step, Return
  <2>3. CASE ReadCall
    BY <2>3 DEF ReadCall, Step
  <2>4. CASE CloseMark \/ CloseCurrent \/ ObjectChanges \/ CtxDone
    BY <2>4 DEF CloseMark, CloseCurrent, ObjectChanges, CtxDone
  <2>5. CASE UNCHANGED vars
    BY <2>5 DEF vars
  <2>6. ~(Current \/ ResumeOpens \/ ResumeFails \/ SetCurrent \/ BodyRead
            \/ CloseBroken \/ Drop)
    BY <2>1 DEF Current, TakeOrResume, ResumeOpens, OpenAt, ResumeFails,
                SetCurrent, BodyRead, CloseBroken, Drop
  <2>7. QED
    BY <2>2, <2>3, <2>4, <2>5, <2>6 DEF Next
<1>2. QED
  BY <1>1, Invariance, PTL DEF Spec, FailureSticks

-----------------------------------------------------------------------------
(* The safety half of ReadingEnds.                                         *)

\* A Read that returns no error has bytes to deliver, from its last read of an
\* answer or from the break that it ends with; a resumption is one of at most
\* Retries of its Read.
ReadMoves ==
    /\ pc # "idle" /\ pc' = "idle" /\ result' = "nil" =>
          offset' > offset \/ count > 0
    /\ pc # "resume" /\ pc' = "resume" =>
          resumes' = resumes + 1 /\ resumes' <= Retries

\* Whatever the service does, no Read returns neither a byte nor an error, and
\* none resumes more than Retries times; when it does resume, no answer is open,
\* so that any number of them may follow each other (s3/objects.go:258-260,
\* 299-305, 316-321).
THEOREM ReadsMoveOn ==
    Spec => [][ReadMoves]_vars /\ [](pc = "resume" => shutBodies = Bodies)
<1>1. ASSUME IInv, [Next]_vars PROVE ReadMoves \/ UNCHANGED vars
  <2> USE <1>1, LengthAssumption, RetriesAssumption
      DEF IInv, TypeOK, ReadMoves, Step, Return, local
  <2>1. CASE Loop
    BY <2>1 DEF Loop
  <2>2. CASE Current
    BY <2>2 DEF Current, TakeOrResume, FailureInv, Failures
  <2>3. CASE ResumeOpens
    BY <2>3 DEF ResumeOpens, OpenAt
  <2>4. CASE ResumeFails
    BY <2>4 DEF ResumeFails, Failures
  <2>5. CASE BodyRead
    BY <2>5 DEF BodyRead, BodyAnswer
  <2>6. CASE Drop
    BY <2>6 DEF Drop
  <2>7. CASE ReadCall \/ SetCurrent \/ CloseBroken
    BY <2>7 DEF ReadCall, SetCurrent, CloseBroken
  <2>8. CASE CloseMark \/ CloseCurrent \/ ObjectChanges \/ CtxDone
    BY <2>8 DEF CloseMark, CloseCurrent, ObjectChanges, CtxDone
  <2>9. QED
    BY <2>1, <2>2, <2>3, <2>4, <2>5, <2>6, <2>7, <2>8 DEF Next
<1>2. ASSUME IInv, pc = "resume" PROVE shutBodies = Bodies
  BY <1>2, NilIsNoBody DEF IInv, TypeOK, PositionInv, OpenInv
<1>3. QED
  BY <1>1, <1>2, Invariance, PTL DEF Spec
=============================================================================
