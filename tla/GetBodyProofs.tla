--------------------------- MODULE GetBodyProofs ---------------------------
(***************************************************************************)
(* Proofs about IdleReader, for any bound on the callbacks outstanding,    *)
(* and about GetBody, the idleReader around a resumingBody, from those and *)
(* the proofs about ResumingBody.                                          *)
(***************************************************************************)
EXTENDS GetBody, TLAPS

-----------------------------------------------------------------------------
(* The idleReader.                                                         *)

\* The timer's expiry during a Read leaves it stopped for the rest of the Read,
\* so that the Read's Stop returns false.
ExpiryInv ==
    /\ pending + cancelling <= MaxCallbacks
    /\ pc = "reset" => ~ownExpired
    /\ pc \in {"reading", "stop"} /\ ownExpired => timer = "stopped"

\* A Read that was cut off still is when it looks at fired, and before the body
\* answers there is nothing to report.
CutInv ==
    /\ cut => ownExpired /\ fired
    /\ pc \in {"new", "reset", "reading"} => ~cut /\ answer = "none"

\* A stall is reported by a Read that found fired set, and nothing follows it.
FinalInv == result = "Unavailable" => fired /\ pc = "idle"

\* Close's order.
CloseInv ==
    /\ closing \in {"body", "closed"} => reqErr # "none"
    /\ bodyClosed => closing = "closed"

\* The inductive invariant.
IInv ==
    /\ TypeOK /\ TimerOnlyDuringRead /\ ExpiryInv /\ CutInv /\ FinalInv
    /\ CloseInv /\ StallReported

\* A reader under construction satisfies the invariant.
LEMMA InitInv == Init => IInv
<1> SUFFICES ASSUME Init PROVE IInv
  OBVIOUS
<1>1. TypeOK
  <2>1. 0 \in 0 .. MaxCallbacks
    BY MaxCallbacksAssumption
  <2>2. QED
    BY <2>1 DEF Init, TypeOK
<1>2. ExpiryInv /\ CutInv /\ FinalInv /\ CloseInv
  BY MaxCallbacksAssumption DEF Init, ExpiryInv, CutInv, FinalInv, CloseInv
<1>3. TimerOnlyDuringRead /\ StallReported
  BY DEF Init, TimerOnlyDuringRead, StallReported
<1>4. QED
  BY <1>1, <1>2, <1>3 DEF IInv

\* Every step of the reader, the timer and Close keeps the invariant.
LEMMA StepInv ==
    ASSUME IInv, [Next]_vars
    PROVE  IInv'
<1> USE MaxCallbacksAssumption
    DEF IInv, TypeOK, BodyAnswers, TimerOnlyDuringRead, ExpiryInv, CutInv,
        FinalInv, CloseInv, StallReported, clock, request, reader
<1>1. CASE UNCHANGED vars
  BY <1>1 DEF vars
<1>2. CASE Constructed
  BY <1>2 DEF Constructed
<1>3. CASE ReadCall
  BY <1>3 DEF ReadCall, Return
<1>4. CASE ReadReset
  BY <1>4 DEF ReadReset
<1>5. CASE BodyReturn
  BY <1>5 DEF BodyReturn
<1>6. CASE ReadStop
  BY <1>6 DEF ReadStop, Return
<1>7. CASE ReadEnd
  BY <1>7 DEF ReadEnd, Return
<1>8. CASE Expire
  BY <1>8 DEF Expire
<1>9. CASE CallbackFire
  BY <1>9 DEF CallbackFire
<1>10. CASE CallbackCancel
  BY <1>10 DEF CallbackCancel, cancel
<1>11. CASE CloseStop
  BY <1>11 DEF CloseStop
<1>12. CASE CloseCancel
  BY <1>12 DEF CloseCancel, cancel
<1>13. CASE CloseBody
  BY <1>13 DEF CloseBody
<1>14. CASE CallerCtxDone
  BY <1>14 DEF CallerCtxDone
<1>15. QED
  BY <1>1, <1>2, <1>3, <1>4, <1>5, <1>6, <1>7, <1>8, <1>9, <1>10, <1>11,
     <1>12, <1>13, <1>14 DEF Next

\* The invariant holds of every state the three parties reach.
THEOREM Invariance == Spec => []IInv
BY InitInv, StepInv, PTL DEF Spec

\* Type correctness: no more callbacks are counted than were started, and a
\* Read returns only what the body answered or the stall.
THEOREM TypeCorrect == Spec => []TypeOK
<1>1. IInv => TypeOK
  BY DEF IInv
<1>2. QED
  BY Invariance, <1>1, PTL

\* Outside newIdleReader the timer runs only while a Read is in progress.
THEOREM SlowReaderSafe == Spec => []TimerOnlyDuringRead
<1>1. IInv => TimerOnlyDuringRead
  BY DEF IInv
<1>2. QED
  BY Invariance, <1>1, PTL

\* A Read cut off by its own timer reports the stall, and one that reached the
\* body's end reports that.
THEOREM ReadsReportTruthfully == Spec => []StallReported
<1>1. IInv => StallReported
  BY DEF IInv
<1>2. QED
  BY Invariance, <1>1, PTL

\* Close closes the body only under a request that is done.
THEOREM CloseOrder == Spec => []CancelledBeforeClosed
<1>1. IInv => CancelledBeforeClosed
  BY DEF IInv, CloseInv, CancelledBeforeClosed
<1>2. QED
  BY Invariance, <1>1, PTL

\* After a stall no Read reports anything else.
THEOREM StallsAreFinal == Spec => StallIsFinal
<1>1. ASSUME IInv, [Next]_vars, result = "Unavailable"
      PROVE  result' = "Unavailable"
  <2>1. fired /\ pc = "idle"
    BY <1>1 DEF IInv, FinalInv
  <2>2. QED
    BY <1>1, <2>1
       DEF Next, vars, reader, Constructed, ReadCall, Return, ReadReset,
           BodyReturn, ReadStop, ReadEnd, Expire, CallbackFire,
           CallbackCancel, CloseStop, CloseCancel, CloseBody, CallerCtxDone
<1>2. QED
  BY Invariance, <1>1, PTL DEF Spec, StallIsFinal

-----------------------------------------------------------------------------
(* The two together.                                                       *)

\* The resumingBody of the composition, with its proofs.
BP == INSTANCE ResumingBodyProofs
         WITH ctxDone <- RequestDone, pc <- bpc, result <- bresult,
              closing <- bclosing

\* The body is read while the idleReader waits for it, and closed when it was
\* told to; an end it was told is the object's.
LinkInv ==
    /\ pc = "reading" <=> bpc # "idle"
    /\ closing = "closed" <=> bclosing # "open"
    /\ bodyClosed <=> closing = "closed"
    /\ answer = "eof" \/ result = "eof" => offset = Length

\* The body fails with the context's error only once the request is done, and
\* with that of a closed body only once it is closed.
CauseInv ==
    /\ current # BP!None /\ current \in shutBodies => closed \/ bpc = "drop"
    /\ bpc = "set" => body \notin shutBodies
    /\ \A e \in {err, lastErr, fail} :
          /\ e = "ctx" => RequestDone
          /\ e = "bodyClosed" => closed

GetInv == IInv /\ BP!IInv /\ LinkInv /\ CauseInv

\* The two instances of ResumingBody are one.
LEMMA SameBody ==
    /\ B!Init <=> BP!Init
    /\ B!ReadCall <=> BP!ReadCall
    /\ B!Loop <=> BP!Loop
    /\ B!Current <=> BP!Current
    /\ B!ResumeOpens <=> BP!ResumeOpens
    /\ B!ResumeFails <=> BP!ResumeFails
    /\ B!SetCurrent <=> BP!SetCurrent
    /\ B!BodyRead <=> BP!BodyRead
    /\ B!CloseBroken <=> BP!CloseBroken
    /\ B!Drop <=> BP!Drop
    /\ B!CloseMark <=> BP!CloseMark
    /\ B!CloseCurrent <=> BP!CloseCurrent
    /\ B!ObjectChanges <=> BP!ObjectChanges
<1> USE DEF B!service, BP!service, B!answer0, BP!answer0, B!answers, BP!answers,
            B!shared, BP!shared, B!local, BP!local, B!Return, BP!Return,
            B!Step, BP!Step, B!None, BP!None, B!Bodies, BP!Bodies
<1>1. B!Init <=> BP!Init
  BY DEF B!Init, BP!Init
<1>2. B!ReadCall <=> BP!ReadCall
  BY DEF B!ReadCall, BP!ReadCall
<1>3. B!Loop <=> BP!Loop
  BY DEF B!Loop, BP!Loop
<1>4. B!Current <=> BP!Current
  BY DEF B!Current, BP!Current, B!TakeOrResume, BP!TakeOrResume, B!resumable,
         BP!resumable
<1>5. B!ResumeOpens <=> BP!ResumeOpens
  BY DEF B!ResumeOpens, BP!ResumeOpens, B!OpenAt, BP!OpenAt
<1>6. B!ResumeFails <=> BP!ResumeFails
  BY DEF B!ResumeFails, BP!ResumeFails, B!ResumeErr, BP!ResumeErr, B!Failures,
         BP!Failures
<1>7. B!SetCurrent <=> BP!SetCurrent
  BY DEF B!SetCurrent, BP!SetCurrent
<1>8. B!BodyRead <=> BP!BodyRead
  BY DEF B!BodyRead, BP!BodyRead, B!BodyAnswer, BP!BodyAnswer, B!Errs, BP!Errs,
         B!Failures, BP!Failures
<1>9. B!CloseBroken <=> BP!CloseBroken
  BY DEF B!CloseBroken, BP!CloseBroken
<1>10. B!Drop <=> BP!Drop
  BY DEF B!Drop, BP!Drop
<1>11. B!CloseMark <=> BP!CloseMark
  BY DEF B!CloseMark, BP!CloseMark
<1>12. B!CloseCurrent <=> BP!CloseCurrent
  BY DEF B!CloseCurrent, BP!CloseCurrent
<1>13. B!ObjectChanges <=> BP!ObjectChanges
  BY DEF B!ObjectChanges, BP!ObjectChanges
<1>14. QED
  BY <1>1, <1>2, <1>3, <1>4, <1>5, <1>6, <1>7, <1>8, <1>9, <1>10, <1>11,
     <1>12, <1>13

\* The idleReader's own steps leave the body alone, and never take back the end
\* of the request, which is the end of the body's context.
LEMMA IdleStepOnBody ==
    ASSUME IdleStep
    PROVE  /\ Next /\ UNCHANGED bvars
           /\ RequestDone => RequestDone'
           /\ BP!CtxDone \/ UNCHANGED BP!vars
<1>1. /\ Next
      /\ reqErr' = reqErr \/ (reqErr = "none" /\ reqErr' # "none")
  BY DEF IdleStep, Next, Constructed, ReadCall, ReadStop, ReadEnd, Expire,
         CallbackFire, CallbackCancel, CloseStop, CloseCancel, CallerCtxDone,
         cancel, request
<1>2. UNCHANGED bvars
  BY DEF IdleStep
<1>3. /\ UNCHANGED <<object, hasETag, sizeKnown, resumed, version, at, shutBodies,
                     ended, current, closed, bclosing, offset, lastErr, err>>
      /\ UNCHANGED <<bpc, resumes, body, count, fail, bresult, faithful>>
  BY <1>2 DEF bvars
<1>4. CASE reqErr' = reqErr
  BY <1>1, <1>2, <1>3, <1>4 DEF BP!vars, BP!service, BP!answer0, BP!answers,
     BP!shared, BP!local, RequestDone
<1>5. CASE reqErr = "none" /\ reqErr' # "none"
  <2>1. ~RequestDone /\ RequestDone' = TRUE
    BY <1>5, Zenon DEF RequestDone
  <2>2. BP!CtxDone
    BY <1>3, <2>1 DEF BP!CtxDone, BP!answer0, BP!answers, BP!shared, BP!local
  <2>3. QED
    BY <1>1, <1>2, <2>1, <2>2
<1>6. QED
  BY <1>1, <1>4, <1>5

\* A step of the body's Read, and what the idleReader makes of it.
LEMMA BodySteps ==
    ASSUME BodyRuns \/ BodyWaits
    PROVE  /\ \/ BP!Loop \/ BP!Current \/ BP!ResumeOpens \/ BP!ResumeFails
              \/ BP!SetCurrent \/ BP!BodyRead \/ BP!CloseBroken \/ BP!Drop
           /\ \/ UNCHANGED vars /\ bpc' # "idle"
              \/ BodyReturn /\ bpc' = "idle" /\ answer' = Seen(bresult')
BY SameBody DEF BodyRuns, BodyWaits, BodyStep

\* Every step of the composition is one of the idleReader, or leaves it alone,
\* and one of the resumingBody, or leaves it alone.
LEMMA GetStep ==
    ASSUME [GetNext]_gvars
    PROVE  [Next]_vars /\ [BP!Next]_(BP!vars)
<1>1. CASE IdleStep
  BY <1>1, IdleStepOnBody DEF BP!Next
<1>2. CASE ReadBegins
  BY <1>2, SameBody DEF ReadBegins, Next, BP!Next
<1>3. CASE BodyRuns \/ BodyWaits
  BY <1>3, BodySteps DEF Next, BP!Next
<1>4. CASE CloseProvider
  BY <1>4, SameBody DEF CloseProvider, Next, BP!Next
<1>5. CASE BodyClosesCurrent
  BY <1>5, SameBody DEF BodyClosesCurrent, BP!Next
<1>6. CASE ObjectChanges
  BY <1>6, SameBody DEF ObjectChanges, BP!Next
<1>7. CASE UNCHANGED gvars
  BY <1>7 DEF gvars, vars, bvars, BP!vars, BP!service, BP!answer0, BP!answers,
     BP!shared, BP!local, RequestDone
<1>8. QED
  BY <1>1, <1>2, <1>3, <1>4, <1>5, <1>6, <1>7 DEF GetNext

\* Nothing is delivered past the object's end.
LEMMA EndStays ==
    ASSUME BP!IInv, BP!IInv', offset = Length, [BP!Next]_(BP!vars)
    PROVE  offset' = Length
<1>0. offset' \in 0 .. Length
  BY DEF BP!IInv, BP!TypeOK
<1>1. CASE BP!BodyRead
  <2>1. PICK n \in 0 .. Length : offset' = offset + n
    BY <1>1 DEF BP!BodyRead
  <2>2. QED
    BY <1>0, <2>1, BodyAssumption
<1>2. CASE ~BP!BodyRead
  BY <1>2 DEF BP!Next, BP!vars, BP!ReadCall, BP!Loop, BP!Current, BP!TakeOrResume,
     BP!ResumeOpens, BP!OpenAt, BP!ResumeFails, BP!SetCurrent, BP!CloseBroken,
     BP!Drop, BP!CloseMark, BP!CloseCurrent, BP!ObjectChanges, BP!CtxDone
<1>3. QED
  BY <1>1, <1>2

\* What a step of the body's Read does not touch, and where it can be taken.
LEMMA BodyKeeps ==
    ASSUME \/ BP!Loop \/ BP!Current \/ BP!ResumeOpens \/ BP!ResumeFails
           \/ BP!SetCurrent \/ BP!BodyRead \/ BP!CloseBroken \/ BP!Drop
    PROVE  bpc # "idle" /\ UNCHANGED <<closed, bclosing>>
           /\ RequestDone' = RequestDone
BY DEF BP!Loop, BP!Current, BP!TakeOrResume, BP!ResumeOpens, BP!OpenAt,
   BP!ResumeFails, BP!SetCurrent, BP!BodyRead, BP!CloseBroken, BP!Drop,
   BP!shared, BP!service

\* The idleReader and its body stay in step.
LEMMA LinkStep ==
    ASSUME GetInv, [GetNext]_gvars, BP!IInv'
    PROVE  LinkInv'
<1>0. /\ IInv /\ BP!IInv /\ LinkInv /\ TypeOK
      /\ [BP!Next]_(BP!vars)
      /\ offset = Length => offset' = Length
  BY GetStep, EndStays DEF GetInv, IInv
<1>1. CASE IdleStep
  <2>1. UNCHANGED <<bpc, bclosing, offset>>
    BY <1>1, IdleStepOnBody DEF bvars
  <2>2. /\ pc' = "reading" <=> pc = "reading"
        /\ closing' = "closed" <=> closing = "closed"
        /\ bodyClosed' = bodyClosed
        /\ answer' = "eof" \/ result' = "eof" => answer = "eof" \/ result = "eof"
    BY <1>1 DEF IdleStep, Constructed, ReadCall, ReadStop, ReadEnd, Return,
       Expire, CallbackFire, CallbackCancel, CloseStop, CloseCancel,
       CallerCtxDone, cancel, request, reader
  <2>3. QED
    BY <1>0, <2>1, <2>2 DEF LinkInv
<1>2. CASE ReadBegins
  <2>1. /\ pc' = "reading" /\ UNCHANGED <<closing, bodyClosed, answer, result>>
    BY <1>2 DEF ReadBegins, ReadReset, request
  <2>2. bpc' = "loop" /\ UNCHANGED <<bclosing, offset>>
    BY <1>2, SameBody DEF ReadBegins, BP!ReadCall, BP!Step, BP!shared
  <2>3. QED
    BY <1>0, <2>1, <2>2 DEF LinkInv
<1>3. CASE BodyRuns \/ BodyWaits
  <2>1. bpc # "idle" /\ UNCHANGED <<closed, bclosing>>
    BY <1>3, BodySteps, BodyKeeps
  <2>2. CASE UNCHANGED vars /\ bpc' # "idle"
    <3>1. UNCHANGED <<pc, closing, bodyClosed, answer, result>>
      BY <2>2 DEF vars
    <3>2. QED
      BY <1>0, <2>1, <2>2, <3>1 DEF LinkInv
  <2>3. CASE BodyReturn /\ bpc' = "idle" /\ answer' = Seen(bresult')
    <3>1. pc' = "stop" /\ UNCHANGED <<closing, bodyClosed, result>>
      BY <2>3 DEF BodyReturn, request
    <3>2. answer' = "eof" => bresult' = "eof"
      BY <1>0, <2>3 DEF Seen, TypeOK
    <3>3. bresult' = "eof" => offset' = Length
      BY DEF BP!IInv, BP!EndIsWhole
    <3>4. QED
      BY <1>0, <2>1, <2>3, <3>1, <3>2, <3>3 DEF LinkInv
  <2>4. QED
    BY <1>3, <2>2, <2>3, BodySteps
<1>4. CASE CloseProvider
  <2>1. /\ closing' = "closed" /\ bodyClosed' = TRUE
        /\ UNCHANGED <<pc, answer, result>>
    BY <1>4 DEF CloseProvider, CloseBody, reader
  <2>2. bclosing' = "marked" /\ UNCHANGED <<bpc, offset>>
    BY <1>4, SameBody DEF CloseProvider, BP!CloseMark, BP!local
  <2>3. QED
    BY <1>0, <2>1, <2>2 DEF LinkInv
<1>5. CASE BodyClosesCurrent
  <2>1. UNCHANGED <<pc, closing, bodyClosed, answer, result>>
    BY <1>5 DEF BodyClosesCurrent, vars
  <2>2. bclosing = "marked" /\ bclosing' = "done" /\ UNCHANGED <<bpc, offset>>
    BY <1>5, SameBody DEF BodyClosesCurrent, BP!CloseCurrent, BP!local
  <2>3. QED
    BY <1>0, <2>1, <2>2 DEF LinkInv
<1>6. CASE ObjectChanges
  <2>1. UNCHANGED <<pc, closing, bodyClosed, answer, result>>
    BY <1>6 DEF ObjectChanges, vars
  <2>2. UNCHANGED <<bclosing, bpc, offset>>
    BY <1>6, SameBody DEF ObjectChanges, BP!ObjectChanges, BP!local, BP!shared
  <2>3. QED
    BY <1>0, <2>1, <2>2 DEF LinkInv
<1>7. CASE UNCHANGED gvars
  BY <1>0, <1>7 DEF gvars, vars, bvars, LinkInv
<1>8. QED
  BY <1>1, <1>2, <1>3, <1>4, <1>5, <1>6, <1>7 DEF GetNext

\* Each step of the body, or of its context, keeps the causes of its failures.
LEMMA CauseStep ==
    ASSUME BP!IInv, CauseInv, BP!Next
    PROVE  CauseInv'
<1>0. /\ current \in Nat /\ body \in Nat /\ shutBodies \subseteq Nat
      /\ BP!PositionInv /\ BP!OpenInv /\ BP!FailureInv
      /\ BP!None = 0
  BY BodyAssumption DEF BP!IInv, BP!TypeOK, BP!Bodies, BP!None
<1> USE <1>0 DEF CauseInv, BP!service, BP!answer0, BP!answers, BP!shared,
                 BP!local, BP!Return, BP!Step
<1>1. CASE BP!ReadCall
  BY <1>1 DEF BP!ReadCall
<1>2. CASE BP!Loop
  BY <1>2 DEF BP!Loop
<1>3. CASE BP!Current
  BY <1>3 DEF BP!Current, BP!TakeOrResume
<1>4. CASE BP!ResumeOpens
  BY <1>4 DEF BP!ResumeOpens, BP!OpenAt, BP!PositionInv
<1>5. CASE BP!ResumeFails
  BY <1>5 DEF BP!ResumeFails, BP!ResumeErr
<1>6. CASE BP!SetCurrent
  BY <1>6 DEF BP!SetCurrent, BP!PositionInv
<1>7. CASE BP!BodyRead
  BY <1>7 DEF BP!BodyRead, BP!BodyAnswer, BP!PositionInv
<1>8. CASE BP!CloseBroken
  BY <1>8 DEF BP!CloseBroken, BP!PositionInv
<1>9. CASE BP!Drop
  BY <1>9 DEF BP!Drop
<1>10. CASE BP!CloseMark
  BY <1>10 DEF BP!CloseMark
<1>11. CASE BP!CloseCurrent
  BY <1>11 DEF BP!CloseCurrent, BP!PositionInv, BP!OpenInv
<1>12. CASE BP!ObjectChanges
  BY <1>12 DEF BP!ObjectChanges
<1>13. CASE BP!CtxDone
  BY <1>13 DEF BP!CtxDone
<1>14. QED
  BY <1>1, <1>2, <1>3, <1>4, <1>5, <1>6, <1>7, <1>8, <1>9, <1>10, <1>11,
     <1>12, <1>13 DEF BP!Next

LEMMA GetInitInv == GetInit => GetInv
<1> SUFFICES ASSUME GetInit PROVE GetInv
  OBVIOUS
<1>1. Init /\ BP!Init
  BY SameBody DEF GetInit
<1>2. IInv
  BY <1>1, InitInv
<1>3. BP!IInv
  BY <1>1, BodyAssumption, BP!InitInv
<1>4. LinkInv /\ CauseInv
  BY <1>1 DEF Init, BP!Init, LinkInv, CauseInv
<1>5. QED
  BY <1>2, <1>3, <1>4 DEF GetInv

LEMMA GetStepInv ==
    ASSUME GetInv, [GetNext]_gvars
    PROVE  GetInv'
<1>0. IInv /\ BP!IInv /\ LinkInv /\ CauseInv
  BY DEF GetInv
<1>1. [Next]_vars /\ [BP!Next]_(BP!vars)
  BY GetStep
<1>2. IInv'
  BY <1>0, <1>1, StepInv
<1>3. BP!IInv'
  BY <1>0, <1>1, BodyAssumption, BP!StepInv
<1>4. LinkInv'
  BY <1>3, LinkStep
<1>5. CauseInv'
  <2>1. CASE BP!Next
    BY <1>0, <2>1, CauseStep
  <2>2. CASE UNCHANGED BP!vars
    BY <1>0, <2>2 DEF CauseInv, BP!vars, BP!service, BP!answer0, BP!answers,
       BP!shared, BP!local
  <2>3. QED
    BY <1>1, <2>1, <2>2
<1>6. QED
  BY <1>2, <1>3, <1>4, <1>5 DEF GetInv

\* The invariant of the composition: both components' own, and what ties them.
THEOREM GetInvariance == GetSpec => []GetInv
BY GetInitInv, GetStepInv, PTL DEF GetSpec

\* The safety of the refinement, for any object and any number of retries: the
\* body of a Store.Get behaves as an idleReader over some body, so that all of
\* the above holds of it (store.go:212-218).
THEOREM GetImplementsIdleReader == GetSpec => Spec
<1>1. GetInit => Init
  BY DEF GetInit
<1>2. ASSUME [GetNext]_gvars PROVE [Next]_vars
  BY <1>2, GetStep
<1>3. QED
  BY <1>1, <1>2, PTL DEF GetSpec, Spec

\* And under the idleReader's timer and Close the resumingBody is the one of
\* ResumingBody: canceling the request is the only thing they do to it
\* (idle.go:26-29, 58-64).
THEOREM GetImplementsResumingBody == GetSpec => BP!Spec
<1>1. GetInit => BP!Init
  BY SameBody DEF GetInit
<1>2. ASSUME [GetNext]_gvars PROVE [BP!Next]_(BP!vars)
  BY <1>2, GetStep
<1>3. QED
  BY <1>1, <1>2, PTL DEF GetSpec, BP!Spec

\* What IdleReader assumes of a provider's body, the resumingBody keeps: when
\* its Read returns, in any state of the composition, what it returns is an
\* answer that IdleReader allows a body in that state.  So the composition
\* leaves out no step of the resumingBody (s3/objects.go:262, 333-334).
THEOREM BodyAnswersAsAssumed ==
    ASSUME GetInv, bpc' = "idle",
           \/ BP!Loop \/ BP!Current \/ BP!ResumeOpens \/ BP!ResumeFails
           \/ BP!SetCurrent \/ BP!BodyRead \/ BP!CloseBroken \/ BP!Drop
    PROVE  /\ pc = "reading"
           /\ Seen(bresult') \in {"data", "eof", "net"}
                  \cup (IF reqErr = "none" THEN {} ELSE {reqErr})
                  \cup (IF bodyClosed THEN {"Closed"} ELSE {})
<1>0. /\ LinkInv /\ CauseInv /\ BP!OpenInv /\ BP!FailureInv /\ BP!PositionInv
  BY DEF GetInv, BP!IInv
<1>1. pc = "reading" /\ (closed <=> bodyClosed)
  BY <1>0, BodyKeeps DEF LinkInv, BP!OpenInv
<1>2. /\ bresult' = "ctx" => RequestDone
      /\ bresult' \in {"Closed", "bodyClosed"} => closed
  BY <1>0 DEF CauseInv, BP!Loop, BP!Current, BP!TakeOrResume, BP!ResumeOpens,
     BP!OpenAt, BP!ResumeFails, BP!ResumeErr, BP!SetCurrent, BP!BodyRead,
     BP!BodyAnswer, BP!CloseBroken, BP!Drop, BP!Return, BP!Step, BP!FailureInv,
     BP!Failures
<1>3. QED
  BY <1>1, <1>2 DEF Seen, RequestDone

\* Closing the body cancels its request first and releases every answer it
\* opened, and an end that is reported comes after every byte of the version
\* the Get began on (idle.go:60-62, store.go:205-207).
THEOREM ClosingReleasesAll == GetSpec => []CloseReleasesAll
<1>1. ASSUME GetInv PROVE CloseReleasesAll
  <2>1. /\ bodyClosed => reqErr # "none"
        /\ BP!OpenInv /\ faithful
    BY <1>1 DEF GetInv, IInv, CloseInv, BP!IInv, BP!PositionInv
  <2>2. ASSUME pc = "idle", closing = "closed", bclosing # "marked"
        PROVE  shutBodies = B!Bodies
    <3>1. bpc = "idle" /\ bclosing = "done"
      BY <1>1, <2>2 DEF GetInv, LinkInv, BP!IInv, BP!TypeOK
    <3>2. /\ BP!Bodies \ shutBodies \subseteq {current}
          /\ current # BP!None => current \in shutBodies
      BY <2>1, <3>1 DEF BP!OpenInv
    <3>3. shutBodies \subseteq BP!Bodies /\ BP!None \notin BP!Bodies
      BY <1>1, BodyAssumption, BP!NilIsNoBody DEF GetInv, BP!IInv, BP!TypeOK
    <3>4. shutBodies = BP!Bodies
      BY <3>2, <3>3
    <3>5. QED
      BY <3>4 DEF B!Bodies, BP!Bodies
  <2>3. result = "eof" => offset = Length
    BY <1>1 DEF GetInv, LinkInv
  <2>4. QED
    BY <2>1, <2>2, <2>3 DEF CloseReleasesAll
<1>2. QED
  BY GetInvariance, <1>1, PTL

\* So what is proved of each holds of the two together, with the timer, Close and
\* the resumes interleaved: a Get delivers one version and no more, a failed
\* checksum stands, and a failure or a stall, once returned, is what every later
\* Read returns (store.go:205-218, s3/objects.go:254-266, idle.go:17-24).
THEOREM GetKeepsBoth ==
    GetSpec => /\ [](BP!OneVersionPrefix /\ BP!ChecksumFailureStands)
               /\ [](TimerOnlyDuringRead /\ StallReported)
               /\ BP!FailureSticks /\ StallIsFinal
<1>1. GetSpec => BP!Spec
  BY GetImplementsResumingBody
<1>2. BP!Spec => [](BP!OneVersionPrefix) /\ [](BP!ChecksumFailureStands)
                  /\ BP!FailureSticks
  BY BodyAssumption, BP!OneVersion, BP!ChecksumsStand, BP!FailuresStick, PTL
<1>3. QED
  BY <1>1, <1>2, GetImplementsIdleReader, SlowReaderSafe, ReadsReportTruthfully,
     StallsAreFinal, PTL
=============================================================================
