------------------------ MODULE StoreLifecycleProofs ------------------------
(***************************************************************************)
(* Proofs about StoreLifecycle, for any set of goroutines and any choice   *)
(* of gated operations: the safety properties its runs check, and that it  *)
(* implements GatedLifecycle.                                              *)
(***************************************************************************)
EXTENDS StoreLifecycle, TLAPS

\* A goroutine holds mu exactly at the steps inside a critical section.
MutexInv ==
    \A c \in Callers : mu = c <=> pc[c] \in {"store", "clear", "clearAgain"}

\* Which method a step belongs to.
KindInv ==
    \A c \in Callers :
        /\ pc[c] \in StartSteps => kind[c] = "Start"
        /\ pc[c] \in ShutdownSteps => kind[c] = "Shutdown"
        /\ pc[c] = "call" => kind[c] \notin {"Start", "Shutdown", "none"}
        /\ kind[c] = "none" => ~late[c]

\* The gate and the marks: a Start about to open the gate excludes a mark, and
\* an open gate with the mark set is in the hands of the first Shutdown, which
\* holds mu and is about to clear it.
GateInv ==
    /\ \A c \in Callers : pc[c] = "store" => ~shut
    /\ \A c \in Callers : pc[c] \in {"clear", "clearAgain", "close"} => shut
    /\ shut /\ started => \E c \in Callers : pc[c] = "clear"
    /\ shutReturned => shut /\ ~started
    /\ \A c \in Callers : late[c] => shutReturned

\* One Shutdown at most is the first, from its mark to its Close, and nothing
\* is closed before it.
CloseInv ==
    /\ \A c, d \in Callers :
          pc[c] \in {"clear", "close"} /\ pc[d] \in {"clear", "close"} => c = d
    /\ \A c \in Callers : pc[c] \in {"clear", "close"} => closes = 0
    /\ \A c \in Callers : pc[c] = "close" => ~started
    /\ closes > 0 => shut /\ ~started
    /\ closes <= 1

\* A late call is refused at its first look at the store.
LateInv ==
    \A c \in Callers :
        late[c] =>
            /\ pc[c] \in {"idle", "startCheck", "call", "lock", "clearAgain"}
            /\ pc[c] = "call" => kind[c] = "EnsureContainer"
            /\ pc[c] = "idle" =>
                  /\ kind[c] \in GatedOps \cup {"Start"} =>
                        err[c] = {"NotReady"}
                  /\ kind[c] = "Ready" => err[c] = {"false"}
                  /\ kind[c] = "Shutdown" => err[c] = Nil

\* What a Start has in hand, from a provider's answer to its return.
StartInv ==
    \A c \in Callers :
        /\ doneAtAnswer[c] => ctx[c] # "live"
        /\ kind[c] = "Start" =>
              /\ shutAtAnswer[c] =>
                    /\ shut
                    /\ pc[c] \in {"recheck", "failCheck", "commit", "idle"}
                    /\ pc[c] = "idle" => err[c] = {"NotReady"}
              /\ "ClientClosed" \in err[c] =>
                    shutAtAnswer[c] /\ pc[c] = "failCheck"
              /\ pc[c] = "idle" /\ err[c] \notin {Nil, {"NotReady"}} =>
                    /\ ctx[c] = "live" => "Unavailable" \in err[c]
                    /\ doneAtAnswer[c] =>
                          ctx[c] \in err[c] /\ "Unavailable" \notin err[c]

\* The inductive invariant.
IInv ==
    /\ TypeOK /\ MutexInv /\ KindInv
    /\ GateInv /\ CloseInv /\ LateInv /\ StartInv

\* A context is live or done with one of the two context errors.
LEMMA CtxStatesType == CtxStates \subseteq {"live", "Canceled", "Deadline"}
BY CtxErrsAssumption DEF CtxStates

\* What a provider answers is an error of the model.
LEMMA AnswersType ==
    ASSUME NEW x \in CtxStates
    PROVE  /\ Answers(x) \subseteq SUBSET Sentinels
           /\ \A a \in Answers(x) : "ClientClosed" \in a => closes > 0
<1>1. x \in {"live", "Canceled", "Deadline"}
  BY CtxStatesType
<1>2. QED
  BY <1>1 DEF Answers, Sentinels, Nil

\* The errors Store makes itself, and the states a context can be put in, are
\* of the model.
LEMMA ErrorType ==
    /\ \A e \in {Nil, {"NotReady"}, {"Invalid"}, {"false"}, {"CloseFailed"}} :
          e \in SUBSET Sentinels
    /\ \A x \in CtxErrs \cup {"live", "Deadline"} : x \in CtxStates
BY DEF Sentinels, CtxStates, Nil

\* startFailure makes an error of the model.
LEMMA FailureType ==
    ASSUME NEW e \in SUBSET Sentinels, NEW x \in CtxStates
    PROVE  startFailure(e, x) \in SUBSET Sentinels
<1>1. x = "live" \/ x \in Sentinels
  BY CtxStatesType DEF Sentinels
<1>2. "Unavailable" \in Sentinels
  BY DEF Sentinels
<1>3. QED
  BY <1>1, <1>2 DEF startFailure

\* No step leaves the types.
LEMMA TypeStep ==
    ASSUME IInv, [Next]_vars
    PROVE  TypeOK'
<1> USE DEF IInv, TypeOK, Steps, StartSteps, ShutdownSteps, Kinds
<1>0. CASE UNCHANGED vars
  BY <1>0 DEF vars, store, call, ghost
<1>1. ASSUME NEW c \in Callers, \E x \in CtxErrs \cup {"live"} : StartCall(c, x)
      PROVE  TypeOK'
  BY <1>1, ErrorType DEF StartCall, Begin, store, ghost
<1>2. ASSUME NEW c \in Callers, StartCheck(c)
      PROVE  TypeOK'
  BY <1>2, ErrorType DEF StartCheck, CheckShut, Goto, store, ghost
<1>3. ASSUME NEW c \in Callers, EnsureReturn(c)
      PROVE  TypeOK'
  BY <1>3, ErrorType, AnswersType
     DEF EnsureReturn, StepReturn, Goto, Answered, store, ghost
<1>4. ASSUME NEW c \in Callers, StartRecheck(c)
      PROVE  TypeOK'
  BY <1>4, ErrorType DEF StartRecheck, CheckShut, Goto, store, ghost
<1>5. ASSUME NEW c \in Callers, ProbeReturn(c)
      PROVE  TypeOK'
  BY <1>5, ErrorType, AnswersType
     DEF ProbeReturn, StepReturn, Goto, Answered, store, ghost
<1>6. ASSUME NEW c \in Callers, StartLock(c)
      PROVE  TypeOK'
  BY <1>6, ErrorType DEF StartLock, Goto, store, ghost
<1>7. ASSUME NEW c \in Callers, StartStore(c)
      PROVE  TypeOK'
  BY <1>7, ErrorType DEF StartStore, Goto, store, ghost
<1>8. ASSUME NEW c \in Callers, FailCheck(c)
      PROVE  TypeOK'
  BY <1>8, ErrorType DEF FailCheck, CheckShut, Goto, store, ghost
<1>9. ASSUME NEW c \in Callers, FailClassify(c)
      PROVE  TypeOK'
  BY <1>9, ErrorType, FailureType DEF FailClassify, Goto, store, ghost
<1>10. ASSUME NEW c \in Callers, ShutdownCall(c)
      PROVE  TypeOK'
  BY <1>10, ErrorType DEF ShutdownCall, Begin, store, ghost
<1>11. ASSUME NEW c \in Callers, ShutdownLock(c)
      PROVE  TypeOK'
  BY <1>11, ErrorType DEF ShutdownLock, Goto, store, ghost
<1>12. ASSUME NEW c \in Callers, ShutdownClear(c)
      PROVE  TypeOK'
  <2>1. CASE Goto(c, "clear", "close", Nil) /\ UNCHANGED ghost
    BY <1>12, <2>1, ErrorType DEF ShutdownClear, Goto, ghost
  <2>2. CASE \E s \in {"clear", "clearAgain"} : ShutdownReturn(c, s, Nil)
    BY <1>12, <2>2, ErrorType DEF ShutdownClear, ShutdownReturn, Goto
  <2>3. QED
    BY <1>12, <2>1, <2>2 DEF ShutdownClear
<1>13. ASSUME NEW c \in Callers, ShutdownClose(c)
      PROVE  TypeOK'
  BY <1>13, ErrorType DEF ShutdownClose, ShutdownReturn, Goto, store, ghost
<1>14. ASSUME NEW c \in Callers, ReadyCall(c)
      PROVE  TypeOK'
  <2>1. \E s \in {"idle", "call"}, e \in {Nil, {"false"}} :
           Begin(c, "Ready", "live", s, e)
    BY <1>14 DEF ReadyCall
  <2>2. QED
    BY <1>14, <2>1, ErrorType DEF ReadyCall, Begin, store
<1>15. ASSUME NEW c \in Callers,
              \E o \in GatedOps, x \in CtxErrs \cup {"live"} : OpCall(c, o, x)
      PROVE  TypeOK'
  <2>1. \E o \in GatedOps, x \in CtxErrs \cup {"live"}, s \in {"idle", "call"},
           e \in {Nil, {"NotReady"}, {"Invalid"}} : Begin(c, o, x, s, e)
    BY <1>15 DEF OpCall
  <2>2. QED
    BY <1>15, <2>1, ErrorType DEF OpCall, Begin, store
<1>16. ASSUME NEW c \in Callers,
              \E x \in CtxErrs \cup {"live"} : EnsureCall(c, x)
      PROVE  TypeOK'
  BY <1>16, ErrorType DEF EnsureCall, Begin, store, ghost
<1>17. ASSUME NEW c \in Callers, CallReturn(c)
      PROVE  TypeOK'
  BY <1>17, ErrorType, AnswersType
     DEF CallReturn, Goto, Answered, store, ghost
<1>18. ASSUME NEW c \in Callers, \E x \in CtxErrs : CtxDone(c, x)
      PROVE  TypeOK'
  BY <1>18, ErrorType DEF CtxDone, store, ghost
<1>19. ASSUME NEW c \in Callers, RequestTimeout(c)
      PROVE  TypeOK'
  BY <1>19, ErrorType DEF RequestTimeout, store, ghost
<1>20. QED
  BY <1>0, <1>1, <1>2, <1>3, <1>4, <1>5, <1>6, <1>7, <1>8, <1>9, <1>10,
     <1>11, <1>12, <1>13, <1>14, <1>15, <1>16, <1>17, <1>18, <1>19 DEF Next

\* No step lets two goroutines into a critical section.
LEMMA MutexStep ==
    ASSUME IInv, [Next]_vars
    PROVE  MutexInv'
<1> USE DEF IInv, TypeOK, MutexInv
<1>0. CASE UNCHANGED vars
  BY <1>0 DEF vars, store, call, ghost
<1>1. ASSUME NEW c \in Callers, \E x \in CtxErrs \cup {"live"} : StartCall(c, x)
      PROVE  MutexInv'
  BY <1>1, CallersAssumption DEF StartCall, Begin, store, ghost
<1>2. ASSUME NEW c \in Callers, StartCheck(c)
      PROVE  MutexInv'
  BY <1>2, CallersAssumption DEF StartCheck, CheckShut, Goto, store, ghost
<1>3. ASSUME NEW c \in Callers, EnsureReturn(c)
      PROVE  MutexInv'
  BY <1>3, CallersAssumption
     DEF EnsureReturn, StepReturn, Goto, Answered, store, ghost
<1>4. ASSUME NEW c \in Callers, StartRecheck(c)
      PROVE  MutexInv'
  BY <1>4, CallersAssumption DEF StartRecheck, CheckShut, Goto, store, ghost
<1>5. ASSUME NEW c \in Callers, ProbeReturn(c)
      PROVE  MutexInv'
  BY <1>5, CallersAssumption
     DEF ProbeReturn, StepReturn, Goto, Answered, store, ghost
<1>6. ASSUME NEW c \in Callers, StartLock(c)
      PROVE  MutexInv'
  BY <1>6, CallersAssumption DEF StartLock, Goto, store, ghost
<1>7. ASSUME NEW c \in Callers, StartStore(c)
      PROVE  MutexInv'
  BY <1>7, CallersAssumption DEF StartStore, Goto, store, ghost
<1>8. ASSUME NEW c \in Callers, FailCheck(c)
      PROVE  MutexInv'
  BY <1>8, CallersAssumption DEF FailCheck, CheckShut, Goto, store, ghost
<1>9. ASSUME NEW c \in Callers, FailClassify(c)
      PROVE  MutexInv'
  BY <1>9, CallersAssumption
     DEF FailClassify, startFailure, Goto, store, ghost
<1>10. ASSUME NEW c \in Callers, ShutdownCall(c)
      PROVE  MutexInv'
  BY <1>10, CallersAssumption DEF ShutdownCall, Begin, store, ghost
<1>11. ASSUME NEW c \in Callers, ShutdownLock(c)
      PROVE  MutexInv'
  BY <1>11, CallersAssumption DEF ShutdownLock, Goto, store, ghost
<1>12. ASSUME NEW c \in Callers, ShutdownClear(c)
      PROVE  MutexInv'
  BY <1>12, CallersAssumption
     DEF ShutdownClear, ShutdownReturn, Goto, store, ghost
<1>13. ASSUME NEW c \in Callers, ShutdownClose(c)
      PROVE  MutexInv'
  BY <1>13, CallersAssumption
     DEF ShutdownClose, ShutdownReturn, Goto, store, ghost
<1>14. ASSUME NEW c \in Callers, ReadyCall(c)
      PROVE  MutexInv'
  BY <1>14, CallersAssumption DEF ReadyCall, Begin, store, ghost
<1>15. ASSUME NEW c \in Callers,
              \E o \in GatedOps, x \in CtxErrs \cup {"live"} : OpCall(c, o, x)
      PROVE  MutexInv'
  BY <1>15, CallersAssumption DEF OpCall, Begin, store, ghost
<1>16. ASSUME NEW c \in Callers,
              \E x \in CtxErrs \cup {"live"} : EnsureCall(c, x)
      PROVE  MutexInv'
  BY <1>16, CallersAssumption DEF EnsureCall, Begin, store, ghost
<1>17. ASSUME NEW c \in Callers, CallReturn(c)
      PROVE  MutexInv'
  BY <1>17, CallersAssumption DEF CallReturn, Goto, Answered, store, ghost
<1>18. ASSUME NEW c \in Callers, \E x \in CtxErrs : CtxDone(c, x)
      PROVE  MutexInv'
  BY <1>18, CallersAssumption DEF CtxDone, store, ghost
<1>19. ASSUME NEW c \in Callers, RequestTimeout(c)
      PROVE  MutexInv'
  BY <1>19, CallersAssumption DEF RequestTimeout, store, ghost
<1>20. QED
  BY <1>0, <1>1, <1>2, <1>3, <1>4, <1>5, <1>6, <1>7, <1>8, <1>9, <1>10,
     <1>11, <1>12, <1>13, <1>14, <1>15, <1>16, <1>17, <1>18, <1>19 DEF Next

\* Every step stays in its method.
LEMMA KindStep ==
    ASSUME IInv, [Next]_vars
    PROVE  KindInv'
<1> USE DEF IInv, AllGatedOps, TypeOK, KindInv, GateInv, StartSteps,
           ShutdownSteps
<1>0. CASE UNCHANGED vars
  BY <1>0 DEF vars, store, call, ghost
<1>1. ASSUME NEW c \in Callers, \E x \in CtxErrs \cup {"live"} : StartCall(c, x)
      PROVE  KindInv'
  BY <1>1, GatedOpsAssumption DEF StartCall, Begin, store, ghost
<1>2. ASSUME NEW c \in Callers, StartCheck(c)
      PROVE  KindInv'
  BY <1>2, GatedOpsAssumption DEF StartCheck, CheckShut, Goto, store, ghost
<1>3. ASSUME NEW c \in Callers, EnsureReturn(c)
      PROVE  KindInv'
  BY <1>3, GatedOpsAssumption
     DEF EnsureReturn, StepReturn, Goto, Answered, store, ghost
<1>4. ASSUME NEW c \in Callers, StartRecheck(c)
      PROVE  KindInv'
  BY <1>4, GatedOpsAssumption DEF StartRecheck, CheckShut, Goto, store, ghost
<1>5. ASSUME NEW c \in Callers, ProbeReturn(c)
      PROVE  KindInv'
  BY <1>5, GatedOpsAssumption
     DEF ProbeReturn, StepReturn, Goto, Answered, store, ghost
<1>6. ASSUME NEW c \in Callers, StartLock(c)
      PROVE  KindInv'
  BY <1>6, GatedOpsAssumption DEF StartLock, Goto, store, ghost
<1>7. ASSUME NEW c \in Callers, StartStore(c)
      PROVE  KindInv'
  BY <1>7, GatedOpsAssumption DEF StartStore, Goto, store, ghost
<1>8. ASSUME NEW c \in Callers, FailCheck(c)
      PROVE  KindInv'
  BY <1>8, GatedOpsAssumption DEF FailCheck, CheckShut, Goto, store, ghost
<1>9. ASSUME NEW c \in Callers, FailClassify(c)
      PROVE  KindInv'
  BY <1>9, GatedOpsAssumption
     DEF FailClassify, startFailure, Goto, store, ghost
<1>10. ASSUME NEW c \in Callers, ShutdownCall(c)
      PROVE  KindInv'
  BY <1>10, GatedOpsAssumption DEF ShutdownCall, Begin, store, ghost
<1>11. ASSUME NEW c \in Callers, ShutdownLock(c)
      PROVE  KindInv'
  BY <1>11, GatedOpsAssumption DEF ShutdownLock, Goto, store, ghost
<1>12. ASSUME NEW c \in Callers, ShutdownClear(c)
      PROVE  KindInv'
  BY <1>12, GatedOpsAssumption
     DEF ShutdownClear, ShutdownReturn, Goto, store, ghost
<1>13. ASSUME NEW c \in Callers, ShutdownClose(c)
      PROVE  KindInv'
  BY <1>13, GatedOpsAssumption
     DEF ShutdownClose, ShutdownReturn, Goto, store, ghost
<1>14. ASSUME NEW c \in Callers, ReadyCall(c)
      PROVE  KindInv'
  BY <1>14, GatedOpsAssumption DEF ReadyCall, Begin, store, ghost
<1>15. ASSUME NEW c \in Callers,
              \E o \in GatedOps, x \in CtxErrs \cup {"live"} : OpCall(c, o, x)
      PROVE  KindInv'
  BY <1>15, GatedOpsAssumption DEF OpCall, Begin, store, ghost
<1>16. ASSUME NEW c \in Callers,
              \E x \in CtxErrs \cup {"live"} : EnsureCall(c, x)
      PROVE  KindInv'
  BY <1>16, GatedOpsAssumption DEF EnsureCall, Begin, store, ghost
<1>17. ASSUME NEW c \in Callers, CallReturn(c)
      PROVE  KindInv'
  BY <1>17, GatedOpsAssumption DEF CallReturn, Goto, Answered, store, ghost
<1>18. ASSUME NEW c \in Callers, \E x \in CtxErrs : CtxDone(c, x)
      PROVE  KindInv'
  BY <1>18, GatedOpsAssumption DEF CtxDone, store, ghost
<1>19. ASSUME NEW c \in Callers, RequestTimeout(c)
      PROVE  KindInv'
  BY <1>19, GatedOpsAssumption DEF RequestTimeout, store, ghost
<1>20. QED
  BY <1>0, <1>1, <1>2, <1>3, <1>4, <1>5, <1>6, <1>7, <1>8, <1>9, <1>10,
     <1>11, <1>12, <1>13, <1>14, <1>15, <1>16, <1>17, <1>18, <1>19 DEF Next

\* No step opens the gate past a mark.
LEMMA GateStep ==
    ASSUME IInv, [Next]_vars
    PROVE  GateInv'
<1> USE DEF IInv, TypeOK, MutexInv, GateInv, CloseInv
<1>0. CASE UNCHANGED vars
  BY <1>0 DEF vars, store, call, ghost
<1>1. ASSUME NEW c \in Callers, \E x \in CtxErrs \cup {"live"} : StartCall(c, x)
      PROVE  GateInv'
  BY <1>1, CallersAssumption DEF StartCall, Begin, store, ghost
<1>2. ASSUME NEW c \in Callers, StartCheck(c)
      PROVE  GateInv'
  BY <1>2, CallersAssumption DEF StartCheck, CheckShut, Goto, store, ghost
<1>3. ASSUME NEW c \in Callers, EnsureReturn(c)
      PROVE  GateInv'
  BY <1>3, CallersAssumption
     DEF EnsureReturn, StepReturn, Goto, Answered, store, ghost
<1>4. ASSUME NEW c \in Callers, StartRecheck(c)
      PROVE  GateInv'
  BY <1>4, CallersAssumption DEF StartRecheck, CheckShut, Goto, store, ghost
<1>5. ASSUME NEW c \in Callers, ProbeReturn(c)
      PROVE  GateInv'
  BY <1>5, CallersAssumption
     DEF ProbeReturn, StepReturn, Goto, Answered, store, ghost
<1>6. ASSUME NEW c \in Callers, StartLock(c)
      PROVE  GateInv'
  BY <1>6, CallersAssumption DEF StartLock, Goto, store, ghost
<1>7. ASSUME NEW c \in Callers, StartStore(c)
      PROVE  GateInv'
  BY <1>7, CallersAssumption DEF StartStore, Goto, store, ghost
<1>8. ASSUME NEW c \in Callers, FailCheck(c)
      PROVE  GateInv'
  BY <1>8, CallersAssumption DEF FailCheck, CheckShut, Goto, store, ghost
<1>9. ASSUME NEW c \in Callers, FailClassify(c)
      PROVE  GateInv'
  BY <1>9, CallersAssumption
     DEF FailClassify, startFailure, Goto, store, ghost
<1>10. ASSUME NEW c \in Callers, ShutdownCall(c)
      PROVE  GateInv'
  BY <1>10, CallersAssumption DEF ShutdownCall, Begin, store, ghost
<1>11. ASSUME NEW c \in Callers, ShutdownLock(c)
      PROVE  GateInv'
  BY <1>11, CallersAssumption DEF ShutdownLock, Goto, store, ghost
<1>12. ASSUME NEW c \in Callers, ShutdownClear(c)
      PROVE  GateInv'
  BY <1>12, CallersAssumption
     DEF ShutdownClear, ShutdownReturn, Goto, store, ghost
<1>13. ASSUME NEW c \in Callers, ShutdownClose(c)
      PROVE  GateInv'
  BY <1>13, CallersAssumption
     DEF ShutdownClose, ShutdownReturn, Goto, store, ghost
<1>14. ASSUME NEW c \in Callers, ReadyCall(c)
      PROVE  GateInv'
  BY <1>14, CallersAssumption DEF ReadyCall, Begin, store, ghost
<1>15. ASSUME NEW c \in Callers,
              \E o \in GatedOps, x \in CtxErrs \cup {"live"} : OpCall(c, o, x)
      PROVE  GateInv'
  BY <1>15, CallersAssumption DEF OpCall, Begin, store, ghost
<1>16. ASSUME NEW c \in Callers,
              \E x \in CtxErrs \cup {"live"} : EnsureCall(c, x)
      PROVE  GateInv'
  BY <1>16, CallersAssumption DEF EnsureCall, Begin, store, ghost
<1>17. ASSUME NEW c \in Callers, CallReturn(c)
      PROVE  GateInv'
  BY <1>17, CallersAssumption DEF CallReturn, Goto, Answered, store, ghost
<1>18. ASSUME NEW c \in Callers, \E x \in CtxErrs : CtxDone(c, x)
      PROVE  GateInv'
  BY <1>18, CallersAssumption DEF CtxDone, store, ghost
<1>19. ASSUME NEW c \in Callers, RequestTimeout(c)
      PROVE  GateInv'
  BY <1>19, CallersAssumption DEF RequestTimeout, store, ghost
<1>20. QED
  BY <1>0, <1>1, <1>2, <1>3, <1>4, <1>5, <1>6, <1>7, <1>8, <1>9, <1>10,
     <1>11, <1>12, <1>13, <1>14, <1>15, <1>16, <1>17, <1>18, <1>19 DEF Next

\* No step makes a second Shutdown the first.
LEMMA CloseStep ==
    ASSUME IInv, [Next]_vars
    PROVE  CloseInv'
<1> USE DEF IInv, TypeOK, MutexInv, GateInv, CloseInv
<1>0. CASE UNCHANGED vars
  BY <1>0 DEF vars, store, call, ghost
<1>1. ASSUME NEW c \in Callers, \E x \in CtxErrs \cup {"live"} : StartCall(c, x)
      PROVE  CloseInv'
  BY <1>1, CallersAssumption DEF StartCall, Begin, store, ghost
<1>2. ASSUME NEW c \in Callers, StartCheck(c)
      PROVE  CloseInv'
  BY <1>2, CallersAssumption DEF StartCheck, CheckShut, Goto, store, ghost
<1>3. ASSUME NEW c \in Callers, EnsureReturn(c)
      PROVE  CloseInv'
  BY <1>3, CallersAssumption
     DEF EnsureReturn, StepReturn, Goto, Answered, store, ghost
<1>4. ASSUME NEW c \in Callers, StartRecheck(c)
      PROVE  CloseInv'
  BY <1>4, CallersAssumption DEF StartRecheck, CheckShut, Goto, store, ghost
<1>5. ASSUME NEW c \in Callers, ProbeReturn(c)
      PROVE  CloseInv'
  BY <1>5, CallersAssumption
     DEF ProbeReturn, StepReturn, Goto, Answered, store, ghost
<1>6. ASSUME NEW c \in Callers, StartLock(c)
      PROVE  CloseInv'
  BY <1>6, CallersAssumption DEF StartLock, Goto, store, ghost
<1>7. ASSUME NEW c \in Callers, StartStore(c)
      PROVE  CloseInv'
  BY <1>7, CallersAssumption DEF StartStore, Goto, store, ghost
<1>8. ASSUME NEW c \in Callers, FailCheck(c)
      PROVE  CloseInv'
  BY <1>8, CallersAssumption DEF FailCheck, CheckShut, Goto, store, ghost
<1>9. ASSUME NEW c \in Callers, FailClassify(c)
      PROVE  CloseInv'
  BY <1>9, CallersAssumption
     DEF FailClassify, startFailure, Goto, store, ghost
<1>10. ASSUME NEW c \in Callers, ShutdownCall(c)
      PROVE  CloseInv'
  BY <1>10, CallersAssumption DEF ShutdownCall, Begin, store, ghost
<1>11. ASSUME NEW c \in Callers, ShutdownLock(c)
      PROVE  CloseInv'
  BY <1>11, CallersAssumption DEF ShutdownLock, Goto, store, ghost
<1>12. ASSUME NEW c \in Callers, ShutdownClear(c)
      PROVE  CloseInv'
  BY <1>12, CallersAssumption
     DEF ShutdownClear, ShutdownReturn, Goto, store, ghost
<1>13. ASSUME NEW c \in Callers, ShutdownClose(c)
      PROVE  CloseInv'
  BY <1>13, CallersAssumption
     DEF ShutdownClose, ShutdownReturn, Goto, store, ghost
<1>14. ASSUME NEW c \in Callers, ReadyCall(c)
      PROVE  CloseInv'
  BY <1>14, CallersAssumption DEF ReadyCall, Begin, store, ghost
<1>15. ASSUME NEW c \in Callers,
              \E o \in GatedOps, x \in CtxErrs \cup {"live"} : OpCall(c, o, x)
      PROVE  CloseInv'
  BY <1>15, CallersAssumption DEF OpCall, Begin, store, ghost
<1>16. ASSUME NEW c \in Callers,
              \E x \in CtxErrs \cup {"live"} : EnsureCall(c, x)
      PROVE  CloseInv'
  BY <1>16, CallersAssumption DEF EnsureCall, Begin, store, ghost
<1>17. ASSUME NEW c \in Callers, CallReturn(c)
      PROVE  CloseInv'
  BY <1>17, CallersAssumption DEF CallReturn, Goto, Answered, store, ghost
<1>18. ASSUME NEW c \in Callers, \E x \in CtxErrs : CtxDone(c, x)
      PROVE  CloseInv'
  BY <1>18, CallersAssumption DEF CtxDone, store, ghost
<1>19. ASSUME NEW c \in Callers, RequestTimeout(c)
      PROVE  CloseInv'
  BY <1>19, CallersAssumption DEF RequestTimeout, store, ghost
<1>20. QED
  BY <1>0, <1>1, <1>2, <1>3, <1>4, <1>5, <1>6, <1>7, <1>8, <1>9, <1>10,
     <1>11, <1>12, <1>13, <1>14, <1>15, <1>16, <1>17, <1>18, <1>19 DEF Next

\* No step lets a late call through.
LEMMA LateStep ==
    ASSUME IInv, [Next]_vars
    PROVE  LateInv'
<1> USE DEF IInv, AllGatedOps, TypeOK, KindInv, GateInv, LateInv, StartSteps,
           ShutdownSteps, Nil
<1>0. CASE UNCHANGED vars
  BY <1>0 DEF vars, store, call, ghost
<1>1. ASSUME NEW c \in Callers, \E x \in CtxErrs \cup {"live"} : StartCall(c, x)
      PROVE  LateInv'
  BY <1>1, GatedOpsAssumption DEF StartCall, Begin, store, ghost
<1>2. ASSUME NEW c \in Callers, StartCheck(c)
      PROVE  LateInv'
  BY <1>2, GatedOpsAssumption DEF StartCheck, CheckShut, Goto, store, ghost
<1>3. ASSUME NEW c \in Callers, EnsureReturn(c)
      PROVE  LateInv'
  BY <1>3, GatedOpsAssumption, AnswersType
     DEF EnsureReturn, StepReturn, Goto, Answered, store, ghost
<1>4. ASSUME NEW c \in Callers, StartRecheck(c)
      PROVE  LateInv'
  BY <1>4, GatedOpsAssumption DEF StartRecheck, CheckShut, Goto, store, ghost
<1>5. ASSUME NEW c \in Callers, ProbeReturn(c)
      PROVE  LateInv'
  BY <1>5, GatedOpsAssumption, AnswersType
     DEF ProbeReturn, StepReturn, Goto, Answered, store, ghost
<1>6. ASSUME NEW c \in Callers, StartLock(c)
      PROVE  LateInv'
  BY <1>6, GatedOpsAssumption DEF StartLock, Goto, store, ghost
<1>7. ASSUME NEW c \in Callers, StartStore(c)
      PROVE  LateInv'
  BY <1>7, GatedOpsAssumption DEF StartStore, Goto, store, ghost
<1>8. ASSUME NEW c \in Callers, FailCheck(c)
      PROVE  LateInv'
  BY <1>8, GatedOpsAssumption DEF FailCheck, CheckShut, Goto, store, ghost
<1>9. ASSUME NEW c \in Callers, FailClassify(c)
      PROVE  LateInv'
  BY <1>9, GatedOpsAssumption
     DEF FailClassify, startFailure, Goto, store, ghost
<1>10. ASSUME NEW c \in Callers, ShutdownCall(c)
      PROVE  LateInv'
  BY <1>10, GatedOpsAssumption DEF ShutdownCall, Begin, store, ghost
<1>11. ASSUME NEW c \in Callers, ShutdownLock(c)
      PROVE  LateInv'
  BY <1>11, GatedOpsAssumption DEF ShutdownLock, Goto, store, ghost
<1>12. ASSUME NEW c \in Callers, ShutdownClear(c)
      PROVE  LateInv'
  BY <1>12, GatedOpsAssumption
     DEF ShutdownClear, ShutdownReturn, Goto, store, ghost
<1>13. ASSUME NEW c \in Callers, ShutdownClose(c)
      PROVE  LateInv'
  BY <1>13, GatedOpsAssumption
     DEF ShutdownClose, ShutdownReturn, Goto, store, ghost
<1>14. ASSUME NEW c \in Callers, ReadyCall(c)
      PROVE  LateInv'
  BY <1>14, GatedOpsAssumption DEF ReadyCall, Begin, store, ghost
<1>15. ASSUME NEW c \in Callers,
              \E o \in GatedOps, x \in CtxErrs \cup {"live"} : OpCall(c, o, x)
      PROVE  LateInv'
  BY <1>15, GatedOpsAssumption DEF OpCall, Begin, store, ghost
<1>16. ASSUME NEW c \in Callers,
              \E x \in CtxErrs \cup {"live"} : EnsureCall(c, x)
      PROVE  LateInv'
  BY <1>16, GatedOpsAssumption DEF EnsureCall, Begin, store, ghost
<1>17. ASSUME NEW c \in Callers, CallReturn(c)
      PROVE  LateInv'
  BY <1>17, GatedOpsAssumption, AnswersType
     DEF CallReturn, Goto, Answered, store, ghost
<1>18. ASSUME NEW c \in Callers, \E x \in CtxErrs : CtxDone(c, x)
      PROVE  LateInv'
  BY <1>18, GatedOpsAssumption DEF CtxDone, store, ghost
<1>19. ASSUME NEW c \in Callers, RequestTimeout(c)
      PROVE  LateInv'
  BY <1>19, GatedOpsAssumption DEF RequestTimeout, store, ghost
<1>20. QED
  BY <1>0, <1>1, <1>2, <1>3, <1>4, <1>5, <1>6, <1>7, <1>8, <1>9, <1>10,
     <1>11, <1>12, <1>13, <1>14, <1>15, <1>16, <1>17, <1>18, <1>19 DEF Next

\* What a Start has in hand stays right until it returns.
LEMMA StartStep ==
    ASSUME IInv, [Next]_vars
    PROVE  StartInv'
<1> USE DEF IInv, AllGatedOps, TypeOK, KindInv, GateInv, CloseInv, StartInv,
           StartSteps, ShutdownSteps, Nil
<1>0. CASE UNCHANGED vars
  BY <1>0 DEF vars, store, call, ghost
<1>1. ASSUME NEW c \in Callers, \E x \in CtxErrs \cup {"live"} : StartCall(c, x)
      PROVE  StartInv'
  BY <1>1, GatedOpsAssumption DEF StartCall, Begin, store, ghost
<1>2. ASSUME NEW c \in Callers, StartCheck(c)
      PROVE  StartInv'
  BY <1>2, GatedOpsAssumption DEF StartCheck, CheckShut, Goto, store, ghost
<1>3. ASSUME NEW c \in Callers, EnsureReturn(c)
      PROVE  StartInv'
  BY <1>3, GatedOpsAssumption, AnswersType
     DEF EnsureReturn, StepReturn, Goto, Answered, store, ghost
<1>4. ASSUME NEW c \in Callers, StartRecheck(c)
      PROVE  StartInv'
  BY <1>4, GatedOpsAssumption DEF StartRecheck, CheckShut, Goto, store, ghost
<1>5. ASSUME NEW c \in Callers, ProbeReturn(c)
      PROVE  StartInv'
  BY <1>5, GatedOpsAssumption, AnswersType
     DEF ProbeReturn, StepReturn, Goto, Answered, store, ghost
<1>6. ASSUME NEW c \in Callers, StartLock(c)
      PROVE  StartInv'
  BY <1>6, GatedOpsAssumption DEF StartLock, Goto, store, ghost
<1>7. ASSUME NEW c \in Callers, StartStore(c)
      PROVE  StartInv'
  BY <1>7, GatedOpsAssumption DEF StartStore, Goto, store, ghost
<1>8. ASSUME NEW c \in Callers, FailCheck(c)
      PROVE  StartInv'
  BY <1>8, GatedOpsAssumption DEF FailCheck, CheckShut, Goto, store, ghost
<1>9. ASSUME NEW c \in Callers, FailClassify(c)
      PROVE  StartInv'
  BY <1>9, GatedOpsAssumption, CtxStatesType
     DEF FailClassify, startFailure, Goto, store, ghost
<1>10. ASSUME NEW c \in Callers, ShutdownCall(c)
      PROVE  StartInv'
  BY <1>10, GatedOpsAssumption DEF ShutdownCall, Begin, store, ghost
<1>11. ASSUME NEW c \in Callers, ShutdownLock(c)
      PROVE  StartInv'
  BY <1>11, GatedOpsAssumption DEF ShutdownLock, Goto, store, ghost
<1>12. ASSUME NEW c \in Callers, ShutdownClear(c)
      PROVE  StartInv'
  BY <1>12, GatedOpsAssumption
     DEF ShutdownClear, ShutdownReturn, Goto, store, ghost
<1>13. ASSUME NEW c \in Callers, ShutdownClose(c)
      PROVE  StartInv'
  BY <1>13, GatedOpsAssumption
     DEF ShutdownClose, ShutdownReturn, Goto, store, ghost
<1>14. ASSUME NEW c \in Callers, ReadyCall(c)
      PROVE  StartInv'
  BY <1>14, GatedOpsAssumption DEF ReadyCall, Begin, store, ghost
<1>15. ASSUME NEW c \in Callers,
              \E o \in GatedOps, x \in CtxErrs \cup {"live"} : OpCall(c, o, x)
      PROVE  StartInv'
  BY <1>15, GatedOpsAssumption DEF OpCall, Begin, store, ghost
<1>16. ASSUME NEW c \in Callers,
              \E x \in CtxErrs \cup {"live"} : EnsureCall(c, x)
      PROVE  StartInv'
  BY <1>16, GatedOpsAssumption DEF EnsureCall, Begin, store, ghost
<1>17. ASSUME NEW c \in Callers, CallReturn(c)
      PROVE  StartInv'
  BY <1>17, GatedOpsAssumption, AnswersType
     DEF CallReturn, Goto, Answered, store, ghost
<1>18. ASSUME NEW c \in Callers, \E x \in CtxErrs : CtxDone(c, x)
      PROVE  StartInv'
  BY <1>18, GatedOpsAssumption DEF CtxDone, store, ghost
<1>19. ASSUME NEW c \in Callers, RequestTimeout(c)
      PROVE  StartInv'
  BY <1>19, GatedOpsAssumption DEF RequestTimeout, store, ghost
<1>20. QED
  BY <1>0, <1>1, <1>2, <1>3, <1>4, <1>5, <1>6, <1>7, <1>8, <1>9, <1>10,
     <1>11, <1>12, <1>13, <1>14, <1>15, <1>16, <1>17, <1>18, <1>19 DEF Next

\* A new Store satisfies the invariant.
LEMMA InitInv == Init => IInv
<1> SUFFICES ASSUME Init PROVE IInv
  OBVIOUS
<1>1. TypeOK
  BY ErrorType DEF Init, TypeOK, Steps, Kinds
<1>2. MutexInv /\ KindInv
  BY CallersAssumption DEF Init, MutexInv, KindInv, StartSteps, ShutdownSteps
<1>3. GateInv /\ CloseInv
  BY DEF Init, GateInv, CloseInv
<1>4. LateInv /\ StartInv
  BY DEF Init, LateInv, StartInv
<1>5. QED
  BY <1>1, <1>2, <1>3, <1>4 DEF IInv

\* The invariant is inductive: it holds of every state the goroutines reach.
THEOREM Invariance == Spec => []IInv
<1>1. IInv /\ [Next]_vars => IInv'
  BY TypeStep, MutexStep, KindStep, GateStep, CloseStep, LateStep, StartStep
     DEF IInv
<1>2. QED
  BY InitInv, <1>1, PTL DEF Spec

\* Every variable keeps its type, whatever the goroutines do.
THEOREM TypeCorrect == Spec => []TypeOK
<1>1. IInv => TypeOK
  BY DEF IInv
<1>2. QED
  BY Invariance, <1>1, PTL

\* The client is closed only behind a shut gate, at most once, and only the
\* first Shutdown returns Close's error, for any number of goroutines.
THEOREM ClosedSafely == Spec => []CloseOnce
<1>1. IInv => CloseOnce
  BY DEF IInv, CloseInv, LateInv, CloseOnce, Returned
<1>2. QED
  BY Invariance, <1>1, PTL

\* A call that begins after some Shutdown has returned is refused and never
\* reaches the provider, EnsureContainer apart.
THEOREM LateCallsAreRefused == Spec => []LateCallsRefused
<1>1. IInv => LateCallsRefused
  BY DEF IInv, LateInv, LateCallsRefused, Returned, ClientSteps
<1>2. QED
  BY Invariance, <1>1, PTL

\* A Start that a Shutdown overtakes gives up with ErrNotReady, and never
\* reports the closed client's error.
THEOREM OvertakenStarts == Spec => []OvertakenStartGivesUp
<1>1. IInv => OvertakenStartGivesUp
  BY DEF IInv, StartInv, OvertakenStartGivesUp, Returned
<1>2. QED
  BY Invariance, <1>1, PTL

\* A failed Start matches ErrUnavailable while the caller's context is live and
\* ctx.Err() alone once it was done before the failing answer.
THEOREM StartFailuresClassified == Spec => []StartFailureClass
<1>1. IInv => StartFailureClass
  BY DEF IInv, StartInv, StartFailureClass, Returned
<1>2. QED
  BY Invariance, <1>1, PTL

-----------------------------------------------------------------------------
(* StoreLifecycle implements GatedLifecycle.                               *)

\* The callers inside the gate, and the phase, as the refinement maps them.
Inside == {c \in Callers :
             pc[c] = "call" /\ kind[c] \in GatedOps \cup {"Ready"}}
Phase == IF started THEN "started" ELSE IF shut THEN "shut" ELSE "fresh"

\* A call that passes no gate, or is refused at it, goes unnoticed.
LEMMA BeginOutside ==
    ASSUME TypeOK, NEW c \in Callers, NEW k, NEW x, NEW s, NEW e,
           Begin(c, k, x, s, e), s # "call" \/ k \notin GatedOps \cup {"Ready"}
    PROVE  Inside' = Inside
BY DEF TypeOK, Begin, Inside

\* A call the gate lets through enters.
LEMMA BeginInside ==
    ASSUME TypeOK, NEW c \in Callers, NEW k \in GatedOps \cup {"Ready"}, NEW x,
           NEW e, Begin(c, k, x, "call", e)
    PROVE  c \notin Inside /\ Inside' = Inside \cup {c}
BY DEF TypeOK, Begin, Inside

\* A step inside a method that is not at the provider for the caller goes
\* unnoticed.
LEMMA GotoOutside ==
    ASSUME TypeOK, NEW c \in Callers, NEW s, NEW t, NEW e,
           Goto(c, s, t, e), s # "call", t # "call"
    PROVE  Inside' = Inside
BY DEF TypeOK, Goto, Inside

\* A step maps to a step of the abstract gate, or to none.
LEMMA GateSimulation ==
    ASSUME IInv, [Next]_vars
    PROVE  [Gate!Next]_(Gate!vars)
<1> DEFINE Closed == closes > 0
<1> USE DEF IInv
<1> SUFFICES \/ UNCHANGED <<Phase, Inside, Closed>>
             \/ /\ Phase # "shut"
                /\ Phase' = "started"
                /\ UNCHANGED <<Inside, Closed>>
             \/ /\ Phase' = "shut"
                /\ UNCHANGED <<Inside, Closed>>
             \/ \E c \in Callers :
                   \/ /\ Phase = "started"
                      /\ c \notin Inside
                      /\ Inside' = Inside \cup {c}
                      /\ UNCHANGED <<Phase, Closed>>
                   \/ /\ Inside' = Inside \ {c}
                      /\ UNCHANGED <<Phase, Closed>>
             \/ /\ Phase = "shut"
                /\ ~Closed
                /\ Closed' = TRUE
                /\ UNCHANGED <<Phase, Inside>>
  BY DEF Gate!Next, Gate!vars, Gate!Start, Gate!Shutdown, Gate!Enter,
         Gate!Leave, Gate!CloseClient, Phase, Inside
<1>1. CASE UNCHANGED vars
  BY <1>1 DEF vars, store, call, Phase, Inside
<1>2. ASSUME NEW c \in Callers,
             \/ \E x \in CtxErrs \cup {"live"} : StartCall(c, x)
             \/ ShutdownCall(c)
             \/ \E x \in CtxErrs \cup {"live"} : EnsureCall(c, x)
      PROVE  UNCHANGED <<Phase, Inside, Closed>>
  <2>1. Inside' = Inside
    BY <1>2, BeginOutside, GatedOpsAssumption
       DEF StartCall, ShutdownCall, EnsureCall, AllGatedOps
  <2>2. QED
    BY <1>2, <2>1 DEF StartCall, ShutdownCall, EnsureCall, store, Phase
<1>3. ASSUME NEW c \in Callers,
             \/ StartCheck(c) \/ StartRecheck(c) \/ FailCheck(c)
             \/ EnsureReturn(c) \/ ProbeReturn(c) \/ FailClassify(c)
             \/ StartLock(c)
      PROVE  UNCHANGED <<Phase, Inside, Closed>>
  <2>1. Inside' = Inside
    BY <1>3, GotoOutside
       DEF StartCheck, StartRecheck, FailCheck, CheckShut, EnsureReturn,
           ProbeReturn, StepReturn, FailClassify, StartLock
  <2>2. QED
    BY <1>3, <2>1
       DEF StartCheck, StartRecheck, FailCheck, CheckShut, EnsureReturn,
           ProbeReturn, StepReturn, FailClassify, StartLock, store, Phase
<1>4. ASSUME NEW c \in Callers, StartStore(c)
      PROVE  /\ Phase # "shut"
             /\ Phase' = "started"
             /\ UNCHANGED <<Inside, Closed>>
  <2>1. ~shut
    BY <1>4 DEF GateInv, StartStore, Goto
  <2>2. Inside' = Inside
    BY <1>4, GotoOutside DEF StartStore
  <2>3. QED
    BY <1>4, <2>1, <2>2 DEF StartStore, Phase
<1>5. ASSUME NEW c \in Callers, ShutdownLock(c)
      PROVE  \/ UNCHANGED <<Phase, Inside, Closed>>
             \/ /\ Phase' = "shut"
                /\ UNCHANGED <<Inside, Closed>>
  <2>1. Inside' = Inside
    BY <1>5, GotoOutside DEF ShutdownLock
  <2>2. QED
    BY <1>5, <2>1 DEF ShutdownLock, Phase
<1>6. ASSUME NEW c \in Callers, ShutdownClear(c)
      PROVE  /\ Phase' = "shut"
             /\ UNCHANGED <<Inside, Closed>>
  <2>1. shut'
    BY <1>6 DEF GateInv, ShutdownClear, ShutdownReturn, Goto
  <2>2. Inside' = Inside
    BY <1>6, GotoOutside DEF ShutdownClear, ShutdownReturn
  <2>3. QED
    BY <1>6, <2>1, <2>2 DEF ShutdownClear, Phase
<1>7. ASSUME NEW c \in Callers, ShutdownClose(c)
      PROVE  /\ Phase = "shut"
             /\ ~Closed
             /\ Closed' = TRUE
             /\ UNCHANGED <<Phase, Inside>>
  <2>1. closes = 0 /\ shut /\ ~started
    BY <1>7 DEF GateInv, CloseInv, ShutdownClose, ShutdownReturn, Goto
  <2>2. Inside' = Inside
    BY <1>7, GotoOutside DEF ShutdownClose, ShutdownReturn
  <2>3. QED
    BY <1>7, <2>1, <2>2 DEF ShutdownClose, Phase
<1>8. ASSUME NEW c \in Callers,
             \/ ReadyCall(c)
             \/ \E o \in GatedOps, x \in CtxErrs \cup {"live"} : OpCall(c, o, x)
      PROVE  \/ UNCHANGED <<Phase, Inside, Closed>>
             \/ /\ Phase = "started"
                /\ c \notin Inside
                /\ Inside' = Inside \cup {c}
                /\ UNCHANGED <<Phase, Closed>>
  <2>1. UNCHANGED store
    BY <1>8 DEF ReadyCall, OpCall
  <2>2. \/ Inside' = Inside
        \/ started /\ c \notin Inside /\ Inside' = Inside \cup {c}
    BY <1>8, BeginOutside, BeginInside DEF ReadyCall, OpCall
  <2>3. QED
    BY <2>1, <2>2 DEF store, Phase
<1>9. ASSUME NEW c \in Callers, CallReturn(c)
      PROVE  Inside' = Inside \ {c} /\ UNCHANGED <<Phase, Closed>>
  <2>1. Inside' = Inside \ {c}
    BY <1>9 DEF TypeOK, CallReturn, Goto, Inside
  <2>2. QED
    BY <1>9, <2>1 DEF CallReturn, store, Phase
<1>10. ASSUME NEW c \in Callers,
              (\E x \in CtxErrs : CtxDone(c, x)) \/ RequestTimeout(c)
       PROVE  UNCHANGED <<Phase, Inside, Closed>>
  BY <1>10 DEF CtxDone, RequestTimeout, store, Phase, Inside
<1>11. QED
  BY <1>1, <1>2, <1>3, <1>4, <1>5, <1>6, <1>7, <1>8, <1>9, <1>10 DEF Next

\* The goroutines of a Store, however many, implement the abstract gate: it
\* opens at most until the first Shutdown, operations pass only while it is
\* open, and the client is closed at most once, behind it.
THEOREM Refinement == Spec => ImplementsGate
<1>1. Init => Gate!Init
  BY DEF Init, Gate!Init
<1>2. IInv /\ [Next]_vars => [Gate!Next]_(Gate!vars)
  BY GateSimulation
<1>3. QED
  BY Invariance, <1>1, <1>2, PTL DEF Spec, ImplementsGate, Gate!Spec

=============================================================================
