------------------------------ MODULE StorePut ------------------------------
(***************************************************************************)
(* Store.Put (store.go): the checks it makes itself, the one or two        *)
(* limitReaders it puts between the caller's body and the provider, and    *)
(* what it makes of the provider's return.                                 *)
(*                                                                         *)
(* A body is a length and an end: io.EOF, or a failure.  It answers a Read *)
(* in every way io.Reader allows: fewer bytes than asked for, none, its    *)
(* end together with its last bytes or after them.  The provider is        *)
(* external: one goroutine of it reads the body, with any buffer, on after *)
(* a failure if it likes, and still after the provider's Put has returned  *)
(* an error.                                                               *)
(*                                                                         *)
(* An error is the set of what it matches: "TooLarge" is ErrTooLarge,      *)
(* "max" and "long" the two limitReaders' errors for a byte past the       *)
(* limit, "short" the one that wraps io.ErrUnexpectedEOF, "fail" the       *)
(* body's own.  Nil is the empty set.                                      *)
(***************************************************************************)
EXTENDS Integers

CONSTANTS
    Lengths,  \* the lengths a body may have
    Bounds,   \* the values of Config.MaxObjectSize, 0 for none
    Sizes,    \* the values of PutOptions.Size
    Buffers   \* the lengths of the buffers the provider reads into

ASSUME LengthsAssumption == Lengths \subseteq Nat
ASSUME BoundsAssumption == Bounds \subseteq Nat
ASSUME SizesAssumption == Sizes \subseteq Int
ASSUME BuffersAssumption == Buffers \subseteq Nat \ {0}

VARIABLES
    length, end,     \* the body: its length, and "eof" or "fail"
    max, size,       \* Store.maxObjectSize and opts.Size
    pos,             \* bytes the body has given
    bounded, sized,  \* the limitReaders; limit 0 stands for a nil pointer
    reading,         \* a Read about to return to the provider, or NoRead
    got,             \* bytes the provider was given
    seen,            \* the ends the provider's reads reported
    pc,              \* the step of Put
    perr,            \* what the provider's Put returned
    committed,       \* the length of the object the provider stored, or -1
    result,          \* what Put returned
    trippedFirst     \* history: the readers tripped when the provider returned

body == <<length, end, max, size>>
vars == <<body, pos, bounded, sized, reading, got, seen, pc, perr, committed,
          result, trippedFirst>>

Nil == {}
ReadErrs == {"nil", "eof", "fail", "max", "long", "short"}
Errors == {"TooLarge", "max", "long", "short", "fail", "Invalid", "Provider"}
Readers == {"bounded", "sized"}
NoRead == [who |-> "none", n |-> 0, e |-> "nil"]

LimitReader ==
    [limit : Nat, read : Nat, exact : BOOLEAN, long : {"max", "long"},
     err : {"none", "max", "long", "short"}, tripped : BOOLEAN]

TypeOK ==
    /\ length \in Nat
    /\ end \in {"eof", "fail"}
    /\ max \in Nat
    /\ size \in Int
    /\ pos \in Nat
    /\ bounded \in LimitReader
    /\ sized \in LimitReader
    /\ reading \in [who : Readers \cup {"none", "read"}, n : Nat, e : ReadErrs]
    /\ got \in Nat
    /\ seen \subseteq ReadErrs
    /\ pc \in {"call", "provider", "checkBounded", "checkSized", "done"}
    /\ perr \subseteq Errors
    /\ committed \in Nat \cup {-1}
    /\ result \subseteq Errors
    /\ trippedFirst \subseteq Readers

newLimitReader(limit, exact, long) ==
    [limit |-> limit, read |-> 0, exact |-> exact, long |-> long,
     err |-> "none", tripped |-> FALSE]

Init ==
    /\ length \in Lengths
    /\ end \in {"eof", "fail"}
    /\ max \in Bounds
    /\ size \in Sizes
    /\ pos = 0
    /\ bounded = newLimitReader(0, FALSE, "max")
    /\ sized = newLimitReader(0, TRUE, "long")
    /\ reading = NoRead
    /\ got = 0
    /\ seen = {}
    /\ pc = "call"
    /\ perr = Nil
    /\ committed = -1
    /\ result = Nil
    /\ trippedFirst = {}

-----------------------------------------------------------------------------
(* The call.                                                               *)

Refuse(e) ==
    /\ pc = "call"
    /\ pc' = "done"
    /\ result' = e
    /\ UNCHANGED <<body, pos, bounded, sized, reading, got, seen, perr,
                   committed, trippedFirst>>

\* The key fails ValidateKey, or the Size is negative.
PutInvalid == Refuse({"Invalid"})

PutDeclaredTooLarge ==
    /\ size >= 0
    /\ max > 0 /\ size > max
    /\ Refuse({"TooLarge"})

\* The two limitReaders are made, one around the other, and the provider is
\* called.
Delegate(inner, outer) ==
    /\ pc = "call"
    /\ pc' = "provider"
    /\ ~(max > 0 /\ size > max)
    /\ bounded' = inner
    /\ sized' = outer
    /\ UNCHANGED <<body, pos, reading, got, seen, perr, committed, result,
                   trippedFirst>>

\* Mutant: the Size's reader is the inner one.
PutDelegateSwapped ==
    /\ size >= 0
    /\ Delegate(newLimitReader(size, TRUE, "long"),
                newLimitReader(max, FALSE, "max"))

\* The bound is the inner reader.
PutDelegate ==
    /\ size >= 0
    /\ Delegate(newLimitReader(max, FALSE, "max"),
                newLimitReader(size, TRUE, "long"))

-----------------------------------------------------------------------------
(* limitReader.Read.                                                       *)

\* The length of the read that l makes of its source for one of k bytes: one
\* byte, the probe, once the limit is reached.
Ask(l, k) ==
    IF l.limit = 0 THEN k
    ELSE IF l.limit - l.read <= 0 THEN 1
    ELSE IF k > l.limit - l.read THEN l.limit - l.read
    ELSE k

\* What l answers when its source answers n bytes and the error e: the bytes,
\* the error, and l afterwards; reached says that its limit was reached before.
Trip(l, n, e) == [n |-> n, e |-> e, l |-> [l EXCEPT !.err = e]]

AnswerAt(l, n, e, reached) ==
    IF l.limit = 0 THEN [n |-> n, e |-> e, l |-> l]
    ELSE IF l.tripped THEN [n |-> 0, e |-> l.err, l |-> l]
    ELSE IF reached
         THEN IF n > 0 THEN Trip(l, 0, l.long) ELSE [n |-> 0, e |-> e, l |-> l]
    ELSE LET m == [l EXCEPT !.read = @ + n]
         IN  IF l.exact /\ e = "eof" /\ m.read < m.limit
             THEN Trip(m, n, "short")
             ELSE [n |-> n, e |-> e, l |-> m]

\* Mutant: takes the byte past the limit for the last one.
AnswerOffByOne(l, n, e) == AnswerAt(l, n, e, l.limit - l.read < 0)

Answer(l, n, e) == AnswerAt(l, n, e, l.limit - l.read <= 0)

\* What the body may answer a Read of k bytes.
BodyAnswer(k, n, e) ==
    /\ n <= k
    /\ pos + n <= length
    /\ e = "nil" \/ (pos + n = length /\ e = end)

\* A Read of the provider, with a buffer of k bytes, goes down the stack of
\* readers and is about to come back.  A reader that has tripped answers
\* without a read of its source.
Read(k) ==
    /\ pc = "provider" \/ (pc \in {"checkBounded", "checkSized"} /\ perr # Nil)
    /\ reading = NoRead
    /\ \E n \in 0 .. k, e \in {"nil", end} :
          LET asked == Ask(bounded, Ask(sized, k))
              inner == Answer(bounded, n, e)
              outer == Answer(sized, inner.n, inner.e)
          IN  /\ IF bounded.tripped \/ sized.tripped
                 THEN n = 0 /\ e = "nil"
                 ELSE BodyAnswer(asked, n, e)
              /\ pos' = pos + n
              /\ bounded' = inner.l
              /\ sized' = outer.l
              /\ reading' =
                    [who |-> IF inner.l.err # bounded.err THEN "bounded"
                             ELSE IF outer.l.err # sized.err THEN "sized"
                             ELSE "read",
                     n |-> outer.n, e |-> outer.e]
    /\ UNCHANGED <<body, got, seen, pc, perr, committed, result, trippedFirst>>

\* Mutant: trip does not store tripped.
ReadReturnForgetful ==
    /\ reading # NoRead
    /\ reading' = NoRead
    /\ got' = got + reading.n
    /\ seen' = seen \cup ({reading.e} \ {"nil"})
    /\ UNCHANGED <<body, pos, bounded, sized, pc, perr, committed, result,
                   trippedFirst>>

\* trip stores tripped after err, and the Read returns to the provider.
ReadReturn ==
    /\ reading # NoRead
    /\ reading' = NoRead
    /\ bounded' = [bounded EXCEPT !.tripped = @ \/ reading.who = "bounded"]
    /\ sized' = [sized EXCEPT !.tripped = @ \/ reading.who = "sized"]
    /\ got' = got + reading.n
    /\ seen' = seen \cup ({reading.e} \ {"nil"})
    /\ UNCHANGED <<body, pos, pc, perr, committed, result, trippedFirst>>

-----------------------------------------------------------------------------
(* The provider's return, and Put's.                                       *)

tripped ==
    {r \in Readers : (IF r = "bounded" THEN bounded ELSE sized).tripped}

ProviderReturn(e) ==
    /\ pc = "provider"
    /\ pc' = "checkBounded"
    /\ perr' = e
    /\ trippedFirst' = tripped
    /\ UNCHANGED <<body, pos, bounded, sized, reading, got, seen, result>>

\* Success, as the contract of Client.Put has it: the provider read the body
\* to its io.EOF, met no failure, and stored what it was given.
ProviderStores ==
    /\ seen = {"eof"}
    /\ reading = NoRead
    /\ ProviderReturn(Nil)
    /\ committed' = got

\* A provider that breaks it: it swallows the failure a limitReader gave it,
\* as an SDK that stops at the declared length might.
ProviderSwallows ==
    /\ seen \cap {"max", "long", "short"} # {}
    /\ reading = NoRead
    /\ ProviderReturn(Nil)
    /\ committed' = got

\* Failure, at any time: an error of its own, alone or wrapping a failed read's.
ProviderFails ==
    /\ \E cause \in SUBSET (seen \ {"eof"}) :
          ProviderReturn({"Provider"} \cup cause)
    /\ UNCHANGED committed

readFailure(recorded, provider) ==
    CASE provider = Nil               -> recorded
      [] recorded \subseteq provider  -> provider
      [] OTHER                        -> recorded \cup provider

Recorded(l) == IF l.err = "none" THEN Nil ELSE {l.err}

PutCheckBounded ==
    /\ pc = "checkBounded"
    /\ IF bounded.tripped
       THEN /\ pc' = "done"
            /\ result' = {"TooLarge"} \cup readFailure(Recorded(bounded), perr)
       ELSE /\ pc' = "checkSized"
            /\ UNCHANGED result
    /\ UNCHANGED <<body, pos, bounded, sized, reading, got, seen, perr,
                   committed, trippedFirst>>

PutCheckSized ==
    /\ pc = "checkSized"
    /\ pc' = "done"
    /\ result' = IF sized.tripped THEN readFailure(Recorded(sized), perr)
                                  ELSE perr
    /\ UNCHANGED <<body, pos, bounded, sized, reading, got, seen, perr,
                   committed, trippedFirst>>

\* Put has returned; there is nothing more to do.
Returned == pc = "done" /\ UNCHANGED vars

Next ==
    \/ PutInvalid \/ PutDeclaredTooLarge \/ PutDelegate
    \/ \E k \in Buffers : Read(k)
    \/ ReadReturn
    \/ ProviderStores \/ ProviderSwallows \/ ProviderFails
    \/ PutCheckBounded \/ PutCheckSized
    \/ Returned

Spec == Init /\ [][Next]_vars

-----------------------------------------------------------------------------
(* Properties.                                                             *)

\* Success means the whole body was stored and it kept to both limits, whatever
\* the provider did with a failed read; and the provider sees a clean end only
\* of such a body, given whole: a failure is repeated on every later Read, so
\* one that reads on is never told that a cut body has ended
\* (store.go:145-151, client.go:107-112).
StoredIsBody ==
    LET kept == (size > 0 => length = size) /\ (max > 0 => length <= max)
    IN  /\ pc = "done" /\ result = Nil =>
              end = "eof" /\ committed = length /\ kept
        /\ "eof" \in seen => got = length /\ kept

\* The provider is never given a byte past a limit, and the body never loses
\* more than the one byte that shows it is too long.
NothingPastLimit ==
    /\ max > 0 => got <= max /\ pos <= max + 1
    /\ size > 0 => got <= size /\ pos <= size + 1

\* A limit that failed a read before the provider returned shows in what Put
\* returns, with its cause, though the provider hid it or a reader of it is
\* still running; a body past a Size equal to the bound is ErrTooLarge, never
\* merely too long (store.go:168-169).
FailureReported ==
    /\ max > 0 /\ size = max => "long" \notin {bounded.err, sized.err}
    /\ pc = "done" =>
        /\ "bounded" \in trippedFirst => {"TooLarge", "max"} \subseteq result
        /\ "sized" \in trippedFirst =>
              sized.err \in result \/ "TooLarge" \in result
        /\ "TooLarge" \in result /\ (max = 0 \/ size <= max) => "max" \in result
=============================================================================
