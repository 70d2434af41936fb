--------------------------- MODULE StorePutProofs ---------------------------
(***************************************************************************)
(* Proofs about StorePut, for every body, bound, Size and buffer.          *)
(*                                                                         *)
(* The argument follows the bytes: what the body gave, what each           *)
(* limitReader counted and what the provider was given differ by at most   *)
(* the one byte of a probe, and which reader holds an error says which.    *)
(***************************************************************************)
EXTENDS StorePut, TLAPS

\* The bytes the provider has or is about to be given.
given == got + reading.n

\* The body keeps to both limits.
Kept == (size > 0 => length = size) /\ (max > 0 => length <= max)

\* Nothing was made of the readers yet; or they have Put's limits, which Put
\* has checked against each other.
Untouched ==
    /\ bounded = newLimitReader(0, FALSE, "max")
    /\ sized = newLimitReader(0, TRUE, "long")
    /\ pos = 0 /\ got = 0 /\ reading = NoRead /\ seen = {} /\ trippedFirst = {}

Limits ==
    /\ size >= 0 /\ ~(max > 0 /\ size > max)
    /\ bounded.limit = max
    /\ sized.limit = size

ShapeInv ==
    /\ bounded.exact = FALSE /\ bounded.long = "max"
    /\ sized.exact = TRUE /\ sized.long = "long"
    /\ pc = "call" => Untouched
    /\ pc \in {"provider", "checkBounded", "checkSized"} => Limits
    /\ pc = "done" => Limits \/ Untouched

\* One reader at most holds an error; tripped is set when the Read that found
\* the error returns.
ErrInv ==
    /\ bounded.err \in {"none", "max"}
    /\ sized.err \in {"none", "long", "short"}
    /\ bounded.err = "none" \/ sized.err = "none"
    /\ bounded.tripped <=> bounded.err # "none" /\ reading.who # "bounded"
    /\ sized.tripped <=> sized.err # "none" /\ reading.who # "sized"
    /\ reading.who = "bounded" => bounded.err # "none"
    /\ reading.who = "sized" => sized.err # "none"

\* The counts.
CountInv ==
    /\ pos <= length
    /\ pos = IF bounded.err = "max" \/ sized.err = "long"
             THEN given + 1 ELSE given
    /\ max > 0 => /\ bounded.read <= max
                  /\ bounded.read = IF sized.err = "long"
                                    THEN given + 1 ELSE given
    /\ size > 0 => sized.read <= size /\ sized.read = given
    /\ bounded.err = "max" => max > 0 /\ given = max
    /\ sized.err = "long" => size > 0 /\ given = size
    /\ sized.err = "short" =>
          size > 0 /\ given < size /\ given = length /\ end = "eof"

\* What a reported end says: a clean end follows the whole of a body that kept
\* to its limits, and the failure of a limit is on record in its reader.
EndInv ==
    /\ "nil" \notin seen
    /\ "eof" \in seen => reading.n = 0
    /\ \A e \in seen \cup {reading.e} :
          /\ e = "eof" => given = length /\ Kept /\ end = "eof"
          /\ e = "max" => bounded.err = "max"
          /\ e \in {"long", "short"} => sized.err = e

\* The provider's return, and what Put has looked at since.
ReturnInv ==
    /\ "TooLarge" \notin perr
    /\ trippedFirst \subseteq tripped
    /\ pc \in {"call", "provider"} => trippedFirst = {}
    /\ pc = "checkSized" => "bounded" \notin trippedFirst
    /\ pc \in {"checkBounded", "checkSized"} /\ perr = Nil =>
          /\ reading = NoRead
          /\ committed = got
          /\ seen = {"eof"} \/ tripped # {}
    /\ pc = "checkSized" /\ perr = Nil => ~bounded.tripped

\* What Put returned.
ResultInv ==
    pc = "done" =>
        /\ result = Nil => /\ reading = NoRead
                           /\ committed = got
                           /\ seen = {"eof"}
        /\ "bounded" \in trippedFirst => {"TooLarge", "max"} \subseteq result
        /\ "sized" \in trippedFirst =>
              sized.err \in result \/ "TooLarge" \in result
        /\ "TooLarge" \in result /\ (max = 0 \/ size <= max) => "max" \in result

\* The inductive invariant.
IInv ==
    /\ TypeOK /\ ShapeInv /\ ErrInv /\ CountInv /\ EndInv
    /\ ReturnInv /\ ResultInv

-----------------------------------------------------------------------------
(* limitReader.Read: what it asks its source for, and its three answers.   *)

\* A reader never asks its source for more than it was asked for, asks for one
\* byte at its limit, and for none past it before.
LEMMA AskBounded ==
    ASSUME NEW l \in LimitReader, NEW k \in Nat \ {0},
           l.limit > 0 => l.read <= l.limit
    PROVE  /\ Ask(l, k) \in Nat \ {0}
           /\ Ask(l, k) <= k
           /\ l.limit > 0 /\ l.read = l.limit => Ask(l, k) = 1
           /\ l.limit > 0 /\ l.read < l.limit => l.read + Ask(l, k) <= l.limit
BY DEF Ask, LimitReader

\* The fields of a reader that no answer changes.
SameLimits(l, m) ==
    /\ m \in LimitReader
    /\ m.limit = l.limit /\ m.exact = l.exact /\ m.long = l.long
    /\ m.tripped = l.tripped

\* The answer passes the source's on, counting its bytes.
Passes(l, n, e, a) ==
    /\ a.n = n /\ a.e = e
    /\ SameLimits(l, a.l)
    /\ a.l.err = l.err
    /\ l.limit > 0 => a.l.read = l.read + n /\ l.read + n <= l.limit
    /\ l.limit = 0 => a.l.read = l.read
    /\ l.limit > 0 /\ l.exact /\ e = "eof" => l.read + n = l.limit

\* The answer is that the byte after the limit exists.
Exceeds(l, n, e, a) ==
    /\ l.limit > 0 /\ l.read = l.limit /\ n = 1
    /\ a.n = 0 /\ a.e = l.long
    /\ SameLimits(l, a.l)
    /\ a.l.err = l.long /\ a.l.read = l.read

\* The answer is that the source ended before an exact limit.
FallsShort(l, n, e, a) ==
    /\ l.limit > 0 /\ l.exact /\ e = "eof" /\ l.read + n < l.limit
    /\ a.n = n /\ a.e = "short"
    /\ SameLimits(l, a.l)
    /\ a.l.err = "short" /\ a.l.read = l.read + n

\* A reader that has not tripped answers in one of the three ways.
LEMMA AnswerCases ==
    ASSUME NEW l \in LimitReader, NEW k \in Nat \ {0},
           NEW n \in Nat, NEW e \in ReadErrs,
           l.limit > 0 => l.read <= l.limit,
           ~l.tripped,
           n <= Ask(l, k)
    PROVE  LET a == Answer(l, n, e)
           IN  Passes(l, n, e, a) \/ Exceeds(l, n, e, a) \/ FallsShort(l, n, e, a)
<1> USE DEF LimitReader, SameLimits
<1>1. CASE l.limit = 0
  BY <1>1 DEF Passes, Answer, AnswerAt
<1>2. CASE l.limit > 0 /\ l.read = l.limit
  <2>1. n = 0 \/ n = 1
    BY <1>2, AskBounded
  <2>2. CASE n = 0
    <3>1. Answer(l, n, e) = [n |-> 0, e |-> e, l |-> l]
      BY <1>2, <2>2 DEF Answer, AnswerAt
    <3>2. QED
      BY <3>1, <1>2, <2>2 DEF Passes
  <2>3. CASE n = 1
    <3>1. Answer(l, n, e) = Trip(l, 0, l.long)
      BY <1>2, <2>3 DEF Answer, AnswerAt
    <3>2. QED
      BY <3>1, <1>2, <2>3 DEF Exceeds, Trip
  <2>4. QED
    BY <2>1, <2>2, <2>3
<1>3. CASE l.limit > 0 /\ l.read < l.limit
  <2> DEFINE m == [l EXCEPT !.read = @ + n]
  <2>1. l.read + n <= l.limit
    BY <1>3, AskBounded
  <2>2. CASE l.exact /\ e = "eof" /\ l.read + n < l.limit
    <3>1. Answer(l, n, e) = Trip(m, n, "short")
      BY <1>3, <2>2 DEF Answer, AnswerAt
    <3>2. m \in LimitReader /\ m.read = l.read + n /\ SameLimits(l, m)
      BY <2>1
    <3>3. [m EXCEPT !.err = "short"] \in LimitReader
      BY <3>2
    <3> HIDE DEF m
    <3>4. FallsShort(l, n, e, Trip(m, n, "short"))
      BY <3>2, <3>3, <1>3, <2>2 DEF FallsShort, Trip
    <3>5. QED
      BY <3>1, <3>4
  <2>3. CASE ~(l.exact /\ e = "eof" /\ l.read + n < l.limit)
    <3>1. Answer(l, n, e) = [n |-> n, e |-> e, l |-> m]
      BY <1>3, <2>3 DEF Answer, AnswerAt
    <3>2. QED
      BY <3>1, <1>3, <2>1, <2>3 DEF Passes
  <2>4. QED
    BY <2>2, <2>3
<1>4. QED
  BY <1>1, <1>2, <1>3

\* One that has tripped repeats its error.
LEMMA AnswerTripped ==
    ASSUME NEW l \in LimitReader, NEW n \in Nat, NEW e \in ReadErrs,
           l.limit > 0, l.tripped
    PROVE  Answer(l, n, e) = [n |-> 0, e |-> l.err, l |-> l]
BY DEF Answer, AnswerAt, LimitReader

-----------------------------------------------------------------------------
(* The invariant.                                                          *)

\* Put's call satisfies the invariant.
LEMMA InitInv == Init => IInv
<1> SUFFICES ASSUME Init PROVE IInv
  OBVIOUS
<1> USE LengthsAssumption, BoundsAssumption, SizesAssumption
    DEF Init, newLimitReader, NoRead
<1>1. TypeOK
  BY DEF TypeOK, LimitReader, Readers, ReadErrs, Errors, Nil
<1>2. ShapeInv /\ ErrInv
  BY DEF ShapeInv, ErrInv, Untouched
<1>3. CountInv /\ EndInv
  BY <1>1 DEF CountInv, EndInv, given, TypeOK
<1>4. ReturnInv /\ ResultInv
  BY DEF ReturnInv, ResultInv, Nil
<1>5. QED
  BY <1>1, <1>2, <1>3, <1>4 DEF IInv

\* A call that Put refuses itself.
LEMMA RefuseInv ==
    ASSUME IInv, PutInvalid \/ PutDeclaredTooLarge
    PROVE  IInv'
<1>0. /\ pc = "call" /\ pc' = "done"
      /\ \/ result' = {"Invalid"}
         \/ result' = {"TooLarge"} /\ max > 0 /\ size > max
      /\ UNCHANGED <<length, end, max, size, pos, bounded, sized, reading, got,
                     seen, perr, committed, trippedFirst>>
  BY DEF PutInvalid, PutDeclaredTooLarge, Refuse, body
<1>1. TypeOK'
  BY <1>0 DEF IInv, TypeOK, Errors
<1>2. ShapeInv' /\ ErrInv' /\ CountInv' /\ EndInv'
  BY <1>0 DEF IInv, ShapeInv, Untouched, Limits, ErrInv, CountInv, EndInv, given,
             Kept
<1>3. trippedFirst = {}
  BY <1>0 DEF IInv, ShapeInv, Untouched
<1>4. ReturnInv'
  BY <1>0, <1>3 DEF IInv, ReturnInv
<1>5. ResultInv'
  BY <1>0, <1>3 DEF IInv, TypeOK, ResultInv, Nil
<1>6. QED
  BY <1>1, <1>2, <1>4, <1>5 DEF IInv

\* A call that Put delegates.
LEMMA DelegateInv ==
    ASSUME IInv, PutDelegate
    PROVE  IInv'
<1>0. /\ pc = "call" /\ pc' = "provider"
      /\ size >= 0 /\ ~(max > 0 /\ size > max)
      /\ bounded' = newLimitReader(max, FALSE, "max")
      /\ sized' = newLimitReader(size, TRUE, "long")
      /\ UNCHANGED <<length, end, max, size, pos, reading, got, seen, perr,
                     committed, result, trippedFirst>>
  BY DEF PutDelegate, Delegate, body
<1>1. pos = 0 /\ got = 0 /\ reading = NoRead /\ seen = {} /\ trippedFirst = {}
  BY <1>0 DEF IInv, ShapeInv, Untouched
<1>2. TypeOK'
  BY <1>0 DEF IInv, TypeOK, LimitReader, newLimitReader
<1>3. ShapeInv' /\ ErrInv'
  BY <1>0, <1>1 DEF ShapeInv, Limits, ErrInv, newLimitReader, NoRead
<1>4. CountInv' /\ EndInv'
  BY <1>0, <1>1 DEF IInv, TypeOK, CountInv, EndInv, given, newLimitReader, NoRead
<1>5. ReturnInv' /\ ResultInv'
  BY <1>0, <1>1 DEF IInv, ReturnInv, ResultInv
<1>6. QED
  BY <1>2, <1>3, <1>4, <1>5 DEF IInv

\* The state in which a Read starts and what it leaves alone.
ReadGuard ==
    /\ pc \in {"provider", "checkBounded", "checkSized"}
    /\ pc \in {"checkBounded", "checkSized"} => perr # Nil
    /\ reading = NoRead
    /\ UNCHANGED <<length, end, max, size, got, seen, pc, perr, committed,
                   result, trippedFirst>>

\* A Read disturbs only what the invariant says of errors, counts and ends.
LEMMA ReadFrame ==
    ASSUME IInv, ReadGuard, pos' \in Nat,
           SameLimits(bounded, bounded'), SameLimits(sized, sized'),
           reading' \in [who : Readers \cup {"none", "read"}, n : Nat,
                         e : ReadErrs]
    PROVE  TypeOK' /\ ShapeInv' /\ ReturnInv' /\ ResultInv'
<1>1. TypeOK'
  BY DEF ReadGuard, IInv, TypeOK, SameLimits
<1>2. ShapeInv'
  BY DEF ReadGuard, IInv, ShapeInv, Limits, SameLimits
<1>3. tripped' = tripped
  BY DEF tripped, SameLimits
<1>4. ReturnInv'
  BY <1>3 DEF ReadGuard, IInv, ReturnInv, SameLimits
<1>5. ResultInv'
  BY DEF ReadGuard, ResultInv
<1>6. QED
  BY <1>1, <1>2, <1>4, <1>5

\* A Read of a stack in which a reader has tripped repeats its error.
LEMMA ReadTrippedInv ==
    ASSUME IInv, NEW k \in Buffers, Read(k), bounded.tripped \/ sized.tripped
    PROVE  IInv'
<1>0. ReadGuard
  BY DEF Read, body, ReadGuard
<1> DEFINE inner == Answer(bounded, 0, "nil")
           outer == Answer(sized, inner.n, inner.e)
<1>1. /\ pos' = pos + 0
      /\ bounded' = inner.l
      /\ sized' = outer.l
      /\ reading' = [who |-> IF inner.l.err # bounded.err THEN "bounded"
                             ELSE IF outer.l.err # sized.err THEN "sized"
                             ELSE "read",
                     n |-> outer.n, e |-> outer.e]
  BY DEF Read
<1>2. /\ bounded \in LimitReader /\ sized \in LimitReader /\ pos \in Nat
      /\ Limits /\ "nil" \in ReadErrs
  BY <1>0 DEF IInv, TypeOK, ShapeInv, ReadErrs, ReadGuard
<1>3. ASSUME NEW l \in LimitReader, ~l.tripped, NEW e \in ReadErrs, e # "eof"
      PROVE  Answer(l, 0, e) = [n |-> 0, e |-> e, l |-> l]
  BY <1>3 DEF Answer, AnswerAt, LimitReader
<1>4. \E e \in {"max", "long", "short"} :
         /\ pos' = pos /\ bounded' = bounded /\ sized' = sized
         /\ reading' = [who |-> "read", n |-> 0, e |-> e]
         /\ e = "max" => bounded.err = "max"
         /\ e \in {"long", "short"} => sized.err = e
  <2>1. CASE bounded.tripped
    <3>1. bounded.limit > 0 /\ bounded.err = "max" /\ sized.err = "none"
      BY <1>2, <2>1 DEF IInv, ErrInv, CountInv, Limits
    <3>2. inner = [n |-> 0, e |-> "max", l |-> bounded]
      BY <1>2, <2>1, <3>1, AnswerTripped
    <3>3. outer = [n |-> 0, e |-> "max", l |-> sized]
      <4>1. ~sized.tripped
        BY <3>1 DEF IInv, ErrInv
      <4>2. QED
        BY <1>2, <1>3, <3>2, <4>1 DEF ReadErrs
    <3> HIDE DEF inner, outer
    <3>4. QED
      BY <1>1, <1>2, <3>1, <3>2, <3>3
  <2>2. CASE ~bounded.tripped /\ sized.tripped
    <3>1. sized.limit > 0 /\ sized.err \in {"long", "short"}
      BY <1>2, <2>2 DEF IInv, ErrInv, CountInv, Limits
    <3>2. inner = [n |-> 0, e |-> "nil", l |-> bounded]
      BY <1>2, <1>3, <2>2
    <3>3. outer = [n |-> 0, e |-> sized.err, l |-> sized]
      BY <1>2, <2>2, <3>1, <3>2, AnswerTripped
    <3> HIDE DEF inner, outer
    <3>4. QED
      BY <1>1, <1>2, <3>1, <3>2, <3>3
  <2>3. QED
    BY <2>1, <2>2
<1>5. PICK e \in {"max", "long", "short"} :
         /\ pos' = pos /\ bounded' = bounded /\ sized' = sized
         /\ reading' = [who |-> "read", n |-> 0, e |-> e]
         /\ e = "max" => bounded.err = "max"
         /\ e \in {"long", "short"} => sized.err = e
  BY <1>4
<1>6. TypeOK' /\ ShapeInv' /\ ReturnInv' /\ ResultInv'
  BY <1>0, <1>2, <1>5, ReadFrame DEF SameLimits, ReadErrs
<1>7. given' = given
  BY <1>0, <1>5 DEF given, ReadGuard, NoRead
<1>8. ErrInv' /\ CountInv'
  BY <1>0, <1>5, <1>7 DEF IInv, ErrInv, CountInv, ReadGuard, NoRead
<1>9. EndInv'
  BY <1>0, <1>5, <1>7 DEF IInv, EndInv, Kept, ReadGuard
<1>10. QED
  BY <1>6, <1>8, <1>9 DEF IInv

\* A Read of a stack in which none has: the body answers, the bound passes its
\* answer on or exceeds, the Size's reader passes on, exceeds or falls short.
LEMMA ReadLiveInv ==
    ASSUME IInv, NEW k \in Buffers, Read(k), ~bounded.tripped, ~sized.tripped
    PROVE  IInv'
<1>0. ReadGuard
  BY DEF Read, body, ReadGuard
<1> DEFINE asked == Ask(bounded, Ask(sized, k))
           in(n, e) == Answer(bounded, n, e)
           out(n, e) == Answer(sized, in(n, e).n, in(n, e).e)
<1>1. PICK n \in 0 .. k, e \in {"nil", end} :
         /\ BodyAnswer(asked, n, e)
         /\ pos' = pos + n
         /\ bounded' = in(n, e).l
         /\ sized' = out(n, e).l
         /\ reading' = [who |-> IF in(n, e).l.err # bounded.err THEN "bounded"
                                ELSE IF out(n, e).l.err # sized.err THEN "sized"
                                ELSE "read",
                        n |-> out(n, e).n, e |-> out(n, e).e]
  BY DEF Read
<1> DEFINE inner == in(n, e)
           outer == out(n, e)
<1>2. /\ bounded \in LimitReader /\ sized \in LimitReader
      /\ pos \in Nat /\ got \in Nat /\ length \in Nat /\ max \in Nat /\ size \in Nat
      /\ k \in Nat \ {0} /\ n \in Nat /\ e \in ReadErrs /\ end \in {"eof", "fail"}
      /\ Limits
  BY <1>0, BuffersAssumption DEF IInv, TypeOK, ShapeInv, ReadErrs, ReadGuard, Limits
<1>3. /\ bounded.err = "none" /\ sized.err = "none"
      /\ bounded.exact = FALSE /\ bounded.long = "max"
      /\ sized.exact = TRUE /\ sized.long = "long"
      /\ given = got /\ pos = got
      /\ bounded.limit > 0 => bounded.read = got /\ got <= bounded.limit
      /\ sized.limit > 0 => sized.read = got /\ got <= sized.limit
  BY <1>0, <1>2 DEF IInv, ShapeInv, ErrInv, CountInv, Limits, ReadGuard, NoRead, given
<1>4. /\ n <= asked /\ asked <= Ask(sized, k) /\ Ask(sized, k) \in Nat \ {0}
      /\ pos + n <= length
      /\ e = "nil" \/ (pos + n = length /\ e = end)
  BY <1>1, <1>2, <1>3, AskBounded DEF BodyAnswer
<1>5. Passes(bounded, n, e, inner) \/ Exceeds(bounded, n, e, inner)
  <2>1. \/ Passes(bounded, n, e, inner) \/ Exceeds(bounded, n, e, inner)
        \/ FallsShort(bounded, n, e, inner)
    BY <1>2, <1>3, <1>4, AnswerCases
  <2>2. QED
    BY <2>1, <1>3 DEF FallsShort
<1>6. inner.n \in Nat /\ inner.n <= n /\ inner.e \in ReadErrs
  BY <1>2, <1>3, <1>5 DEF Passes, Exceeds, ReadErrs
<1>7. \/ Passes(sized, inner.n, inner.e, outer)
      \/ Exceeds(sized, inner.n, inner.e, outer)
      \/ FallsShort(sized, inner.n, inner.e, outer)
  <2>1. inner.n <= Ask(sized, k)
    <3> HIDE DEF inner, asked
    <3>1. asked \in Nat
      BY <1>2, <1>3, <1>4, AskBounded DEF asked
    <3>2. QED
      BY <1>2, <1>4, <1>6, <3>1
  <2>2. sized.limit > 0 => sized.read <= sized.limit
    BY <1>3
  <2>3. outer = Answer(sized, inner.n, inner.e)
    OBVIOUS
  <2> HIDE DEF inner, outer
  <2>4. QED
    BY <1>2, <1>6, <2>1, <2>2, <2>3, AnswerCases
<1> HIDE DEF inner, outer, asked
<1>8. /\ bounded' = inner.l /\ sized' = outer.l
      /\ reading' = [who |-> IF inner.l.err # bounded.err THEN "bounded"
                             ELSE IF outer.l.err # sized.err THEN "sized"
                             ELSE "read",
                     n |-> outer.n, e |-> outer.e]
  BY <1>1 DEF inner, outer
<1>9. /\ SameLimits(bounded, bounded') /\ SameLimits(sized, sized')
      /\ outer.n \in Nat /\ outer.e \in ReadErrs /\ given' = got + outer.n
  BY <1>0, <1>5, <1>6, <1>7, <1>8, <1>3
  DEF Passes, Exceeds, FallsShort, ReadErrs, ReadGuard, given
<1>10. TypeOK' /\ ShapeInv' /\ ReturnInv' /\ ResultInv'
  <2>1. pos' \in Nat
    BY <1>1, <1>2
  <2>2. reading' \in [who : Readers \cup {"none", "read"}, n : Nat, e : ReadErrs]
    BY <1>8, <1>9 DEF Readers
  <2>3. QED
    BY <1>0, <1>9, <2>1, <2>2, ReadFrame
<1> USE <1>0, <1>1, <1>2, <1>3, <1>4, <1>8, <1>9
<1>11. CASE Passes(bounded, n, e, inner) /\ Passes(sized, inner.n, inner.e, outer)
  <2>1. ErrInv'
    BY <1>11 DEF Passes, ErrInv, SameLimits
  <2>2. CountInv'
    BY <1>11 DEF Passes, CountInv, Limits, ReadGuard
  <2>3. EndInv'
    BY <1>11 DEF Passes, EndInv, IInv, Limits, ReadGuard, Kept
  <2>4. QED
    BY <2>1, <2>2, <2>3, <1>10 DEF IInv
<1>12. CASE Exceeds(bounded, n, e, inner) /\ Passes(sized, inner.n, inner.e, outer)
  <2>1. ErrInv'
    BY <1>12 DEF Passes, Exceeds, ErrInv, SameLimits
  <2>2. CountInv'
    BY <1>12 DEF Passes, Exceeds, CountInv, Limits, ReadGuard
  <2>3. EndInv'
    BY <1>12 DEF Passes, Exceeds, EndInv, IInv, Limits, ReadGuard, Kept
  <2>4. QED
    BY <2>1, <2>2, <2>3, <1>10 DEF IInv
<1>13. CASE Passes(bounded, n, e, inner) /\ Exceeds(sized, inner.n, inner.e, outer)
  <2>1. ErrInv'
    BY <1>13 DEF Passes, Exceeds, ErrInv, SameLimits
  <2>2. CountInv'
    BY <1>13 DEF Passes, Exceeds, CountInv, Limits, ReadGuard
  <2>3. EndInv'
    BY <1>13 DEF Passes, Exceeds, EndInv, IInv, Limits, ReadGuard, Kept
  <2>4. QED
    BY <2>1, <2>2, <2>3, <1>10 DEF IInv
<1>14. CASE /\ Passes(bounded, n, e, inner)
            /\ FallsShort(sized, inner.n, inner.e, outer)
  <2>1. ErrInv'
    BY <1>14 DEF Passes, FallsShort, ErrInv, SameLimits
  <2>2. CountInv'
    BY <1>14 DEF Passes, FallsShort, CountInv, Limits, ReadGuard
  <2>3. EndInv'
    BY <1>14 DEF Passes, FallsShort, EndInv, IInv, Limits, ReadGuard, Kept
  <2>4. QED
    BY <2>1, <2>2, <2>3, <1>10 DEF IInv
<1>15. Exceeds(bounded, n, e, inner) => Passes(sized, inner.n, inner.e, outer)
  BY <1>7 DEF Exceeds, FallsShort
<1>16. QED
  BY <1>5, <1>7, <1>11, <1>12, <1>13, <1>14, <1>15

\* A Read that returns: trip's second store, and the provider has the bytes.
LEMMA ReadReturnInv ==
    ASSUME IInv, ReadReturn
    PROVE  IInv'
<1>0. /\ reading # NoRead /\ reading' = NoRead
      /\ bounded' = [bounded EXCEPT !.tripped = @ \/ reading.who = "bounded"]
      /\ sized' = [sized EXCEPT !.tripped = @ \/ reading.who = "sized"]
      /\ got' = got + reading.n
      /\ seen' = seen \cup ({reading.e} \ {"nil"})
      /\ UNCHANGED <<length, end, max, size, pos, pc, perr, committed, result,
                     trippedFirst>>
  BY DEF ReadReturn, body
<1>1. TypeOK'
  <2>1. bounded' \in LimitReader /\ sized' \in LimitReader
    BY <1>0 DEF IInv, TypeOK, LimitReader
  <2>2. reading' \in [who : Readers \cup {"none", "read"}, n : Nat, e : ReadErrs]
    BY <1>0 DEF NoRead, ReadErrs
  <2>3. got' \in Nat /\ seen' \subseteq ReadErrs
    BY <1>0 DEF IInv, TypeOK
  <2>4. QED
    BY <1>0, <2>1, <2>2, <2>3 DEF IInv, TypeOK
<1>2. pc # "call" /\ (pc = "done" => Limits)
  BY <1>0 DEF IInv, ShapeInv, Untouched
<1>3. /\ bounded'.err = bounded.err /\ sized'.err = sized.err
      /\ bounded'.read = bounded.read /\ sized'.read = sized.read
      /\ bounded'.limit = bounded.limit /\ sized'.limit = sized.limit
      /\ bounded'.exact = bounded.exact /\ sized'.exact = sized.exact
      /\ bounded'.long = bounded.long /\ sized'.long = sized.long
      /\ bounded'.tripped = (bounded.tripped \/ reading.who = "bounded")
      /\ sized'.tripped = (sized.tripped \/ reading.who = "sized")
  BY <1>0 DEF IInv, TypeOK, LimitReader
<1>4. given' = given
  BY <1>0 DEF IInv, TypeOK, given, NoRead
<1>5. ShapeInv'
  BY <1>0, <1>2, <1>3 DEF IInv, ShapeInv, Limits
<1>6. ErrInv'
  BY <1>0, <1>3 DEF IInv, ErrInv, NoRead
<1>7. CountInv'
  BY <1>0, <1>3, <1>4 DEF IInv, CountInv
<1>8. EndInv'
  BY <1>0, <1>3, <1>4 DEF IInv, EndInv, Kept, NoRead
<1>9. tripped \subseteq tripped'
  BY <1>3 DEF tripped
<1>10. ReturnInv'
  BY <1>0, <1>9 DEF IInv, ReturnInv
<1>11. ResultInv'
  BY <1>0, <1>3 DEF IInv, ResultInv
<1>12. QED
  BY <1>1, <1>5, <1>6, <1>7, <1>8, <1>10, <1>11 DEF IInv

\* The provider's Put returns.
LEMMA ProviderReturnInv ==
    ASSUME IInv, ProviderStores \/ ProviderSwallows \/ ProviderFails
    PROVE  IInv'
<1>0. PICK e :
         /\ ProviderReturn(e)
         /\ \/ /\ e = Nil /\ committed' = got /\ reading = NoRead
               /\ seen = {"eof"} \/ seen \cap {"max", "long", "short"} # {}
            \/ /\ e # Nil /\ committed' = committed
               /\ e \subseteq {"Provider"} \cup (seen \ {"eof"})
  <2>1. CASE ProviderStores \/ ProviderSwallows
    BY <2>1 DEF ProviderStores, ProviderSwallows
  <2>2. CASE ProviderFails
    <3>1. PICK cause \in SUBSET (seen \ {"eof"}) :
             ProviderReturn({"Provider"} \cup cause) /\ committed' = committed
      BY <2>2 DEF ProviderFails
    <3>2. {"Provider"} \cup cause # Nil
      BY DEF Nil
    <3>3. QED
      BY <3>1, <3>2
  <2>3. QED
    BY <2>1, <2>2
<1>1. /\ pc = "provider" /\ pc' = "checkBounded" /\ perr' = e
      /\ trippedFirst' = tripped
      /\ UNCHANGED <<length, end, max, size, pos, bounded, sized, reading, got,
                     seen, result>>
  BY <1>0 DEF ProviderReturn, body
<1>2. e \subseteq {"Provider", "fail", "max", "long", "short"}
  BY <1>0 DEF IInv, TypeOK, EndInv, ReadErrs, Nil
<1>3. TypeOK'
  <2>1. perr' \subseteq Errors
    BY <1>1, <1>2 DEF Errors
  <2>2. committed' \in Nat \cup {-1} /\ trippedFirst' \subseteq Readers
    BY <1>0, <1>1 DEF IInv, TypeOK, tripped
  <2>3. QED
    BY <1>1, <2>1, <2>2 DEF IInv, TypeOK
<1>4. ShapeInv' /\ ErrInv' /\ CountInv' /\ EndInv'
  BY <1>1 DEF IInv, ShapeInv, Limits, ErrInv, CountInv, EndInv, given, Kept
<1>5. tripped' = tripped
  BY <1>1 DEF tripped
<1>6. e = Nil => seen = {"eof"} \/ tripped # {}
  <2>1. SUFFICES ASSUME e = Nil, seen \cap {"max", "long", "short"} # {}
                 PROVE  tripped # {}
    BY <1>0
  <2>2. bounded.err # "none" \/ sized.err # "none"
    BY <2>1 DEF IInv, EndInv
  <2>3. bounded.tripped \/ sized.tripped
    BY <1>0, <2>1, <2>2 DEF IInv, ErrInv, NoRead
  <2>4. QED
    BY <2>3 DEF tripped, Readers
<1>7. ReturnInv'
  BY <1>0, <1>1, <1>2, <1>5, <1>6 DEF IInv, ReturnInv
<1>8. ResultInv'
  BY <1>1 DEF ResultInv
<1>9. QED
  BY <1>3, <1>4, <1>7, <1>8 DEF IInv

\* What Put returns for a reader that tripped has the reader's error in it.
LEMMA FailureIncluded ==
    ASSUME NEW recorded, NEW provider
    PROVE  /\ recorded \subseteq readFailure(recorded, provider)
           /\ readFailure(recorded, provider) \subseteq recorded \cup provider
<1>1. CASE provider = Nil
  BY <1>1 DEF readFailure
<1>2. CASE provider # Nil /\ recorded \subseteq provider
  BY <1>2 DEF readFailure
<1>3. CASE provider # Nil /\ ~(recorded \subseteq provider)
  BY <1>3 DEF readFailure
<1>4. QED
  BY <1>1, <1>2, <1>3

\* Put looks at its readers.
LEMMA CheckInv ==
    ASSUME IInv, PutCheckBounded \/ PutCheckSized
    PROVE  IInv'
<1>0. UNCHANGED <<length, end, max, size, pos, bounded, sized, reading, got, seen,
                  perr, committed, trippedFirst>>
  BY DEF PutCheckBounded, PutCheckSized, body
<1>1. pc \in {"checkBounded", "checkSized"} /\ pc' \in {"checkSized", "done"} /\ Limits
  BY DEF PutCheckBounded, PutCheckSized, IInv, ShapeInv
<1>2. ShapeInv' /\ ErrInv' /\ CountInv' /\ EndInv'
  BY <1>0, <1>1 DEF IInv, ShapeInv, Limits, ErrInv, CountInv, EndInv, given, Kept
<1>3. tripped' = tripped
  BY <1>0 DEF tripped
<1>4. /\ "bounded" \in tripped <=> bounded.tripped
      /\ "sized" \in tripped <=> sized.tripped
      /\ tripped # {} => bounded.tripped \/ sized.tripped
  BY DEF tripped, Readers
<1>5. CASE PutCheckBounded /\ ~bounded.tripped
  <2>1. pc = "checkBounded" /\ pc' = "checkSized" /\ result' = result
    BY <1>5 DEF PutCheckBounded
  <2>2. TypeOK' /\ ResultInv'
    BY <1>0, <2>1 DEF IInv, TypeOK, ResultInv
  <2>3. ReturnInv'
    BY <1>0, <1>3, <1>4, <1>5, <2>1 DEF IInv, ReturnInv
  <2>4. QED
    BY <1>2, <2>2, <2>3 DEF IInv
<1>6. CASE PutCheckBounded /\ bounded.tripped
  <2>1. /\ pc' = "done"
        /\ result' = {"TooLarge"} \cup readFailure(Recorded(bounded), perr)
    BY <1>6 DEF PutCheckBounded
  <2>2. Recorded(bounded) = {"max"}
    BY <1>6 DEF IInv, ErrInv, Recorded
  <2>3. {"TooLarge", "max"} \subseteq result' /\ result' \subseteq Errors
    BY <2>1, <2>2, FailureIncluded DEF IInv, TypeOK, Errors
  <2>4. TypeOK'
    BY <1>0, <2>1, <2>3 DEF IInv, TypeOK
  <2>5. ReturnInv'
    BY <1>0, <1>3, <2>1 DEF IInv, ReturnInv
  <2>6. ResultInv'
    BY <2>3 DEF ResultInv, Nil
  <2>7. QED
    BY <1>2, <2>4, <2>5, <2>6 DEF IInv
<1>7. CASE PutCheckSized
  <2>1. /\ pc = "checkSized" /\ pc' = "done"
        /\ result' = IF sized.tripped THEN readFailure(Recorded(sized), perr)
                                      ELSE perr
    BY <1>7 DEF PutCheckSized
  <2>2. sized.tripped =>
          Recorded(sized) = {sized.err} /\ sized.err \in {"long", "short"}
    BY DEF IInv, ErrInv, Recorded
  <2>3. /\ sized.tripped => sized.err \in result'
        /\ ~sized.tripped => result' = perr
        /\ result' \subseteq perr \cup {"long", "short"}
    BY <2>1, <2>2, FailureIncluded
  <2>4. TypeOK'
    BY <1>0, <2>1, <2>3 DEF IInv, TypeOK, Errors
  <2>5. ReturnInv'
    BY <1>0, <1>3, <2>1 DEF IInv, ReturnInv
  <2>6. result' = Nil => reading = NoRead /\ committed = got /\ seen = {"eof"}
    BY <1>4, <2>1, <2>3 DEF IInv, ReturnInv, Nil
  <2>7. "TooLarge" \notin result' /\ "bounded" \notin trippedFirst
    BY <2>1, <2>3 DEF IInv, ReturnInv
  <2>8. "sized" \in trippedFirst => sized.err \in result'
    BY <1>4, <2>3 DEF IInv, ReturnInv
  <2>9. ResultInv'
    BY <1>0, <2>6, <2>7, <2>8 DEF ResultInv
  <2>10. QED
    BY <1>2, <2>4, <2>5, <2>9 DEF IInv
<1>8. QED
  BY <1>5, <1>6, <1>7

\* Every step of Put, of the readers and of the provider keeps the invariant.
LEMMA StepInv ==
    ASSUME IInv, [Next]_vars
    PROVE  IInv'
<1>1. CASE UNCHANGED vars
  <2> USE <1>1 DEF vars, body
  <2>1. TypeOK'
    BY DEF IInv, TypeOK
  <2>2. ShapeInv'
    BY DEF IInv, ShapeInv, Untouched, Limits
  <2>3. ErrInv'
    BY DEF IInv, ErrInv
  <2>4. CountInv'
    BY DEF IInv, CountInv, given
  <2>5. EndInv'
    BY DEF IInv, EndInv, given, Kept
  <2>6. ReturnInv'
    BY DEF IInv, ReturnInv, tripped
  <2>7. ResultInv'
    BY DEF IInv, ResultInv
  <2>8. QED
    BY <2>1, <2>2, <2>3, <2>4, <2>5, <2>6, <2>7 DEF IInv
<1>2. CASE PutInvalid \/ PutDeclaredTooLarge
  BY <1>2, RefuseInv
<1>3. CASE PutDelegate
  BY <1>3, DelegateInv
<1>4. ASSUME NEW k \in Buffers, Read(k)
      PROVE  IInv'
  BY <1>4, ReadTrippedInv, ReadLiveInv
<1>5. CASE ReadReturn
  BY <1>5, ReadReturnInv
<1>6. CASE ProviderStores \/ ProviderSwallows \/ ProviderFails
  BY <1>6, ProviderReturnInv
<1>7. CASE PutCheckBounded \/ PutCheckSized
  BY <1>7, CheckInv
<1>8. QED
  BY <1>1, <1>2, <1>3, <1>4, <1>5, <1>6, <1>7 DEF Next, Returned

-----------------------------------------------------------------------------
(* The theorems.                                                           *)

\* The invariant holds of every state of a Put, its readers and its provider.
THEOREM Invariance == Spec => []IInv
BY InitInv, StepInv, PTL DEF Spec

\* The values Put and its readers keep are of their types; a reader's count and
\* limit are never negative (store.go:152-190, 283-332).
THEOREM TypeCorrect == Spec => []TypeOK
<1>1. IInv => TypeOK
  BY DEF IInv
<1>2. QED
  BY Invariance, <1>1, PTL

\* A Put that returns nil stored the whole body, which kept to both limits, and
\* no provider is told that a cut body has ended.
THEOREM SuccessMeansStored == Spec => []StoredIsBody
<1>1. IInv => StoredIsBody
  <2> SUFFICES ASSUME IInv PROVE StoredIsBody
    OBVIOUS
  <2>1. ASSUME "eof" \in seen
        PROVE  given = length /\ Kept /\ end = "eof"
    BY <2>1 DEF IInv, EndInv
  <2>2. ASSUME "eof" \in seen PROVE got = length
    BY <2>1, <2>2 DEF IInv, TypeOK, EndInv, given
  <2>3. QED
    BY <2>1, <2>2 DEF IInv, ResultInv, StoredIsBody, Kept
<1>2. QED
  BY Invariance, <1>1, PTL

\* No byte past a limit reaches the provider, and one at most is taken from the
\* body to find out.
THEOREM LimitsHold == Spec => []NothingPastLimit
<1>1. IInv => NothingPastLimit
  BY DEF IInv, TypeOK, CountInv, ShapeInv, given, NothingPastLimit, ErrInv
<1>2. QED
  BY Invariance, <1>1, PTL

\* A limit that failed a read before the provider returned is in Put's error,
\* and a body past a Size equal to the bound is ErrTooLarge.
THEOREM FailuresAreReported == Spec => []FailureReported
<1>1. IInv => FailureReported
  <2> SUFFICES ASSUME IInv PROVE FailureReported
    OBVIOUS
  <2>1. max > 0 /\ size = max => "long" \notin {bounded.err, sized.err}
    BY DEF IInv, TypeOK, ErrInv, CountInv, given
  <2>2. QED
    BY <2>1 DEF IInv, ResultInv, FailureReported
<1>2. QED
  BY Invariance, <1>1, PTL
=============================================================================
