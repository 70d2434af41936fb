----------------------------- MODULE ClientPut ------------------------------
(***************************************************************************)
(* What a provider's Put keeps of the contract of Client.Put (client.go),  *)
(* however it cuts the body and sends it: a request that writes is sent    *)
(* only with the whole of a body that ended cleanly and has its declared   *)
(* size; Put succeeds only once one was applied; a failure of the body is  *)
(* named for what it is, and is what Put returns.  The contract has no     *)
(* Write after a Fail; a request at large when Put gave up allows it here. *)
(***************************************************************************)
EXTENDS Integers

VARIABLES
    length, ending, \* the body: its length, then "eof" or "fail"
    size,           \* opts.Size, 0 when it is not declared
    n, err,         \* the bytes read, and the body's failure
    tries, applied, \* requests that write: at large, and applied
    result          \* what Put returned, [err |-> "none"] before it does

given == <<length, ending, size>>
vars  == <<given, n, err, tries, applied, result>>

BodyErrs == {"body", "short", "long"}
Running  == result.err = "none"

\* The body was read to a clean end and has the declared size.
Whole == n = length /\ ending = "eof" /\ size \in {0, length}

\* The failure e is what the body shows once m bytes of it are read.
Shows(m, e) ==
    \/ e = "body"  /\ ending = "fail" /\ m = length
    \/ e = "short" /\ ending = "eof" /\ m = length /\ m < size
    \/ e = "long"  /\ 0 < size /\ m = size /\ m < length

Init ==
    /\ length \in Nat /\ ending \in {"eof", "fail"} /\ size \in Nat
    /\ n = 0 /\ err = "nil"
    /\ tries = 0 /\ applied = 0
    /\ result = [err |-> "none", size |-> 0]

Fail(e) == result' = [err |-> e, size |-> 0]

\* Bytes are read, never past the declared size.
Read ==
    /\ Running /\ err = "nil"
    /\ n' \in n .. length /\ (size > 0 => n' <= size)
    /\ UNCHANGED <<given, err, tries, applied, result>>

\* The body fails, perhaps with its last bytes, and Put with it or later.
ReadFails ==
    /\ Running /\ err = "nil"
    /\ n' \in n .. length /\ (size > 0 => n' <= size)
    /\ err' \in BodyErrs /\ Shows(n', err')
    /\ UNCHANGED result \/ Fail(err')
    /\ UNCHANGED <<given, tries, applied>>

Send ==
    /\ Running /\ Whole
    /\ tries' = tries + 1
    /\ UNCHANGED <<given, n, err, applied, result>>

Write ==
    /\ tries > 0
    /\ tries' = tries - 1 /\ applied' = applied + 1
    /\ UNCHANGED <<given, n, err, result>>

\* A request is refused, and Put fails with it or later.
Refused ==
    /\ Running /\ tries > 0
    /\ tries' = tries - 1
    /\ UNCHANGED result \/ Fail("refused")
    /\ UNCHANGED <<given, n, err, applied>>

PutFails ==
    /\ Running
    /\ \/ err # "nil" /\ Fail(err)
       \/ /\ err = "nil"
          /\ \E e \in {"Invalid", "Unavailable", "cancel", "refused"} : Fail(e)
    /\ UNCHANGED <<given, n, err, tries, applied>>

PutSucceeds ==
    /\ Running /\ applied > 0
    /\ result' = [err |-> "nil", size |-> length]
    /\ UNCHANGED <<given, n, err, tries, applied>>

Next ==
    \/ Read \/ ReadFails \/ Send \/ Write \/ Refused \/ PutFails \/ PutSucceeds

Spec == Init /\ [][Next]_vars
=============================================================================
