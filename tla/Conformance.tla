---------------------------- MODULE Conformance ----------------------------
(***************************************************************************)
(* The conformance suite (storagetest/suite.go): one case of it, run over  *)
(* a client that keeps the contract of client.go or breaks it in one of    *)
(* the ways of suite_test.go, in a container that others use too.          *)
(*                                                                         *)
(* A case is a script of steps, each a helper of the suite: it calls the   *)
(* client and notes a failure, which for some ends the case (Fatalf).      *)
(* Then the cleanups run.  A call may fail as unavailable, with its effect *)
(* made, not made or, of a Put, still to come.                             *)
(*                                                                         *)
(* A body is its length in units of 512 KiB, of which a short text is one  *)
(* or two, with how it ends and whether it can seek.  A version numbers    *)
(* the Puts, and stands for the ETag and the time.  A key is its name      *)
(* under the suite's own prefix, or Sibling or Other outside it; of its    *)
(* spelling only the length matters, to the key rules.                     *)
(***************************************************************************)
EXTENDS Naturals, Sequences, FiniteSets

CONSTANT MaxFaults \* bound: calls that fail as unavailable

ASSUME MaxFaultsAssumption == MaxFaults \in Nat

VARIABLES
    case, defect, \* the case, and the client's defect or "none"
    container,    \* the container exists
    objects,      \* the object at each key, or Nothing
    puts,         \* the latest version
    late,         \* Puts that were given up, and take effect yet
    step,         \* the step of the script
    phase,        \* "run", "cleanup" or "ended"
    reported,     \* what the latest put of each key reported
    cleanups,     \* the keys to delete when the case ends
    failed,       \* the case has noted a failure
    faults,       \* calls that have failed as unavailable
    leaky,        \* history: a cleanup's own Delete failed
    strays        \* history: keys where a late Put landed after their cleanup

given  == <<case, defect>>
store  == <<container, objects, puts, late>>
suite  == <<step, phase, reported, cleanups, failed, faults, leaky, strays>>
vars   == <<given, store, suite>>

Sibling == "sibling"
Other   == "other"
Names   == {"k", "fresh", "a", "b1", "b2", "never"}
Keys    == Names \cup {Sibling, Other}

\* No object, and what a Put that failed left of one, which only listings show.
Nothing == [len |-> 0, type |-> "", ver |-> 0]
Staged  == [len |-> 0, type |-> "staged", ver |-> 0]

Held(k)  == objects[k] \notin {Nothing, Staged}
Shown(k) == objects[k] # Nothing

-----------------------------------------------------------------------------
(* The scripts.                                                            *)

\* A body that is whole, one that fails after its bytes (failAfter), and one
\* that only reads (readOnly, OneByteReader).
Body(n)   == [len |-> n, breaks |-> FALSE, seeks |-> TRUE]
Broken(n) == [len |-> n, breaks |-> TRUE, seeks |-> FALSE]
Stream(n) == [len |-> n, breaks |-> FALSE, seeks |-> FALSE]

\* put, and the Put of checkFailedPuts, which must fail.  size is 0 and type ""
\* when they are not given.
Put(k, b, size, type) ==
    [do |-> "put", key |-> k, body |-> b, size |-> size, type |-> type]
FailPut(k, b, size) ==
    [do |-> "failput", key |-> k, body |-> b, size |-> size, type |-> "json"]
\* checkReplace's second put, whose ETag must be another.
Replace(k, b, size, type) == [Put(k, b, size, type) EXCEPT !.do = "replace"]
\* wantContent, wantAbsent, wantNotFound of Get and Stat, listAll and wantKeys.
Content(k, n, type) == [do |-> "content", key |-> k, len |-> n, type |-> type]
Absent(k) == [do |-> "absent", key |-> k]
Get(k)    == [do |-> "get", key |-> k]
Stat(k)   == [do |-> "stat", key |-> k]
List(prefix, limit, keys) ==
    [do |-> "list", prefix |-> prefix, limit |-> limit, keys |-> keys]
\* A Delete whose failure ends the case, or does not.
Delete(k, ends) == [do |-> "delete", key |-> k, ends |-> ends]
Ensure == [do |-> "ensure"]
Probe  == [do |-> "probe"]
KeyRules == [do |-> "keys"]
\* An operation of checkMissingContainer.
Missing(o) == [do |-> "missing", op |-> o, key |-> "k", body |-> Body(1),
               size |-> 1, type |-> ""]

checkFailedPuts(b, size) ==
    << FailPut("fresh", b, size), Absent("fresh"),
       Put("k", Body(1), 1, "text"), FailPut("k", b, size),
       Content("k", 1, "text") >>

Nested == {"b1", "b2"}
Listed == {"a"} \cup Nested

\* cases, each after the EnsureContainer of run; the large body is 3 MiB.
Cases ==
    [ EnsureContainer |-> << Ensure, Ensure, Probe >>,
      RoundTrip |-> << Put("k", Body(1), 1, "text"), Content("k", 1, "text") >>,
      LargeBody |-> << Put("k", Body(6), 6, "octet"), Content("k", 6, "octet") >>,
      EmptyBody |-> << Put("k", Body(0), 0, "text"), Content("k", 0, "text") >>,
      Replace |-> << Put("k", Body(1), 0, "text"),
                     Replace("k", Body(2), 0, "json"), Content("k", 2, "json"),
                     List(Names, 0, {"k"}) >>,
      MissingKey |-> << Get("k"), Stat("k") >>,
      Delete |-> << Put("k", Body(1), 0, ""), Delete("k", TRUE), Stat("k"),
                    Get("k"), Delete("k", FALSE), Delete("never", FALSE) >>,
      List |-> << Put("a", Body(1), 0, ""), Put("b1", Body(1), 0, ""),
                  Put("b2", Body(1), 0, ""), Put(Sibling, Body(1), 0, ""),
                  List(Names, 0, Listed), List(Names, 1, Listed),
                  List(Nested, 0, Nested), List({"never"}, 0, {}) >>,
      PutDeclaredSize |-> << Put("k", Body(2), 2, ""), Content("k", 2, "octet") >>,
      PutUnknownSize |-> << Put("k", Body(2), 0, ""), Content("k", 2, "octet") >>,
      PutNonSeekableBody |-> << Put("k", Stream(3), 0, "octet"),
                                Content("k", 3, "octet") >>,
      PutOneByteReads |-> << Put("k", Stream(1), 0, ""),
                             Content("k", 1, "octet") >>,
      PutBodyFailsMidway |->
          checkFailedPuts(Broken(1), 0) \o checkFailedPuts(Broken(6), 0),
      PutSizeMismatch |->
          checkFailedPuts(Body(2), 1) \o checkFailedPuts(Body(2), 3)
             \o checkFailedPuts(Body(6), 5) \o checkFailedPuts(Body(6), 7),
      Capabilities |-> << KeyRules >> ]

MissingContainer == << Missing("probe"), Missing("put"), Missing("get"),
                       Missing("stat"), Missing("delete"), Missing("list") >>

\* RunMissingContainer never ensures the container.
Script == IF case = "MissingContainer" THEN MissingContainer
                                       ELSE << Ensure >> \o Cases[case]
Now == Script[step]

\* brokenClients, those of the missing-container check, and one whose failed Put
\* only a listing shows (wantAbsent): each defect, and the cases that must fail
\* for it.
Catching ==
    [ notFoundOnDelete |-> {"Delete"}, keepsContentType |-> {"Replace"},
      seekOnly |-> {"PutNonSeekableBody", "PutOneByteReads"},
      truncatingPut |-> {"LargeBody"}, emptyETag |-> {"RoundTrip"},
      onePageList |-> {"List"}, ignoresPrefix |-> {"List"},
      ensureOnce |-> {"EnsureContainer"}, permissiveKeys |-> {"Capabilities"},
      unquotedListETag |-> {"List"}, statETagDiffers |-> {"RoundTrip"},
      commitsPartialBody |-> {"PutBodyFailsMidway"},
      overwritesBeforeFailing |-> {"PutBodyFailsMidway"},
      ignoresSize |-> {"PutSizeMismatch"}, truncatesToSize |-> {"PutSizeMismatch"},
      alsoContainerNotFound |-> {"MissingKey"}, alsoUnavailable |-> {"MissingKey"},
      noDefaultContentType |-> {"PutUnknownSize"},
      nonUTCModifiedAt |-> {"RoundTrip"}, nonUTCListModifiedAt |-> {"List"},
      notFoundContainer |-> {"MissingContainer"},
      listsFailedPut |-> {"PutBodyFailsMidway", "PutSizeMismatch"},
      swallowsContainer |-> {"MissingContainer"},
      createsContainer |-> {"MissingContainer"} ]

TypeOK ==
    /\ case \in DOMAIN Cases \cup {"MissingContainer"}
    /\ defect \in DOMAIN Catching \cup {"none"}
    /\ container \in BOOLEAN /\ failed \in BOOLEAN /\ leaky \in BOOLEAN
    /\ \A k \in Keys : Held(k) => container /\ objects[k].ver <= puts
    /\ step \in 1 .. Len(Script) + 1
    /\ phase \in {"run", "cleanup", "ended"}
    /\ phase = "run" => step <= Len(Script)
    /\ cleanups \subseteq Keys \ {Other} /\ strays \subseteq Keys \ {Other}
    /\ \A w \in late : w.key \in Keys \ {Other} /\ w.object.ver <= puts
    /\ faults \in 0 .. MaxFaults

-----------------------------------------------------------------------------
(* The client, as the contract has it but for its defect.                  *)

Min(a, b) == IF a < b THEN a ELSE b

\* What a Put takes of the body, and the size it holds it to.
Taken(p) ==
    CASE defect = "truncatingPut" -> Min(p.body.len, 2)
      [] defect = "truncatesToSize" /\ p.size > 0 -> Min(p.body.len, p.size)
      [] OTHER -> p.body.len

HeldTo(p) ==
    IF defect \in {"ignoresSize", "truncatesToSize", "commitsPartialBody"}
    THEN 0 ELSE p.size

\* The sentinels of an operation's error that are the container's.
ContainerErr(o) ==
    CASE defect = "notFoundContainer" /\ o = "probe" -> {"NotFound"}
      [] defect = "swallowsContainer" /\ o = "delete" -> {}
      [] defect = "createsContainer" /\ o = "put" -> {}
      [] OTHER -> IF container THEN {} ELSE {"ContainerNotFound"}

PutFails(p) ==
    \/ ContainerErr("put") # {}
    \/ defect = "seekOnly" /\ ~p.body.seeks
    \/ p.body.breaks /\ Taken(p) = p.body.len
    \/ HeldTo(p) > 0 /\ Taken(p) # HeldTo(p)

\* What a Put that fails leaves at the key.
LeftBy(p) ==
    CASE defect = "overwritesBeforeFailing" -> Nothing
      [] defect = "listsFailedPut" /\ container /\ ~Held(p.key) -> Staged
      [] OTHER -> objects[p.key]

\* What is at the key after a Put, which is all or nothing.
Stored(p) ==
    IF PutFails(p) /\ ~(defect = "commitsPartialBody" /\ container)
    THEN LeftBy(p)
    ELSE [len |-> Taken(p), ver |-> puts + 1,
          type |-> IF defect = "keepsContentType" /\ Held(p.key)
                   THEN objects[p.key].type
                   ELSE IF p.type = "" THEN "octet" ELSE p.type]

\* What an operation reports of an object: its ETag, as the form and the value,
\* and the zone of its time among the rest.
View(op, o) ==
    [len |-> o.len, type |-> o.type, modifiedAt |-> o.ver,
     etag |-> CASE defect = "emptyETag" /\ op = "put" -> <<"empty", 0>>
                [] defect = "statETagDiffers" /\ op = "stat" -> <<"quoted", 0>>
                [] defect = "unquotedListETag" /\ op = "list" -> <<"bare", o.ver>>
                [] OTHER -> <<"quoted", o.ver>>,
     zone |-> IF \/ defect = "nonUTCModifiedAt" /\ op # "list"
                 \/ defect = "nonUTCListModifiedAt" /\ op = "list"
              THEN "GMT" ELSE "UTC"]

\* What Put reports of what it stored.
Report(p) ==
    [View("put", Stored(p)) EXCEPT
        !.type = IF defect = "noDefaultContentType" /\ p.type = "" THEN "" ELSE @]

\* The sentinels that the error for a missing key matches.
MissingErr ==
    {"NotFound"} \cup {e \in {"ContainerNotFound"} : defect = "alsoContainerNotFound"}
                 \cup {e \in {"Unavailable"} : defect = "alsoUnavailable"}

\* The keys of a walk, all of them but for its defect, and the pages it has.
Walk(l) ==
    LET match == {k \in Keys : Shown(k) /\ (k \in l.prefix \/ defect = "ignoresPrefix")}
    IN  IF defect = "onePageList" /\ l.limit > 0 /\ match # {}
        THEN {CHOOSE k \in match : TRUE} ELSE match

Pages(l) == IF l.limit = 0 THEN 1 ELSE Cardinality(Walk(l))

\* What a Delete leaves at a key, and the sentinels of its error.
Deleted(k) == IF defect = "swallowsContainer" THEN objects[k] ELSE Nothing

DeleteErr(k) ==
    IF defect = "notFoundOnDelete" /\ container /\ ~Held(k)
    THEN MissingErr ELSE ContainerErr("delete")

EnsureFails == defect = "ensureOnce" /\ container

\* Capabilities: the length of the longest key, and the lengths it accepts.
OrdinaryKey  == 3
MaxKeyLength == IF defect = "permissiveKeys" THEN 1 ELSE 4
ValidateKey(n) == defect = "permissiveKeys" \/ n \in 1 .. MaxKeyLength

Init ==
    /\ case \in DOMAIN Cases \cup {"MissingContainer"}
    /\ defect \in DOMAIN Catching \cup {"none"}
    /\ container \in IF case = "MissingContainer" THEN {FALSE} ELSE BOOLEAN
    /\ objects = [k \in Keys |-> Nothing]
    /\ puts = 0 /\ late = {}
    /\ step = 1 /\ phase = "run"
    /\ reported = [k \in Keys |-> View("put", Nothing)]
    /\ cleanups = {}
    /\ failed = FALSE /\ faults = 0 /\ leaky = FALSE /\ strays = {}

-----------------------------------------------------------------------------
(* The suite's judgement of what a step's calls return.                    *)

\* got agrees with want, what Put reported, and has this length and type.
wantObject(got, want, len, type) ==
    /\ got.len = len /\ got.type = type
    /\ got.etag[1] = "quoted" /\ got.etag = want.etag
    /\ got.zone = "UTC" /\ got.modifiedAt = want.modifiedAt

\* Mutant: wantContent trusts what Put reported.
wantContentUnread(c) ==
    wantObject(reported[c.key], reported[c.key], c.len, c.type)

wantContent(c) ==
    /\ wantObject(reported[c.key], reported[c.key], c.len, c.type)
    /\ Held(c.key)
    /\ \A op \in {"get", "stat"} :
          wantObject(View(op, objects[c.key]), reported[c.key], c.len, c.type)

wantNotFound(k) == ~Held(k) /\ MissingErr = {"NotFound"}

\* A walk stays under its prefix.
listAll(l) == Walk(l) \subseteq l.prefix

wantAbsent(k) ==
    LET l == List(Names, 0, {})
    IN  wantNotFound(k) /\ listAll(l) /\ k \notin Walk(l)

wantKeys(l) ==
    /\ Walk(l) = l.keys
    /\ \A k \in l.keys :
          LET got == View("list", objects[k])
          IN  /\ got.len = reported[k].len
              /\ got.etag[1] = "quoted" /\ got.etag = reported[k].etag
              /\ got.zone = "UTC"
    /\ l.limit > 0 => Pages(l) >= Cardinality(l.keys)

checkCapabilities ==
    /\ MaxKeyLength > 0
    /\ ValidateKey(OrdinaryKey)
    /\ ~ValidateKey(0) /\ ~ValidateKey(MaxKeyLength + 1)

\* The step's calls return what they should.
Good(s) ==
    CASE s.do = "put" -> ~PutFails(s)
      [] s.do = "replace" -> ~PutFails(s) /\ Report(s).etag # reported[s.key].etag
      [] s.do = "failput" -> PutFails(s)
      [] s.do = "content" -> wantContent(s)
      [] s.do = "absent" -> wantAbsent(s.key)
      [] s.do \in {"get", "stat"} -> wantNotFound(s.key)
      [] s.do = "list" -> listAll(s) /\ wantKeys(s)
      [] s.do = "delete" -> DeleteErr(s.key) = {}
      [] s.do = "ensure" -> ~EnsureFails
      [] s.do = "probe" -> ContainerErr("probe") = {}
      [] s.do = "keys" -> checkCapabilities
      [] s.do = "missing" -> /\ "ContainerNotFound" \in ContainerErr(s.op)
                              /\ "NotFound" \notin ContainerErr(s.op)

\* A call that returns an error ends the case in these steps.
Ends(s) ==
    \/ s.do \in {"put", "replace", "content", "list", "ensure"}
    \/ s.do = "delete" /\ s.ends

\* What the step's helper judged wrong is noted, and the case goes on or ends.
Judge(bad, ends) ==
    /\ failed' = (failed \/ bad)
    /\ step' = step + 1
    /\ phase' = IF ends \/ step = Len(Script) THEN "cleanup" ELSE "run"

IsPut(s) ==
    s.do \in {"put", "replace", "failput"} \/ (s.do = "missing" /\ s.op = "put")

IsDelete(s) == s.do = "delete" \/ (s.do = "missing" /\ s.op = "delete")

\* Mutant: registers the cleanup once Put has succeeded.
RegisterAfter(s, ok) == cleanups' = cleanups \cup {k \in {s.key} : ok}

\* deleteOnCleanup comes before the Put, whatever becomes of it; only
\* checkMissingContainer, which wants no Put to succeed, registers it after.
Register(s, ok) ==
    cleanups' = cleanups \cup {k \in {s.key} : ok \/ s.do # "missing"}

\* What the step's call does to the store.
Apply(s) ==
    /\ container' = \/ container \/ s.do = "ensure"
                    \/ IsPut(s) /\ ContainerErr("put") = {}
    /\ objects' = [k \in Keys |->
          CASE IsPut(s) /\ k = s.key -> Stored(s)
            [] IsDelete(s) /\ k = s.key -> Deleted(k)
            [] OTHER -> objects[k]]
    /\ puts' = IF IsPut(s) THEN puts + 1 ELSE puts
    /\ UNCHANGED late

-----------------------------------------------------------------------------
(* Steps.                                                                  *)

StepPut ==
    /\ phase = "run" /\ IsPut(Now)
    /\ Register(Now, ~PutFails(Now))
    /\ Apply(Now)
    /\ reported' = IF Now.do = "failput" THEN reported
                   ELSE [reported EXCEPT ![Now.key] = Report(Now)]
    /\ Judge(~Good(Now), Ends(Now) /\ PutFails(Now))
    /\ UNCHANGED <<given, faults, leaky, strays>>

StepCall ==
    /\ phase = "run" /\ ~IsPut(Now)
    /\ Apply(Now)
    /\ Judge(~Good(Now), /\ ~Good(Now) /\ Ends(Now)
                         /\ Now.do = "content" => ~Held(Now.key)
                         /\ Now.do # "list")
    /\ UNCHANGED <<given, reported, cleanups, faults, leaky, strays>>

\* A call of the step fails as unavailable, with its effect made or not, and a
\* Put's perhaps later.  Only a Put that had to fail takes that for what it
\* wanted.
StepUnavailable ==
    /\ phase = "run" /\ faults < MaxFaults /\ Now.do # "keys"
    /\ faults' = faults + 1
    /\ IF IsPut(Now) THEN Register(Now, FALSE) ELSE UNCHANGED cleanups
    /\ \/ UNCHANGED store
       \/ Apply(Now)
       \/ /\ IsPut(Now) /\ ~PutFails(Now)
          /\ late' = late \cup {[key |-> Now.key, object |-> Stored(Now)]}
          /\ puts' = puts + 1
          /\ UNCHANGED <<container, objects>>
    /\ \E ends \in {Ends(Now), Ends(Now) \/ Now.do = "absent"} :
          Judge(Now.do # "failput", ends)
    /\ UNCHANGED <<given, reported, leaky, strays>>

\* A Put that was given up takes effect.
LatePut ==
    /\ \E w \in late :
          /\ late' = late \ {w}
          /\ objects' = [objects EXCEPT ![w.key] = w.object]
          /\ strays' = strays \cup {k \in {w.key} :
                                       phase # "run" /\ k \notin cleanups}
    /\ container' = TRUE
    /\ UNCHANGED <<given, puts, step, phase, reported, cleanups, failed, faults,
                   leaky>>

\* The cleanups' Deletes, each of which may fail in turn.
Cleanup ==
    /\ phase = "cleanup"
    /\ \/ \E k \in cleanups :
             /\ cleanups' = cleanups \ {k}
             /\ \/ /\ objects' = [objects EXCEPT ![k] = Deleted(k)]
                   /\ UNCHANGED <<faults, leaky, strays>>
                \/ /\ faults < MaxFaults
                   /\ faults' = faults + 1 /\ leaky' = TRUE
                   /\ UNCHANGED objects
          /\ UNCHANGED phase
       \/ /\ cleanups = {}
          /\ phase' = "ended"
          /\ UNCHANGED <<objects, cleanups, faults, leaky>>
    /\ UNCHANGED <<given, container, puts, late, step, reported, failed, strays>>

\* Others write and delete objects of theirs in the container.
OtherUser ==
    /\ container /\ phase # "ended"
    /\ objects' = [objects EXCEPT ![Other] =
          IF Held(Other) THEN Nothing
                         ELSE [len |-> 1, type |-> "text", ver |-> puts]]
    /\ UNCHANGED <<given, container, puts, late, suite>>

Next ==
    \/ StepPut \/ StepCall \/ StepUnavailable \/ LatePut \/ Cleanup \/ OtherUser

Spec == Init /\ [][Next]_vars

-----------------------------------------------------------------------------
(* Properties.                                                             *)

\* A client that keeps the contract passes every case, also in a container
\* that others write to, and each broken client of suite_test.go, and one that
\* only a listing gives away, fails the case that is there to catch it
\* (suite.go:36-43, 556-557, suite_test.go:309-311, 348).
VerdictIsRight ==
    phase = "ended" /\ faults = 0 =>
        /\ defect = "none" => ~failed
        /\ defect # "none" => (case \in Catching[defect] => failed)

\* Every object the suite wrote is gone when a case has ended, however it ended,
\* and also one whose Put was reported as failed and had taken effect or took it
\* later in the case (suite.go:39-41, 58-62, 185-199).  What stays is a Put that
\* landed only after the cleanup of its key.  Else only a cleanup that itself
\* failed leaves an object, or a client whose Delete does nothing, or a Put that
\* failed of a client that makes its container on demand, for which
\* checkMissingContainer registers no cleanup beforehand.
NothingLeftBehind ==
    /\ phase = "ended" /\ ~leaky
    /\ defect # "swallowsContainer"
    /\ defect = "createsContainer" /\ case = "MissingContainer" => faults = 0
    => \A k \in Keys \ ({Other} \cup strays) : ~Held(k)
=============================================================================
