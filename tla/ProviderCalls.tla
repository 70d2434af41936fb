--------------------------- MODULE ProviderCalls ---------------------------
(***************************************************************************)
(* The operations of both providers that send control requests: Get's      *)
(* opening and its resumption, Stat, Delete, List, EnsureContainer and     *)
(* Probe (s3/objects.go, s3/client.go, azureblob/objects.go,               *)
(* azureblob/client.go), and the classification of their failures          *)
(* (s3/errors.go, azureblob/errors.go).                                    *)
(*                                                                         *)
(* One call of a client that New made, from any state of the world, while  *)
(* others create and drop the container, take access away, and write and   *)
(* delete the object; a client keeps nothing from one call to the next.    *)
(* The services and the SDKs' retries are external: an answer is a status  *)
(* and an error code, and a try may be lost before or after the service    *)
(* acted on it.                                                            *)
(***************************************************************************)
EXTENDS NewClient

CONSTANT MaxRetries \* bound: retries of one request

ASSUME MaxRetriesAssumption == MaxRetries \in Nat

VARIABLES
    world,    \* the configured container and the one object at the key
    ctx,      \* the caller's context: live, or why it is done
    op,       \* the call in progress, or "idle"
    last,     \* the call made
    valid,    \* its key is one the target API accepts
    req,      \* the request it waits for
    tries,    \* tries of req so far
    retries,  \* how often the SDK tries a request again
    result,   \* what it returned
    seen,     \* history: the worlds during the call
    fault     \* history: how a try of it last failed without the world's doing

call     == <<op, last, valid, req, tries, result>>
callVars == <<world, ctx, call, retries, seen, fault>>

KeyOps == {"get", "stat", "delete"}
Ops    == KeyOps \cup {"resume", "list", "ensure", "probe"}

Requests == {"Get", "GetRange", "Head", "Delete", "List", "Create",
             "HeadContainer"}

\* A container is absent, the caller's, one of another owner that the caller
\* may use, or refused to the caller.  Object 1 is the version that a Get body
\* reads, 2 any other, 0 none.
Worlds == {w \in [container : {"absent", "own", "shared", "refused"},
                  object : 0 .. 2] :
              w.container = "absent" => w.object = 0}

Usable(w) == w.container \in {"own", "shared"}

\* The sentinels and context.Canceled; "other" matches none of them.
Errs == {"nil", "NotFound", "ContainerNotFound", "Unavailable", "Canceled",
         "other"}

CallTypeOK ==
    /\ world \in Worlds /\ seen \subseteq Worlds /\ seen # {}
    /\ ctx \in {"live", "canceled", "deadline"}
    /\ op \in Ops \cup {"idle"} /\ last \in Ops \cup {"none"}
    /\ valid \in BOOLEAN
    /\ req \in Requests \cup {"none"}
    /\ (req = "none") = (op = "idle")
    /\ tries \in 0 .. retries /\ retries \in 0 .. MaxRetries
    /\ result \in Errs
    /\ fault \in {"none", "trouble", "throttled"}

CallInit ==
    /\ world = [container |-> "absent", object |-> 0] /\ seen = {world}
    /\ ctx = "live"
    /\ op = "idle" /\ last = "none" /\ valid = TRUE
    /\ req = "none" /\ tries = 0 /\ retries = 0
    /\ result = "nil"
    /\ fault = "none"

-----------------------------------------------------------------------------
(* The service: what it answers to a request, and what that changes.       *)

Heads == {"Head", "HeadContainer"}

Ans(status, code) == [status |-> status, code |-> code]
OK == Ans(200, "")

\* A HEAD answer has no body, and so no code but the status's name.  Some
\* gateways answer a deletion of a missing key with NoSuchKey, and the owner's
\* re-creation of a bucket with BucketAlreadyExists.
S3Answers(r, w) ==
    CASE r = "Create" ->
           (CASE w.container = "absent" -> {OK}
              [] w.container = "own" ->
                    {OK, Ans(409, "BucketAlreadyOwnedByYou"),
                     Ans(409, "BucketAlreadyExists")}
              [] w.container = "shared" -> {Ans(409, "BucketAlreadyExists")}
              [] w.container = "refused" ->
                    {Ans(409, "BucketAlreadyExists"), Ans(403, "AccessDenied")})
      [] r # "Create" /\ w.container = "absent" ->
            {Ans(404, IF r \in Heads THEN "NotFound" ELSE "NoSuchBucket")}
      [] r # "Create" /\ w.container = "refused" -> {Ans(403, "AccessDenied")}
      [] r = "Delete" /\ Usable(w) ->
            {OK} \cup {Ans(404, "NoSuchKey") : x \in {0} \cap {w.object}}
      [] r \in {"Get", "GetRange", "Head"} /\ Usable(w) /\ w.object = 0 ->
            {Ans(404, IF r = "Head" THEN "NotFound" ELSE "NoSuchKey")}
      [] r = "GetRange" /\ Usable(w) /\ w.object = 2 ->
            {Ans(412, "PreconditionFailed")}
      [] OTHER -> {OK}

AzureAnswers(r, w) ==
    CASE ~valid -> {Ans(400, "InvalidUri")}
      [] valid /\ w.container = "refused" -> {Ans(403, "AuthorizationFailure")}
      [] valid /\ r = "Create" /\ w.container # "refused" ->
            {IF w.container = "absent" THEN OK
                                       ELSE Ans(409, "ContainerAlreadyExists")}
      [] valid /\ r # "Create" /\ w.container = "absent" ->
            {Ans(404, "ContainerNotFound")}
      [] /\ valid /\ Usable(w) /\ w.object = 0
         /\ r \in {"Get", "GetRange", "Head", "Delete"} ->
            {Ans(404, "BlobNotFound")}
      [] valid /\ r = "GetRange" /\ Usable(w) /\ w.object = 2 ->
            {Ans(412, "ConditionNotMet")}
      [] OTHER -> {OK}

Answers(r, w) ==
    IF provider = "s3" THEN S3Answers(r, w) ELSE AzureAnswers(r, w)

Effect(r, w) ==
    CASE r = "Create" /\ w.container = "absent" -> [w EXCEPT !.container = "own"]
      [] r = "Delete" /\ Usable(w) -> [w EXCEPT !.object = 0]
      [] OTHER -> w

\* What a service in trouble answers, with a code of its own or none, as to
\* S3's HEAD requests.
Troubles ==
    {Ans(502, "")} \cup
    IF provider = "s3"
    THEN {a \in {Ans(429, "SlowDown"), Ans(500, "InternalError")} :
             req \notin Heads}
    ELSE {Ans(429, "ServerBusy"), Ans(408, "OperationTimedOut")}

\* A throttled request's answer without a code.
Throttled == Ans(429, "")

\* No answer came; or none came because the context was done.
NoAnswer == Ans(0, "")
Cut      == Ans(0, ctx)

-----------------------------------------------------------------------------
(* errors.go of both providers.                                            *)

S3Classify(a) ==
    CASE a.status = 200 -> "nil"
      [] a.status = 0 -> IF a.code = "canceled" THEN "Canceled"
                                                ELSE "Unavailable"
      [] a.code = "NoSuchBucket" -> "ContainerNotFound"
      [] a.code = "NoSuchKey" -> "NotFound"
      [] \/ a.status >= 500
         \/ a.code \in {"SlowDown", "ServiceUnavailable", "InternalError"} ->
            "Unavailable"
      [] OTHER -> "other"

S3ClassifyResume(a) == IF a.status = 412 THEN "NotFound" ELSE S3Classify(a)

AzureClassify(a) ==
    CASE a.status = 200 -> "nil"
      [] a.status = 0 -> IF a.code = "canceled" THEN "Canceled"
                                                ELSE "Unavailable"
      [] a.code = "ContainerNotFound" -> "ContainerNotFound"
      [] a.code = "BlobNotFound" -> "NotFound"
      [] \/ a.status >= 500
         \/ a.code \in {"ServerBusy", "OperationTimedOut", "InternalError"} ->
            "Unavailable"
      [] OTHER -> "other"

AzureClassifyRead(a) ==
    IF a.code = "ConditionNotMet" THEN "NotFound" ELSE AzureClassify(a)

-----------------------------------------------------------------------------
(* The operations, from the answer to their request on.                    *)

Return(e) ==
    /\ result' = e
    /\ op' = "idle" /\ req' = "none" /\ tries' = 0
    /\ UNCHANGED <<last, valid>>

\* The second request of a call.
Send(r) ==
    /\ req' = r /\ tries' = 0
    /\ UNCHANGED <<op, last, valid, result>>

S3Probe(a) ==
    IF a.code = "NotFound" THEN "ContainerNotFound" ELSE S3Classify(a)

S3Get(a) == Return(S3Classify(a))

S3Resume(a) == Return(S3ClassifyResume(a))

\* Mutant: a 404 is the object's, without a look at the bucket.
S3StatOneRequest(a) ==
    Return(IF a.code = "NotFound" THEN "NotFound" ELSE S3Classify(a))

S3Stat(a) ==
    \/ req = "Head" /\ a.code = "NotFound" /\ Send("HeadContainer")
    \/ req = "Head" /\ a.code # "NotFound" /\ Return(S3Classify(a))
    \/ req = "HeadContainer"
       /\ Return(IF S3Probe(a) = "nil" THEN "NotFound" ELSE S3Probe(a))

S3Delete(a) == Return(IF a.code = "NoSuchKey" THEN "nil" ELSE S3Classify(a))

S3List(a) == Return(S3Classify(a))

\* A failed probe's error joins BucketAlreadyExists, which is no sentinel.
S3EnsureContainer(a) ==
    \/ req = "Create" /\ a.code = "BucketAlreadyExists" /\ Send("HeadContainer")
    \/ req = "Create" /\ a.code # "BucketAlreadyExists"
       /\ Return(IF a.code = "BucketAlreadyOwnedByYou" THEN "nil"
                                                       ELSE S3Classify(a))
    \/ req = "HeadContainer" /\ Return(S3Probe(a))

AzureGet(a) == Return(AzureClassify(a))

AzureResume(a) == Return(AzureClassifyRead(a))

AzureStat(a) == Return(AzureClassify(a))

AzureDelete(a) ==
    Return(IF a.code = "BlobNotFound" THEN "nil" ELSE AzureClassify(a))

AzureList(a) == Return(AzureClassify(a))

AzureEnsureContainer(a) ==
    Return(IF a.code = "ContainerAlreadyExists" THEN "nil"
                                                ELSE AzureClassify(a))

AzureProbe(a) == Return(AzureClassify(a))

\* The call goes on with the answer to its request.
Handle(a) ==
    IF provider = "s3"
    THEN \/ op = "get"    /\ S3Get(a)
         \/ op = "resume" /\ S3Resume(a)
         \/ op = "stat"   /\ S3Stat(a)
         \/ op = "delete" /\ S3Delete(a)
         \/ op = "list"   /\ S3List(a)
         \/ op = "ensure" /\ S3EnsureContainer(a)
         \/ op = "probe"  /\ Return(S3Probe(a))
    ELSE \/ op = "get"    /\ AzureGet(a)
         \/ op = "resume" /\ AzureResume(a)
         \/ op = "stat"   /\ AzureStat(a)
         \/ op = "delete" /\ AzureDelete(a)
         \/ op = "list"   /\ AzureList(a)
         \/ op = "ensure" /\ AzureEnsureContainer(a)
         \/ op = "probe"  /\ AzureProbe(a)

\* The request an operation begins with.
First == [get |-> "Get", resume |-> "GetRange", stat |-> "Head",
          delete |-> "Delete", list |-> "List", ensure |-> "Create",
          probe |-> "HeadContainer"]

\* A call begins, in some world, and the SDK retries its requests as New told
\* it to.  The S3 operations on a key refuse one that breaks its rules.
Call ==
    /\ Use
    /\ retries' = IF RequestRetries < MaxRetries THEN RequestRetries
                                                ELSE MaxRetries
    /\ world' \in Worlds /\ seen' = {world'}
    /\ \E o \in Ops, v \in BOOLEAN :
          /\ v \/ o \in KeyOps
          /\ last' = o /\ valid' = v
          /\ tries' = 0
          /\ IF provider = "s3" /\ ~v
             THEN op' = "idle" /\ req' = "none" /\ result' = "other"
             ELSE op' = o /\ req' = First[o] /\ UNCHANGED result
    /\ UNCHANGED <<ctx, fault>>

-----------------------------------------------------------------------------
(* Tries of a request, repeated by the SDK.                                *)

TryAgain ==
    /\ tries < retries
    /\ tries' = tries + 1
    /\ UNCHANGED <<op, last, valid, req, result>>

\* A try ends in trouble: the next one follows while any are left.
Again(a) ==
    /\ fault' = "trouble"
    /\ TryAgain \/ (tries = retries /\ Handle(a))

Served ==
    /\ world' = Effect(req, world)
    /\ seen' = seen \cup {world'}
    /\ UNCHANGED <<newVars, retries, ctx>>

TryAnswered ==
    /\ op # "idle"
    /\ Served
    /\ \E a \in Answers(req, world) : Handle(a)
    /\ UNCHANGED fault

\* The service acts on the try, and its answer is lost.
TryLost ==
    /\ op # "idle"
    /\ Served
    /\ Again(NoAnswer)

\* The try never arrives, or is answered with trouble.
TryFails ==
    /\ op # "idle"
    /\ \E a \in Troubles \cup {NoAnswer} : Again(a)
    /\ UNCHANGED <<newVars, retries, world, ctx, seen>>

\* The try is throttled, which not every SDK tries again: an answer without a
\* code and below 500 matches no sentinel.
TryThrottled ==
    /\ op # "idle"
    /\ fault' = "throttled"
    /\ TryAgain \/ Handle(Throttled)
    /\ UNCHANGED <<newVars, retries, world, ctx, seen>>

\* A request whose context is done ends, and is not tried again.
TryCut ==
    /\ op # "idle" /\ ctx # "live"
    /\ Handle(Cut)
    /\ UNCHANGED <<newVars, retries, world, ctx, seen, fault>>

-----------------------------------------------------------------------------
(* The world.                                                              *)

CtxDone ==
    /\ op # "idle" /\ ctx = "live"
    /\ ctx' \in {"canceled", "deadline"}
    /\ UNCHANGED <<newVars, retries, world, call, seen, fault>>

WorldChanges(w) ==
    /\ op # "idle"
    /\ world' = w
    /\ seen' = seen \cup {w}
    /\ UNCHANGED <<newVars, retries, ctx, call, fault>>

ContainerCreated ==
    /\ world.container = "absent"
    /\ \E c \in {"own", "shared", "refused"} :
          WorldChanges([world EXCEPT !.container = c])

ContainerDropped ==
    /\ world.container # "absent"
    /\ WorldChanges([container |-> "absent", object |-> 0])

AccessChanges ==
    /\ world.container # "absent"
    /\ \E c \in {"own", "refused"} \ {world.container} :
          WorldChanges([world EXCEPT !.container = c])

ObjectChanges ==
    /\ world.container # "absent"
    /\ \E v \in {0, 2} \ {world.object} :
          WorldChanges([world EXCEPT !.object = v])

CallNext ==
    \/ Call \/ TryAnswered \/ TryLost \/ TryFails \/ TryThrottled
    \/ TryCut \/ CtxDone \/ ContainerCreated \/ ContainerDropped \/ AccessChanges
    \/ ObjectChanges

-----------------------------------------------------------------------------
(* Properties.                                                             *)

\* What the contract lets operation o return in world w, with the faults and
\* the context of the call.
Allowed(o, w, e) ==
    CASE e = "nil" ->
            /\ Usable(w)
            /\ o \in {"get", "stat"} => w.object # 0
            /\ o = "resume" => w.object = 1
            /\ o = "delete" => w.object = 0
      [] e = "NotFound" ->
            /\ w.container # "absent"
            /\ \/ o \in {"get", "stat"} /\ w.object = 0
               \/ o = "resume" /\ w.object # 1
      [] e = "ContainerNotFound" -> w.container = "absent"
      [] e = "Unavailable" -> fault = "trouble" \/ ctx = "deadline"
      [] e = "Canceled" -> ctx = "canceled"
      [] e = "other" ->
            w.container = "refused" \/ ~valid \/ fault = "throttled"

\* What a call returns was true at one moment of the call, although it may have
\* taken two requests, each tried several times, in a world that changed
\* between them and of which a lost try may itself have been the change: Get
\* and Stat say ErrNotFound only of a key that was missing in a container that
\* was there, Delete succeeds only once the key is missing,
\* ErrContainerNotFound means there was no container, and a fault of the
\* service is never taken for an absence nor, unless it throttles without a
\* code, for a refusal (client.go:97-104,
\* s3/objects.go:397-402, s3/client.go:260-262).
AnswerIsOfAMoment ==
    op = "idle" /\ last # "none" =>
        \E w \in seen : Allowed(last, w, result)
=============================================================================
