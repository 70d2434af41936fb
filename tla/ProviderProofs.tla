--------------------------- MODULE ProviderProofs ---------------------------
(***************************************************************************)
(* Proofs about Provider, for integers of every width, every option, every *)
(* number of retries, keys, pages and page sizes.  They are about Spec:    *)
(* none needs the fairness of FairSpec.                                    *)
(***************************************************************************)
EXTENDS Provider, FiniteSetTheorems, TLAPS

-----------------------------------------------------------------------------
(* New.                                                                    *)

\* A remainder, where the modulus is taken off once, never, or added once.
LEMMA Remainder ==
    ASSUME NEW m \in Nat \ {0}, NEW x \in -m .. 2 * m - 1
    PROVE  x % m = IF x < 0 THEN x + m ELSE IF x < m THEN x ELSE x - m
OBVIOUS

\* A number within the width is kept; the first one past it on either side
\* comes out at the other end.
LEMMA WrapValues ==
    /\ \A i \in Ints : Wrap(i) = i
    /\ Wrap(MaxInt + 1) = -MaxInt - 1
    /\ Wrap(-MaxInt - 2) = MaxInt
BY MaxIntAssumption, Remainder DEF Wrap, Ints

\* A client is made of options New accepted, as its provider makes it.
ClientInv ==
    IsClient => /\ Accepted(options)
                /\ made = IF provider = "s3" THEN S3Client(options)
                                             ELSE AzureClient(options)

\* What max_retries becomes in each provider.
LEMMA S3Retries ==
    ASSUME NEW v, maxRetriesOption(v)
    PROVE  /\ maxAttempts(v) \in Ints
           /\ S3ReadRetries(maxAttempts(v)) \in 0 .. MaxInt
           /\ S3ReadRetries(maxAttempts(v)) =
                 CASE maxAttempts(v) = 0 -> DefaultMaxAttempts - 1
                   [] maxAttempts(v) < 0 -> MaxInt
                   [] OTHER -> maxAttempts(v) - 1
           /\ v # Unset => S3ReadRetries(maxAttempts(v)) = v
<1> USE MaxIntAssumption, MarksAssumption DEF Ints, DefaultMaxAttempts
<1>1. CASE v = Unset
  <2>1. maxAttempts(v) = 0
    BY <1>1 DEF maxAttempts
  <2>2. S3ReadRetries(0) = 2
    BY WrapValues DEF S3ReadRetries
  <2>3. QED
    BY <1>1, <2>1, <2>2
<1>2. CASE v # Unset
  <2>1. v \in 0 .. MaxInt
    BY <1>2 DEF maxRetriesOption, Atoi
  <2>2. CASE v < MaxInt
    <3>1. maxAttempts(v) = v + 1
      BY <1>2, <2>1, <2>2, WrapValues DEF maxAttempts
    <3>2. S3ReadRetries(v + 1) = v
      BY <2>1, <2>2, WrapValues DEF S3ReadRetries
    <3>3. QED
      BY <1>2, <2>1, <2>2, <3>1, <3>2
  <2>3. CASE v = MaxInt
    <3>1. maxAttempts(v) = -MaxInt - 1
      BY <1>2, <2>3, WrapValues DEF maxAttempts
    <3>2. S3ReadRetries(-MaxInt - 1) = MaxInt
      <4>1. -MaxInt - 1 # 0 /\ (-MaxInt - 1) - 1 = -MaxInt - 2
        OBVIOUS
      <4>2. QED
        BY <4>1, WrapValues DEF S3ReadRetries
    <3>3. QED
      BY <1>2, <2>1, <2>3, <3>1, <3>2
  <2>4. QED
    BY <2>1, <2>2, <2>3
<1>3. QED
  BY <1>1, <1>2

LEMMA AzureRetries ==
    ASSUME NEW v, maxRetriesOption(v)
    PROVE  LET count == AzureReadRetries(azureMaxRetries(v))
           IN  /\ azureMaxRetries(v) \in Ints
               /\ count \in 0 .. MaxInt
               /\ count = CASE azureMaxRetries(v) = 0 -> 3
                            [] azureMaxRetries(v) < 0 -> 0
                            [] OTHER -> azureMaxRetries(v)
               /\ resuming(count) = count
               /\ v # Unset => count = v
<1> USE MaxIntAssumption, MarksAssumption DEF Ints
<1>1. CASE v = Unset
  BY <1>1 DEF azureMaxRetries, AzureReadRetries, resuming
<1>2. CASE v # Unset
  <2>1. v \in 0 .. MaxInt
    BY <1>2 DEF maxRetriesOption, Atoi
  <2>2. QED
    BY <1>2, <2>1 DEF azureMaxRetries, AzureReadRetries, resuming
<1>3. QED
  BY <1>1, <1>2

\* The other settings of a client New accepted are within their limits.
LEMMA SettingsInLimits ==
    ASSUME NEW o \in OptionMaps, Accepted(o)
    PROVE  /\ Or(o.size, DefaultSize) \in MinSize .. MaxSize
           /\ Or(o.concurrency, DefaultConcurrency) \in 1 .. MaxConcurrency
           /\ Or(o.try_timeout, 0) \in Nat
           /\ S3Client(o) \in Clients
           /\ AzureClient(o) \in Clients
<1>0. /\ o.size \in Int \/ o.size \in {Unset, Text}
      /\ o.concurrency \in Int \/ o.concurrency \in {Unset, Text}
      /\ o.try_timeout \in Int \/ o.try_timeout \in {Unset, Text}
  <2>1. Sizes \subseteq Int /\ Concurrencies \subseteq Int /\ Timeouts \subseteq Int
    BY NumbersAssumption
  <2>2. /\ o.size \in {Unset, Text} \cup Sizes
        /\ o.concurrency \in {Unset, Text} \cup Concurrencies
        /\ o.try_timeout \in {Unset, Text} \cup Timeouts
    BY DEF OptionMaps
  <2>3. QED
    BY <2>1, <2>2
<1>1. Or(o.size, DefaultSize) \in MinSize .. MaxSize
  BY <1>0, SizesAssumption DEF Accepted, sizeOption, Number, Or
<1>2. Or(o.concurrency, DefaultConcurrency) \in 1 .. MaxConcurrency
  BY <1>0, ConcurrencyAssumption
  DEF Accepted, concurrencyOption, Atoi, Number, Or
<1>3. Or(o.try_timeout, 0) \in Nat
  BY <1>0 DEF Accepted, tryTimeoutOption, Number, Or
<1>4. maxRetriesOption(o.max_retries)
  BY DEF Accepted
<1>5. S3Client(o) \in Clients
  BY <1>1, <1>2, <1>3, <1>4, S3Retries DEF S3Client, Clients
<1>6. AzureClient(o) \in Clients
  BY <1>1, <1>2, <1>3, <1>4, AzureRetries DEF AzureClient, Clients
<1>7. QED
  BY <1>1, <1>2, <1>3, <1>5, <1>6

\* So max_retries means the same to a request and to a Get body.
LEMMA RetriesFollow ==
    ASSUME NewTypeOK, ClientInv
    PROVE  RetriesAsConfigured
<1> SUFFICES ASSUME IsClient
             PROVE  /\ RequestRetries = BodyResumes
                    /\ options.max_retries # Unset =>
                          BodyResumes = options.max_retries
  BY DEF RetriesAsConfigured
<1>1. maxRetriesOption(options.max_retries)
  BY DEF ClientInv, Accepted
<1>2. CASE provider = "s3"
  <2>1. /\ made.policy = maxAttempts(options.max_retries)
        /\ made.readRetries = S3ReadRetries(maxAttempts(options.max_retries))
    BY <1>2 DEF ClientInv, S3Client
  <2>2. RequestRetries = (CASE made.policy = 0 -> DefaultMaxAttempts - 1
                            [] made.policy < 0 -> MaxInt
                            [] OTHER -> made.policy - 1)
    BY <1>2 DEF RequestRetries
  <2>3. BodyResumes = made.readRetries
    BY <1>2 DEF BodyResumes
  <2>4. QED
    BY <1>1, <2>1, <2>2, <2>3, S3Retries
<1>3. CASE provider # "s3"
  <2>1. /\ made.policy = azureMaxRetries(options.max_retries)
        /\ made.readRetries =
              AzureReadRetries(azureMaxRetries(options.max_retries))
    BY <1>3 DEF ClientInv, AzureClient
  <2>2. RequestRetries = (CASE made.policy = 0 -> 3
                            [] made.policy < 0 -> 0
                            [] OTHER -> made.policy)
    BY <1>3 DEF RequestRetries
  <2>3. BodyResumes = resuming(made.readRetries)
    BY <1>3 DEF BodyResumes
  <2>4. QED
    BY <1>1, <2>1, <2>2, <2>3, AzureRetries
<1>4. QED
  BY <1>2, <1>3

\* Construction keeps the types and makes clients of accepted options only.
LEMMA NewStep ==
    ASSUME NewTypeOK, ClientInv, NewNext
    PROVE  /\ NewTypeOK' /\ ClientInv'
           /\ made.outcome = "none" /\ made'.outcome # "used"
<1> USE DEF NoClient
<1>1. CASE NewRefuses
  <2>1. made' \in NoClient /\ made'.outcome \in {"error", "panic"}
    BY <1>1 DEF NewRefuses
  <2>2. QED
    BY <1>1, <2>1 DEF NewRefuses, NewTypeOK, ClientInv, IsClient
<1>2. CASE New
  <2>1. /\ made.outcome = "none" /\ options' \in OptionMaps
        /\ UNCHANGED <<provider, cfg>>
        /\ made' = IF Accepted(options')
                   THEN IF provider = "s3" THEN S3Client(options')
                                           ELSE AzureClient(options')
                   ELSE [outcome |-> "error"]
    BY <1>2 DEF New
  <2>2. CASE Accepted(options')
    <3>1. made' \in Clients
      BY <2>1, <2>2, SettingsInLimits
    <3>2. Accepted(options)'
      BY <2>1, <2>2 DEF Accepted
    <3>3. made' = (IF provider = "s3" THEN S3Client(options)
                                      ELSE AzureClient(options))'
      BY <2>1, <2>2
    <3>4. QED
      BY <2>1, <3>1, <3>2, <3>3 DEF NewTypeOK, ClientInv, Clients
  <2>3. CASE ~Accepted(options')
    BY <2>1, <2>3 DEF NewTypeOK, ClientInv, IsClient
  <2>4. QED
    BY <2>2, <2>3
<1>3. QED
  BY <1>1, <1>2 DEF NewNext

\* A client that is put to use is no longer one that was just made.
LEMMA UseStep ==
    ASSUME NewTypeOK, Use
    PROVE  /\ NewTypeOK' /\ ClientInv'
           /\ made.outcome = "client" /\ made'.outcome = "used"
           /\ provider' = provider
<1>1. AnyFields \in Fields /\ NoOptions \in OptionMaps
  BY DEF AnyFields, Fields, NoOptions, OptionMaps
<1>2. QED
  BY <1>1 DEF Use, NewTypeOK, ClientInv, IsClient, NoClient

\* The SDK's retries of a request are a count.
LEMMA RequestRetriesCount ==
    ASSUME NewTypeOK, IsClient
    PROVE  RequestRetries \in Nat
<1>1. made.policy \in Ints
  BY DEF NewTypeOK, IsClient, NoClient, Clients
<1>2. QED
  BY <1>1, MaxIntAssumption DEF RequestRetries, DefaultMaxAttempts, Ints

-----------------------------------------------------------------------------
(* A call.                                                                 *)

\* The request a call may wait for: its first, or S3's look at the bucket.
RequestOf(o, r) ==
    /\ o \in Ops
    /\ \/ r = First[o]
       \/ provider = "s3" /\ o \in {"stat", "ensure"} /\ r = "HeadContainer"

\* A call in progress waits for a request of its own, in a world of its history.
RequestInv ==
    op # "idle" =>
        /\ RequestOf(op, req)
        /\ last = op
        /\ world \in seen

\* S3's Stat looks at the bucket after a 404, which is the bucket's or the
\* object's: whoever creates the bucket in between creates it empty.
StatInv ==
    op = "stat" /\ req = "HeadContainer" =>
        \/ world.container = "absent"
        \/ \E w \in seen : w.container # "absent" /\ w.object = 0

\* A world is one of the four containers, empty if it is absent, and stays so
\* under a request.
LEMMA EffectInWorlds ==
    ASSUME NEW w \in Worlds, NEW r
    PROVE  /\ Effect(r, w) \in Worlds
           /\ r # "Create" => (Effect(r, w).container = w.container)
           /\ r \notin {"Create", "Delete"} => Effect(r, w) = w
<1>1. CASE r = "Create" /\ w.container = "absent"
  BY <1>1 DEF Effect, Worlds
<1>2. CASE r = "Delete" /\ Usable(w)
  BY <1>2 DEF Effect, Worlds, Usable
<1>3. CASE /\ ~(r = "Create" /\ w.container = "absent")
           /\ ~(r = "Delete" /\ Usable(w))
  BY <1>3 DEF Effect
<1>4. QED
  BY <1>1, <1>2, <1>3

\* The request fields a call begins with.
LEMMA FirstRequest ==
    ASSUME NEW o \in Ops
    PROVE  /\ First[o] \in Requests
           /\ o = "get" => First[o] = "Get"
           /\ o = "resume" => First[o] = "GetRange"
           /\ o = "stat" => First[o] = "Head"
           /\ o = "delete" => First[o] = "Delete"
           /\ o = "list" => First[o] = "List"
           /\ o = "ensure" => First[o] = "Create"
           /\ o = "probe" => First[o] = "HeadContainer"
BY DEF First, Ops, KeyOps, Requests

\* The codes by which the operations tell answers apart.
Codes == {"NoSuchBucket", "NoSuchKey", "NotFound", "AccessDenied",
          "PreconditionFailed", "BucketAlreadyOwnedByYou",
          "BucketAlreadyExists", "ContainerNotFound", "BlobNotFound",
          "InvalidUri", "AuthorizationFailure", "ContainerAlreadyExists",
          "ConditionNotMet", "SlowDown", "ServiceUnavailable", "InternalError",
          "ServerBusy", "OperationTimedOut", "canceled"}

\* A success and a lost answer carry none of them.
LEMMA Uncoded ==
    /\ OK.status = 200 /\ OK.code \notin Codes
    /\ NoAnswer.status = 0 /\ NoAnswer.code \notin Codes
BY Zenon DEF OK, NoAnswer, Ans, Codes

\* What S3 answers to each request, by the state of the world.
LEMMA S3AnswerCases ==
    ASSUME NEW r \in Requests, NEW w \in Worlds, NEW a \in S3Answers(r, w)
    PROVE  /\ r # "Create" /\ w.container = "absent" =>
                 /\ a.status = 404
                 /\ a.code = IF r \in {"Head", "HeadContainer"}
                             THEN "NotFound" ELSE "NoSuchBucket"
           /\ r # "Create" /\ w.container = "refused" =>
                 a.status = 403 /\ a.code = "AccessDenied"
           /\ r \in {"Get", "GetRange", "Head"} /\ Usable(w) /\ w.object = 0 =>
                 /\ a.status = 404
                 /\ a.code = IF r = "Head" THEN "NotFound" ELSE "NoSuchKey"
           /\ r = "GetRange" /\ Usable(w) /\ w.object = 2 =>
                 a.status = 412 /\ a.code = "PreconditionFailed"
           /\ (\/ r \in {"Get", "Head"} /\ Usable(w) /\ w.object # 0
               \/ r = "GetRange" /\ Usable(w) /\ w.object = 1
               \/ r \in {"List", "HeadContainer"} /\ Usable(w)) =>
                 a.status = 200 /\ a.code \notin Codes
           /\ r = "Delete" /\ Usable(w) =>
                 \/ a.status = 200 /\ a.code \notin Codes
                 \/ a.status = 404 /\ a.code = "NoSuchKey"
<1>1. CASE r # "Create" /\ w.container = "absent"
  BY <1>1 DEF S3Answers, Heads, Ans, OK, Usable
<1>2. CASE r # "Create" /\ w.container = "refused"
  BY <1>2 DEF S3Answers, Heads, Ans, OK, Usable
<1>3. CASE r = "Create"
  BY <1>3
<1>4. CASE r # "Create" /\ Usable(w)
  <2>1. w.container # "absent" /\ w.container # "refused"
    BY <1>4 DEF Usable
  <2>2. w.object \in 0 .. 2
    BY DEF Worlds
  <2>3. CASE r = "Delete"
    <3>1. S3Answers(r, w) = {OK} \cup {Ans(404, "NoSuchKey") :
                                         x \in {0} \cap {w.object}}
      BY <1>4, <2>1, <2>3 DEF S3Answers, Heads
    <3>2. a = OK \/ a = Ans(404, "NoSuchKey")
      BY <3>1
    <3>3. \/ a.status = 200 /\ a.code \notin Codes
          \/ a.status = 404 /\ a.code = "NoSuchKey"
      <4>1. CASE a = OK
        BY <4>1, Uncoded
      <4>2. CASE a = Ans(404, "NoSuchKey")
        BY <4>2 DEF Ans
      <4>3. QED
        BY <3>2, <4>1, <4>2
    <3>4. QED
      BY <1>4, <2>1, <2>3, <3>3
  <2>4. CASE r \in {"Get", "GetRange", "Head"} /\ w.object = 0
    <3>1. a = Ans(404, IF r = "Head" THEN "NotFound" ELSE "NoSuchKey")
      BY <1>4, <2>1, <2>4 DEF S3Answers, Heads
    <3>2. QED
      BY <1>4, <2>1, <2>4, <3>1 DEF Ans
  <2>5. CASE r = "GetRange" /\ w.object = 2
    BY <1>4, <2>1, <2>5 DEF S3Answers, Heads, Ans, OK
  <2>6. CASE /\ r # "Delete" /\ ~(r = "GetRange" /\ w.object = 2)
             /\ ~(r \in {"Get", "GetRange", "Head"} /\ w.object = 0)
    <3>1. a = OK
      BY <1>4, <2>1, <2>6 DEF S3Answers, Heads
    <3>2. QED
      BY <1>4, <2>1, <2>6, <3>1, Uncoded
  <2>7. QED
    BY <2>3, <2>4, <2>5, <2>6
<1>5. QED
  BY <1>1, <1>2, <1>3, <1>4 DEF Worlds, Usable

\* What each classification makes of an answer.
LEMMA S3Classified ==
    ASSUME NEW a
    PROVE  /\ a.status = 200 /\ a.code \notin Codes => S3Classify(a) = "nil"
           /\ a.status = 0 /\ a.code = "canceled" => S3Classify(a) = "Canceled"
           /\ a.status = 0 /\ a.code \notin Codes =>
                 S3Classify(a) = "Unavailable"
           /\ a.status = 404 /\ a.code = "NoSuchBucket" =>
                 S3Classify(a) = "ContainerNotFound"
           /\ a.status = 404 /\ a.code = "NoSuchKey" => S3Classify(a) = "NotFound"
           /\ a.status \in {403, 404, 409, 412}
              /\ a.code \in {"NotFound", "AccessDenied", "PreconditionFailed",
                             "BucketAlreadyOwnedByYou", "BucketAlreadyExists"} =>
                 S3Classify(a) = "other"
<1>1. ASSUME a.status = 200, a.code \notin Codes PROVE S3Classify(a) = "nil"
  BY <1>1 DEF S3Classify, Codes
<1>2. ASSUME a.status = 0, a.code = "canceled" PROVE S3Classify(a) = "Canceled"
  BY <1>2 DEF S3Classify
<1>3. ASSUME a.status = 0, a.code \notin Codes PROVE S3Classify(a) = "Unavailable"
  BY <1>3 DEF S3Classify, Codes
<1>4. ASSUME a.status = 404, a.code = "NoSuchBucket"
      PROVE  S3Classify(a) = "ContainerNotFound"
  BY <1>4 DEF S3Classify
<1>5. ASSUME a.status = 404, a.code = "NoSuchKey" PROVE S3Classify(a) = "NotFound"
  BY <1>5 DEF S3Classify
<1>6. ASSUME a.status \in {403, 404, 409, 412},
             a.code \in {"NotFound", "AccessDenied", "PreconditionFailed",
                         "BucketAlreadyOwnedByYou", "BucketAlreadyExists"}
      PROVE  S3Classify(a) = "other"
  BY <1>6 DEF S3Classify
<1>7. QED
  BY <1>1, <1>2, <1>3, <1>4, <1>5, <1>6

\* What the answer to the request of a call says of operation o, in the world
\* w that it was sent to and the world u that it left.
Says(o, w, u, e) ==
    \/ /\ e = "nil" /\ Usable(u)
       /\ o \in {"get", "stat"} => u.object # 0
       /\ o = "resume" => u.object = 1
       /\ o = "delete" => u.object = 0
    \/ /\ e = "NotFound" /\ w.container # "absent"
       /\ \/ o \in {"get", "stat"} /\ w.object = 0
          \/ o = "resume" /\ w.object # 1
    \/ e = "ContainerNotFound" /\ w.container = "absent"
    \/ e = "other" /\ (w.container = "refused" \/ ~valid)

\* What S3 answers to the creation of the bucket.
LEMMA S3CreateCases ==
    ASSUME NEW w \in Worlds, NEW a \in S3Answers("Create", w)
    PROVE  \/ /\ a.status = 200 /\ a.code \notin Codes
              /\ w.container \in {"absent", "own"}
           \/ /\ a.status = 409 /\ a.code = "BucketAlreadyOwnedByYou"
              /\ w.container = "own"
           \/ a.status = 409 /\ a.code = "BucketAlreadyExists"
           \/ /\ a.status = 403 /\ a.code = "AccessDenied"
              /\ w.container = "refused"
<1>1. \/ a = OK /\ w.container \in {"absent", "own"}
      \/ a = Ans(409, "BucketAlreadyOwnedByYou") /\ w.container = "own"
      \/ a = Ans(409, "BucketAlreadyExists")
      \/ a = Ans(403, "AccessDenied") /\ w.container = "refused"
  <2>1. CASE w.container = "absent"
    BY <2>1 DEF S3Answers, Heads
  <2>2. CASE w.container = "own"
    BY <2>2 DEF S3Answers, Heads
  <2>3. CASE w.container = "shared"
    BY <2>3 DEF S3Answers, Heads
  <2>4. CASE w.container = "refused"
    BY <2>4 DEF S3Answers, Heads
  <2>5. QED
    BY <2>1, <2>2, <2>3, <2>4 DEF Worlds
<1>2. CASE a = OK /\ w.container \in {"absent", "own"}
  BY <1>2, Uncoded
<1>3. CASE a = Ans(409, "BucketAlreadyOwnedByYou") /\ w.container = "own"
  BY <1>3 DEF Ans
<1>4. CASE a = Ans(409, "BucketAlreadyExists")
  BY <1>4 DEF Ans
<1>5. CASE a = Ans(403, "AccessDenied") /\ w.container = "refused"
  BY <1>5 DEF Ans
<1>6. QED
  BY <1>1, <1>2, <1>3, <1>4, <1>5

\* S3's answer to the first request of a call ends it with what was so before
\* or after the request, or sends it to look at the bucket.
LEMMA S3Says ==
    ASSUME NEW w \in Worlds, provider = "s3", op \in Ops, req = First[op],
           NEW a \in S3Answers(req, w), Handle(a)
    PROVE  \/ \E e \in Errs : Return(e) /\ Says(op, w, Effect(req, w), e)
           \/ /\ op \in {"stat", "ensure"} /\ Send("HeadContainer")
              /\ op = "stat" => \/ w.container = "absent"
                                \/ w.container # "absent" /\ w.object = 0
<1>0. /\ w.container \in {"absent", "refused"} \/ Usable(w)
      /\ w.object \in {0, 1, 2}
      /\ req \in Requests
      /\ Usable(w) => w.container # "absent"
  BY FirstRequest DEF Worlds, Usable
<1>1. CASE op = "get"
  <2>1. req = "Get" /\ Return(S3Classify(a)) /\ Effect(req, w) = w
    BY <1>1, FirstRequest, EffectInWorlds DEF Handle, S3Get
  <2>2. S3Classify(a) \in Errs
    BY <1>0, <2>1, S3AnswerCases, S3Classified DEF Errs
  <2>3. Says(op, w, w, S3Classify(a))
    BY <1>0, <1>1, <2>1, S3AnswerCases, S3Classified DEF Says
  <2>4. QED
    BY <2>1, <2>2, <2>3
<1>2. CASE op = "resume"
  <2>1. /\ req = "GetRange" /\ Return(S3ClassifyResume(a))
        /\ Effect(req, w) = w
    BY <1>2, FirstRequest, EffectInWorlds DEF Handle, S3Resume
  <2>2. S3ClassifyResume(a) \in Errs
    BY <1>0, <2>1, S3AnswerCases, S3Classified DEF Errs, S3ClassifyResume
  <2>3. Says(op, w, w, S3ClassifyResume(a))
    BY <1>0, <1>2, <2>1, S3AnswerCases, S3Classified
    DEF Says, S3ClassifyResume
  <2>4. QED
    BY <2>1, <2>2, <2>3
<1>3. CASE op = "stat"
  <2>1. req = "Head" /\ S3Stat(a) /\ Effect(req, w) = w
    BY <1>3, FirstRequest, EffectInWorlds DEF Handle
  <2>2. CASE a.code = "NotFound"
    <3>1. Send("HeadContainer")
      BY <2>1, <2>2 DEF S3Stat
    <3>2. w.container = "absent" \/ w.object = 0
      BY <1>0, <2>1, <2>2, S3AnswerCases DEF Codes
    <3>3. QED
      BY <1>3, <3>1, <3>2
  <2>3. CASE a.code # "NotFound"
    <3>1. Return(S3Classify(a))
      BY <2>1, <2>3 DEF S3Stat
    <3>2. S3Classify(a) \in Errs
      BY <1>0, <2>1, <2>3, S3AnswerCases, S3Classified DEF Errs
    <3>3. Says(op, w, w, S3Classify(a))
      BY <1>0, <1>3, <2>1, <2>3, S3AnswerCases, S3Classified DEF Says
    <3>4. QED
      BY <2>1, <3>1, <3>2, <3>3
  <2>4. QED
    BY <2>2, <2>3
<1>4. CASE op = "delete"
  <2> DEFINE e == IF a.code = "NoSuchKey" THEN "nil" ELSE S3Classify(a)
  <2>1. req = "Delete" /\ Return(e)
    BY <1>4, FirstRequest DEF Handle, S3Delete
  <2>2. Usable(w) => Effect(req, w) = [w EXCEPT !.object = 0]
    BY <2>1 DEF Effect
  <2>3. Usable(w) => Usable(Effect(req, w)) /\ Effect(req, w).object = 0
    BY <2>2 DEF Worlds, Usable
  <2>4. e \in Errs
    BY <1>0, <2>1, S3AnswerCases, S3Classified DEF Errs, Codes
  <2>5. Says(op, w, Effect(req, w), e)
    BY <1>0, <1>4, <2>1, <2>3, S3AnswerCases, S3Classified DEF Says, Codes
  <2> HIDE DEF e
  <2>6. QED
    BY <2>1, <2>4, <2>5
<1>5. CASE op = "list"
  <2>1. req = "List" /\ Return(S3Classify(a)) /\ Effect(req, w) = w
    BY <1>5, FirstRequest, EffectInWorlds DEF Handle, S3List
  <2>2. S3Classify(a) \in Errs
    BY <1>0, <2>1, S3AnswerCases, S3Classified DEF Errs
  <2>3. Says(op, w, w, S3Classify(a))
    BY <1>0, <1>5, <2>1, S3AnswerCases, S3Classified DEF Says
  <2>4. QED
    BY <2>1, <2>2, <2>3
<1>6. CASE op = "ensure"
  <2>1. req = "Create" /\ S3EnsureContainer(a)
    BY <1>6, FirstRequest DEF Handle
  <2>2. CASE a.code = "BucketAlreadyExists"
    BY <1>6, <2>1, <2>2 DEF S3EnsureContainer
  <2>3. CASE a.code # "BucketAlreadyExists"
    <3> DEFINE e == IF a.code = "BucketAlreadyOwnedByYou" THEN "nil"
                                                          ELSE S3Classify(a)
    <3>1. Return(e)
      BY <2>1, <2>3 DEF S3EnsureContainer
    <3>2. /\ w.container = "absent" => Effect(req, w).container = "own"
          /\ w.container # "absent" => Effect(req, w) = w
      BY <2>1 DEF Effect, Worlds
    <3>3. \/ e = "nil" /\ w.container \in {"absent", "own"}
          \/ e = "other" /\ w.container = "refused"
      <4>1. \/ /\ a.status = 200 /\ a.code \notin Codes
               /\ w.container \in {"absent", "own"}
            \/ /\ a.status = 409 /\ a.code = "BucketAlreadyOwnedByYou"
               /\ w.container = "own"
            \/ /\ a.status = 403 /\ a.code = "AccessDenied"
               /\ w.container = "refused"
        BY <2>1, <2>3, S3CreateCases
      <4>2. /\ a.status = 200 /\ a.code \notin Codes => e = "nil"
            /\ a.code = "BucketAlreadyOwnedByYou" => e = "nil"
            /\ a.status = 403 /\ a.code = "AccessDenied" => e = "other"
        BY S3Classified DEF Codes
      <4> HIDE DEF e
      <4>3. QED
        BY <4>1, <4>2
    <3>4. Says(op, w, Effect(req, w), e) /\ e \in Errs
      BY <1>6, <3>2, <3>3 DEF Says, Errs, Usable
    <3> HIDE DEF e
    <3>5. QED
      BY <3>1, <3>4
  <2>4. QED
    BY <2>2, <2>3
<1>7. CASE op = "probe"
  <2>1. req = "HeadContainer" /\ Return(S3Probe(a)) /\ Effect(req, w) = w
    BY <1>7, FirstRequest, EffectInWorlds DEF Handle
  <2>2. S3Probe(a) \in Errs
    BY <1>0, <2>1, S3AnswerCases, S3Classified DEF Errs, S3Probe, Codes
  <2>3. Says(op, w, w, S3Probe(a))
    BY <1>0, <1>7, <2>1, S3AnswerCases, S3Classified DEF Says, S3Probe, Codes
  <2>4. QED
    BY <2>1, <2>2, <2>3
<1>8. QED
  BY <1>1, <1>2, <1>3, <1>4, <1>5, <1>6, <1>7 DEF Ops, KeyOps

\* A look at the bucket ends the call: Stat then knows which of the two was
\* missing, and EnsureContainer whether the bucket can be used.
LEMMA S3LooksAgain ==
    ASSUME NEW w \in Worlds, provider = "s3", op \in {"stat", "ensure"},
           req = "HeadContainer", NEW a \in S3Answers(req, w), Handle(a)
    PROVE  \/ /\ w.container = "absent" /\ Return("ContainerNotFound")
           \/ /\ w.container = "refused" /\ Return("other")
           \/ /\ Usable(w)
              /\ Return(IF op = "stat" THEN "NotFound" ELSE "nil")
<1>0. /\ w.container \in {"absent", "refused"} \/ Usable(w)
      /\ req \in Requests
  BY DEF Worlds, Usable, Requests
<1>1. \/ w.container = "absent" /\ S3Probe(a) = "ContainerNotFound"
      \/ w.container = "refused" /\ S3Probe(a) = "other"
      \/ Usable(w) /\ S3Probe(a) = "nil"
  BY <1>0, S3AnswerCases, S3Classified DEF S3Probe, Codes
<1>2. CASE op = "stat"
  <2>1. Return(IF S3Probe(a) = "nil" THEN "NotFound" ELSE S3Probe(a))
    BY <1>2 DEF Handle, S3Stat
  <2>2. QED
    BY <1>1, <1>2, <2>1
<1>3. CASE op = "ensure"
  <2>1. Return(S3Probe(a))
    BY <1>3 DEF Handle, S3EnsureContainer
  <2>2. QED
    BY <1>1, <1>3, <2>1
<1>4. QED
  BY <1>2, <1>3

\* What Azure answers to each request, by the state of the world.
LEMMA AzureAnswerCases ==
    ASSUME NEW r \in Requests, NEW w \in Worlds, NEW a \in AzureAnswers(r, w)
    PROVE  \/ ~valid /\ a.status = 400 /\ a.code = "InvalidUri"
           \/ /\ w.container = "refused"
              /\ a.status = 403 /\ a.code = "AuthorizationFailure"
           \/ /\ r = "Create" /\ Usable(w)
              /\ a.status = 409 /\ a.code = "ContainerAlreadyExists"
           \/ /\ r # "Create" /\ w.container = "absent"
              /\ a.status = 404 /\ a.code = "ContainerNotFound"
           \/ /\ r \in {"Get", "GetRange", "Head", "Delete"}
              /\ Usable(w) /\ w.object = 0
              /\ a.status = 404 /\ a.code = "BlobNotFound"
           \/ /\ r = "GetRange" /\ Usable(w) /\ w.object = 2
              /\ a.status = 412 /\ a.code = "ConditionNotMet"
           \/ /\ a.status = 200 /\ a.code \notin Codes
              /\ IF r = "Create" THEN w.container = "absent" ELSE Usable(w)
              /\ r \in {"Get", "GetRange", "Head", "Delete"} => w.object # 0
              /\ r = "GetRange" => w.object = 1
<1>0. /\ w.container \in {"absent", "refused"} \/ Usable(w)
      /\ w.object \in {0, 1, 2}
      /\ Usable(w) => w.container # "absent" /\ w.container # "refused"
  BY DEF Worlds, Usable
<1>1. CASE ~valid
  BY <1>1 DEF AzureAnswers, Ans
<1>2. CASE valid /\ w.container = "refused"
  BY <1>0, <1>2 DEF AzureAnswers, Ans
<1>3. CASE valid /\ r = "Create" /\ w.container = "absent"
  <2>1. a = OK
    BY <1>0, <1>3 DEF AzureAnswers
  <2>2. QED
    BY <1>3, <2>1, Uncoded
<1>4. CASE valid /\ r = "Create" /\ Usable(w)
  <2>1. a = Ans(409, "ContainerAlreadyExists")
    BY <1>0, <1>4 DEF AzureAnswers
  <2>2. QED
    BY <1>4, <2>1 DEF Ans
<1>5. CASE valid /\ r # "Create" /\ w.container = "absent"
  <2>1. a = Ans(404, "ContainerNotFound")
    BY <1>0, <1>5 DEF AzureAnswers
  <2>2. QED
    BY <1>5, <2>1 DEF Ans
<1>6. CASE valid /\ r # "Create" /\ Usable(w)
  <2>1. CASE r \in {"Get", "GetRange", "Head", "Delete"} /\ w.object = 0
    <3>1. a = Ans(404, "BlobNotFound")
      BY <1>0, <1>6, <2>1 DEF AzureAnswers
    <3>2. QED
      BY <1>6, <2>1, <3>1 DEF Ans
  <2>2. CASE r = "GetRange" /\ w.object = 2
    <3>1. a = Ans(412, "ConditionNotMet")
      BY <1>0, <1>6, <2>2 DEF AzureAnswers
    <3>2. QED
      BY <1>6, <2>2, <3>1 DEF Ans
  <2>3. CASE /\ ~(r \in {"Get", "GetRange", "Head", "Delete"} /\ w.object = 0)
             /\ ~(r = "GetRange" /\ w.object = 2)
    <3>1. a = OK
      BY <1>0, <1>6, <2>3 DEF AzureAnswers
    <3>2. QED
      BY <1>0, <1>6, <2>3, <3>1, Uncoded
  <2>4. QED
    BY <2>1, <2>2, <2>3
<1>7. QED
  BY <1>0, <1>1, <1>2, <1>3, <1>4, <1>5, <1>6

LEMMA AzureClassified ==
    ASSUME NEW a
    PROVE  /\ a.status = 200 /\ a.code \notin Codes => AzureClassify(a) = "nil"
           /\ a.status = 0 /\ a.code = "canceled" => AzureClassify(a) = "Canceled"
           /\ a.status = 0 /\ a.code \notin Codes =>
                 AzureClassify(a) = "Unavailable"
           /\ a.status = 404 /\ a.code = "ContainerNotFound" =>
                 AzureClassify(a) = "ContainerNotFound"
           /\ a.status = 404 /\ a.code = "BlobNotFound" =>
                 AzureClassify(a) = "NotFound"
           /\ a.status \in {400, 403, 409, 412}
              /\ a.code \in {"InvalidUri", "AuthorizationFailure",
                             "ContainerAlreadyExists", "ConditionNotMet"} =>
                 AzureClassify(a) = "other"
<1>1. ASSUME a.status = 200, a.code \notin Codes PROVE AzureClassify(a) = "nil"
  BY <1>1 DEF AzureClassify, Codes
<1>2. ASSUME a.status = 0, a.code = "canceled" PROVE AzureClassify(a) = "Canceled"
  BY <1>2 DEF AzureClassify
<1>3. ASSUME a.status = 0, a.code \notin Codes
      PROVE  AzureClassify(a) = "Unavailable"
  BY <1>3 DEF AzureClassify, Codes
<1>4. ASSUME a.status = 404, a.code = "ContainerNotFound"
      PROVE  AzureClassify(a) = "ContainerNotFound"
  BY <1>4 DEF AzureClassify
<1>5. ASSUME a.status = 404, a.code = "BlobNotFound"
      PROVE  AzureClassify(a) = "NotFound"
  BY <1>5 DEF AzureClassify
<1>6. ASSUME a.status \in {400, 403, 409, 412},
             a.code \in {"InvalidUri", "AuthorizationFailure",
                         "ContainerAlreadyExists", "ConditionNotMet"}
      PROVE  AzureClassify(a) = "other"
  BY <1>6 DEF AzureClassify
<1>7. QED
  BY <1>1, <1>2, <1>3, <1>4, <1>5, <1>6

\* Azure's answer ends the call with what was so before or after the request.
LEMMA AzureSays ==
    ASSUME NEW w \in Worlds, provider # "s3", op \in Ops, req = First[op],
           NEW a \in AzureAnswers(req, w), Handle(a)
    PROVE  \E e \in Errs : Return(e) /\ Says(op, w, Effect(req, w), e)
<1>0. /\ w.container \in {"absent", "refused"} \/ Usable(w)
      /\ w.object \in {0, 1, 2}
      /\ req \in Requests
      /\ Usable(w) => w.container # "absent"
  BY FirstRequest DEF Worlds, Usable
<1>1. CASE op \in {"get", "stat", "list", "probe"}
  <2>1. /\ Return(AzureClassify(a)) /\ Effect(req, w) = w
        /\ op \in {"get", "stat"} => req \in {"Get", "Head"}
        /\ req \notin {"Create", "Delete", "GetRange"}
    BY <1>1, FirstRequest, EffectInWorlds
    DEF Handle, AzureGet, AzureStat, AzureList, AzureProbe
  <2>2. AzureClassify(a) \in Errs
    BY <1>0, <2>1, AzureAnswerCases, AzureClassified DEF Errs
  <2>3. \/ AzureClassify(a) = "other" /\ (w.container = "refused" \/ ~valid)
        \/ AzureClassify(a) = "ContainerNotFound" /\ w.container = "absent"
        \/ /\ AzureClassify(a) = "NotFound"
           /\ req \in {"Get", "Head"} /\ Usable(w) /\ w.object = 0
        \/ /\ AzureClassify(a) = "nil" /\ Usable(w)
           /\ req \in {"Get", "Head"} => w.object # 0
    BY <1>0, <2>1, AzureAnswerCases, AzureClassified
  <2>4. req \in {"Get", "Head"} => op \in {"get", "stat"}
    BY <1>1, FirstRequest DEF First
  <2>5. Says(op, w, w, AzureClassify(a))
    BY <1>0, <1>1, <2>1, <2>3, <2>4 DEF Says
  <2>6. QED
    BY <2>1, <2>2, <2>5
<1>2. CASE op = "resume"
  <2>1. /\ req = "GetRange" /\ Return(AzureClassifyRead(a))
        /\ Effect(req, w) = w
    BY <1>2, FirstRequest, EffectInWorlds DEF Handle, AzureResume
  <2>2. AzureClassifyRead(a) \in Errs
    BY <1>0, <2>1, AzureAnswerCases, AzureClassified
    DEF Errs, AzureClassifyRead, Codes
  <2>3. Says(op, w, w, AzureClassifyRead(a))
    BY <1>0, <1>2, <2>1, AzureAnswerCases, AzureClassified
    DEF Says, AzureClassifyRead, Codes
  <2>4. QED
    BY <2>1, <2>2, <2>3
<1>3. CASE op = "delete"
  <2> DEFINE e == IF a.code = "BlobNotFound" THEN "nil" ELSE AzureClassify(a)
  <2>1. req = "Delete" /\ Return(e)
    BY <1>3, FirstRequest DEF Handle, AzureDelete
  <2>2. Usable(w) => Effect(req, w) = [w EXCEPT !.object = 0]
    BY <2>1 DEF Effect
  <2>3. Usable(w) => Usable(Effect(req, w)) /\ Effect(req, w).object = 0
    BY <2>2 DEF Worlds, Usable
  <2>4. e \in Errs
    BY <1>0, <2>1, AzureAnswerCases, AzureClassified DEF Errs, Codes
  <2>5. Says(op, w, Effect(req, w), e)
    BY <1>0, <1>3, <2>1, <2>3, AzureAnswerCases, AzureClassified DEF Says, Codes
  <2> HIDE DEF e
  <2>6. QED
    BY <2>1, <2>4, <2>5
<1>4. CASE op = "ensure"
  <2> DEFINE e == IF a.code = "ContainerAlreadyExists" THEN "nil"
                                                       ELSE AzureClassify(a)
  <2>1. req = "Create" /\ Return(e)
    BY <1>4, FirstRequest DEF Handle, AzureEnsureContainer
  <2>2. /\ w.container = "absent" => Effect(req, w).container = "own"
        /\ w.container # "absent" => Effect(req, w) = w
    BY <2>1 DEF Effect, Worlds
  <2>3. \/ e = "nil" /\ (w.container = "absent" \/ Usable(w))
        \/ e = "other" /\ (w.container = "refused" \/ ~valid)
    BY <1>0, <2>1, AzureAnswerCases, AzureClassified DEF Codes
  <2>4. e \in Errs /\ Says(op, w, Effect(req, w), e)
    BY <1>0, <1>4, <2>2, <2>3 DEF Says, Errs, Usable
  <2> HIDE DEF e
  <2>5. QED
    BY <2>1, <2>4
<1>5. QED
  BY <1>1, <1>2, <1>3, <1>4 DEF Ops, KeyOps

\* An answer classified as a failure of the service, or of the context, ends
\* every operation with that failure.
LEMMA FailureEnds ==
    ASSUME RequestOf(op, req), NEW a,
           NEW e \in {"Unavailable", "Canceled", "other"},
           IF provider = "s3" THEN S3Classify(a) = e ELSE AzureClassify(a) = e,
           a.status # 412,
           a.code \notin {"NotFound", "NoSuchKey", "BucketAlreadyExists",
                          "BucketAlreadyOwnedByYou", "BlobNotFound",
                          "ContainerAlreadyExists", "ConditionNotMet"},
           Handle(a)
    PROVE  Return(e)
<1>1. CASE provider = "s3"
  <2>1. S3Classify(a) = e /\ S3ClassifyResume(a) = e /\ S3Probe(a) = e
    BY <1>1 DEF S3ClassifyResume, S3Probe
  <2>2. CASE op \in {"get", "resume", "delete", "list", "probe"}
    BY <1>1, <2>1, <2>2 DEF Handle, S3Get, S3Resume, S3Delete, S3List
  <2>3. CASE op = "stat"
    <3>1. S3Stat(a)
      BY <1>1, <2>3 DEF Handle
    <3>2. QED
      BY <2>1, <3>1 DEF S3Stat
  <2>4. CASE op = "ensure"
    <3>1. S3EnsureContainer(a)
      BY <1>1, <2>4 DEF Handle
    <3>2. QED
      BY <2>1, <3>1 DEF S3EnsureContainer
  <2>5. QED
    BY <2>2, <2>3, <2>4 DEF RequestOf, Ops, KeyOps
<1>2. CASE provider # "s3"
  <2>1. AzureClassify(a) = e /\ AzureClassifyRead(a) = e
    BY <1>2 DEF AzureClassifyRead
  <2>2. CASE op \in {"get", "stat", "list", "probe"}
    BY <1>2, <2>1, <2>2
    DEF Handle, AzureGet, AzureStat, AzureList, AzureProbe
  <2>3. CASE op \in {"resume", "delete", "ensure"}
    BY <1>2, <2>1, <2>3
    DEF Handle, AzureResume, AzureDelete, AzureEnsureContainer
  <2>4. QED
    BY <2>2, <2>3 DEF RequestOf, Ops, KeyOps
<1>3. QED
  BY <1>1, <1>2

\* A service in trouble, or one that cannot be reached, is ErrUnavailable.
LEMMA TroubleEnds ==
    ASSUME RequestOf(op, req), NEW a \in Troubles \cup {NoAnswer}, Handle(a)
    PROVE  Return("Unavailable")
<1>1. /\ a.status # 412
      /\ a.code \notin {"NotFound", "NoSuchKey", "BucketAlreadyExists",
                        "BucketAlreadyOwnedByYou", "BlobNotFound",
                        "ContainerAlreadyExists", "ConditionNotMet"}
      /\ IF provider = "s3" THEN S3Classify(a) = "Unavailable"
                            ELSE AzureClassify(a) = "Unavailable"
  <2>1. CASE a = NoAnswer
    BY <2>1, Uncoded, S3Classified, AzureClassified DEF Codes
  <2>2. CASE a = Ans(502, "")
    <3>1. a.status = 502 /\ a.code \notin Codes
      BY <2>2, Zenon DEF Ans, Codes
    <3>2. S3Classify(a) = "Unavailable"
      BY <3>1 DEF S3Classify, Codes
    <3>3. AzureClassify(a) = "Unavailable"
      BY <3>1 DEF AzureClassify, Codes
    <3>4. QED
      BY <3>1, <3>2, <3>3 DEF Codes
  <2>3. CASE provider = "s3" /\ a = Ans(429, "SlowDown")
    BY <2>3 DEF Ans, S3Classify
  <2>4. CASE provider = "s3" /\ a = Ans(500, "InternalError")
    BY <2>4 DEF Ans, S3Classify
  <2>5. CASE provider # "s3" /\ a = Ans(429, "ServerBusy")
    BY <2>5 DEF Ans, AzureClassify
  <2>6. CASE provider # "s3" /\ a = Ans(408, "OperationTimedOut")
    BY <2>6 DEF Ans, AzureClassify
  <2>7. QED
    <3>1. CASE provider = "s3"
      <4>1. a \in {NoAnswer, Ans(502, ""), Ans(429, "SlowDown"),
                   Ans(500, "InternalError")}
        BY <3>1, ZenonT(60) DEF Troubles
      <4>2. QED
        BY <2>1, <2>2, <2>3, <2>4, <3>1, <4>1, ZenonT(60)
    <3>2. CASE provider # "s3"
      <4>1. a \in {NoAnswer, Ans(502, ""), Ans(429, "ServerBusy"),
                   Ans(408, "OperationTimedOut")}
        BY <3>2, ZenonT(60) DEF Troubles
      <4>2. QED
        BY <2>1, <2>2, <2>5, <2>6, <3>2, <4>1, ZenonT(60)
    <3>3. QED
      BY <3>1, <3>2
<1>2. QED
  BY <1>1, FailureEnds

\* A throttling answer without a code matches no sentinel.
LEMMA ThrottledEnds ==
    ASSUME RequestOf(op, req), Handle(Throttled)
    PROVE  Return("other")
<1>1. Throttled.status = 429 /\ Throttled.code \notin Codes
  BY Zenon DEF Throttled, Ans, Codes
<1>2. S3Classify(Throttled) = "other" /\ AzureClassify(Throttled) = "other"
  BY <1>1 DEF S3Classify, AzureClassify, Codes
<1>3. QED
  BY <1>1, <1>2, FailureEnds DEF Codes

\* A context that is done is reported as what ended it.
LEMMA CutEnds ==
    ASSUME RequestOf(op, req), ctx \in {"canceled", "deadline"}, Handle(Cut)
    PROVE  \/ ctx = "canceled" /\ Return("Canceled")
           \/ ctx = "deadline" /\ Return("Unavailable")
<1>1. Cut.status = 0 /\ Cut.code = ctx
  BY DEF Cut, Ans
<1>2. CASE ctx = "canceled"
  BY <1>1, <1>2, FailureEnds, S3Classified, AzureClassified
<1>3. CASE ctx = "deadline"
  <2>1. Cut.code \notin Codes
    BY <1>1, <1>3 DEF Codes
  <2>2. QED
    BY <1>1, <1>3, <2>1, FailureEnds, S3Classified, AzureClassified
<1>4. QED
  BY <1>2, <1>3

CallInv == RequestInv /\ StatInv /\ AnswerIsOfAMoment

\* What a service said of a call's request is a right answer to the call.
LEMMA SaidIsAllowed ==
    ASSUME NEW e \in Errs, Return(e), last = op, op \in Ops,
           NEW w \in seen', NEW u \in seen', Says(op, w, u, e)
    PROVE  AnswerIsOfAMoment'
<1>1. last' = op /\ result' = e /\ valid' = valid
  BY DEF Return
<1>2. CASE e = "nil"
  <2>1. Allowed(last, u, result)'
    BY <1>1, <1>2 DEF Says, Allowed, Ops, KeyOps
  <2>2. QED
    BY <2>1 DEF AnswerIsOfAMoment
<1>3. CASE e = "NotFound"
  <2>1. Allowed(last, w, result)'
    BY <1>1, <1>3 DEF Says, Allowed, Ops, KeyOps
  <2>2. QED
    BY <2>1 DEF AnswerIsOfAMoment
<1>4. CASE e = "ContainerNotFound"
  <2>1. Allowed(last, w, result)'
    BY <1>1, <1>4 DEF Says, Allowed, Ops, KeyOps
  <2>2. QED
    BY <2>1 DEF AnswerIsOfAMoment
<1>5. CASE e = "other"
  <2>1. Allowed(last, w, result)'
    BY <1>1, <1>5 DEF Says, Allowed, Ops, KeyOps
  <2>2. QED
    BY <2>1 DEF AnswerIsOfAMoment
<1>6. QED
  BY <1>2, <1>3, <1>4, <1>5 DEF Says

\* A failure is a right answer once the call met one.
LEMMA FailureIsAllowed ==
    ASSUME NEW e \in Errs, Return(e), seen' # {},
           \/ e = "Unavailable" /\ (fault' = "trouble" \/ ctx' = "deadline")
           \/ e = "Canceled" /\ ctx' = "canceled"
           \/ e = "other" /\ fault' = "throttled"
    PROVE  AnswerIsOfAMoment'
<1>1. result' = e
  BY DEF Return
<1>2. PICK w \in seen' : TRUE
  OBVIOUS
<1>3. Allowed(last, w, e)'
  BY DEF Allowed
<1>4. QED
  BY <1>1, <1>2, <1>3 DEF AnswerIsOfAMoment

\* A call that returns leaves nothing of its request.
LEMMA ReturnKeeps ==
    ASSUME CallTypeOK, NEW e \in Errs, Return(e),
           world' \in Worlds, seen' \subseteq Worlds, seen' # {},
           UNCHANGED <<retries, ctx>>,
           fault' \in {"none", "trouble", "throttled"}
    PROVE  CallTypeOK' /\ RequestInv' /\ StatInv'
BY DEF CallTypeOK, Return, RequestInv, StatInv

\* The service acts on a request: the world it leaves is one of the call's, and
\* a Stat that looks at the bucket still has its reason to.
LEMMA ServedKeeps ==
    ASSUME CallTypeOK, RequestInv, op # "idle", Served
    PROVE  /\ world' = Effect(req, world) /\ world' \in Worlds
           /\ seen' \subseteq Worlds /\ seen' # {}
           /\ seen \subseteq seen' /\ world \in seen' /\ world' \in seen'
           /\ req = "HeadContainer" => world' = world
           /\ UNCHANGED <<retries, ctx, provider>>
<1>1. world' = Effect(req, world) /\ seen' = seen \cup {world'}
      /\ UNCHANGED <<retries, ctx, provider>>
  BY DEF Served, newVars
<1>2. world \in Worlds /\ seen \subseteq Worlds /\ world \in seen
  BY DEF CallTypeOK, RequestInv
<1>3. /\ Effect(req, world) \in Worlds
      /\ req = "HeadContainer" => Effect(req, world) = world
  BY <1>2, EffectInWorlds
<1>4. QED
  BY <1>1, <1>2, <1>3

\* A call that goes on with a second request is still in order.
LEMMA SendKeeps ==
    ASSUME CallTypeOK, RequestInv, op \in {"stat", "ensure"}, provider = "s3",
           Send("HeadContainer"),
           world' \in seen', world' \in Worlds, seen' \subseteq Worlds,
           op = "stat" => \/ world'.container = "absent"
                          \/ world'.container # "absent" /\ world'.object = 0,
           UNCHANGED <<provider, retries, ctx, fault>>
    PROVE  CallTypeOK' /\ CallInv'
<1>1. /\ req' = "HeadContainer" /\ tries' = 0
      /\ UNCHANGED <<op, last, valid, result>>
  BY DEF Send
<1>2. CallTypeOK'
  BY <1>1 DEF CallTypeOK, Requests
<1>3. RequestInv'
  BY <1>1 DEF RequestInv, RequestOf
<1>4. StatInv'
  BY <1>1 DEF StatInv
<1>5. AnswerIsOfAMoment'
  BY <1>1 DEF AnswerIsOfAMoment
<1>6. QED
  BY <1>2, <1>3, <1>4, <1>5 DEF CallInv

\* The answer to a request keeps the call in order, and ends it rightly.
LEMMA AnsweredStep ==
    ASSUME CallTypeOK, CallInv, TryAnswered
    PROVE  CallTypeOK' /\ CallInv'
<1>0. /\ op # "idle" /\ RequestInv /\ StatInv
      /\ RequestOf(op, req) /\ last = op /\ op \in Ops
      /\ world \in Worlds
      /\ fault \in {"none", "trouble", "throttled"} /\ fault' = fault
      /\ Served
  BY DEF TryAnswered, CallInv, RequestInv, RequestOf, CallTypeOK
<1>1. /\ world' = Effect(req, world) /\ world' \in Worlds
      /\ seen' \subseteq Worlds /\ seen' # {}
      /\ seen \subseteq seen' /\ world \in seen' /\ world' \in seen'
      /\ req = "HeadContainer" => world' = world
      /\ UNCHANGED <<retries, ctx, provider>>
  BY <1>0, ServedKeeps
<1>2. PICK a \in Answers(req, world) : Handle(a)
  BY DEF TryAnswered
<1>3. ASSUME NEW e \in Errs, Return(e), Says(op, world, world', e)
      PROVE  CallTypeOK' /\ CallInv'
  <2>1. CallTypeOK' /\ RequestInv' /\ StatInv'
    BY <1>0, <1>1, <1>3, ReturnKeeps
  <2>2. AnswerIsOfAMoment'
    BY <1>0, <1>1, <1>3, SaidIsAllowed
  <2>3. QED
    BY <2>1, <2>2 DEF CallInv
<1>4. CASE provider # "s3"
  <2>1. req = First[op] /\ a \in AzureAnswers(req, world)
    BY <1>0, <1>2, <1>4 DEF RequestOf, Answers
  <2>2. QED
    BY <1>0, <1>1, <1>2, <1>3, <1>4, <2>1, AzureSays
<1>5. CASE provider = "s3" /\ req = First[op]
  <2>1. a \in S3Answers(req, world)
    BY <1>2, <1>5 DEF Answers
  <2>2. CASE \E e \in Errs : Return(e) /\ Says(op, world, Effect(req, world), e)
    BY <1>1, <1>3, <2>2
  <2>3. CASE /\ op \in {"stat", "ensure"} /\ Send("HeadContainer")
             /\ op = "stat" => \/ world.container = "absent"
                               \/ world.container # "absent" /\ world.object = 0
    <3>1. op = "stat" => world' = world
      BY <1>0, <1>1, <1>5, FirstRequest, EffectInWorlds
    <3>2. QED
      BY <1>0, <1>1, <1>5, <2>3, <3>1, SendKeeps
  <2>4. QED
    BY <1>0, <1>2, <1>5, <2>1, <2>2, <2>3, S3Says
<1>6. CASE /\ provider = "s3" /\ req = "HeadContainer"
           /\ op \in {"stat", "ensure"}
  <2>1. a \in S3Answers(req, world)
    BY <1>2, <1>6 DEF Answers
  <2>2. CASE world.container = "absent" /\ Return("ContainerNotFound")
    BY <1>3, <2>2 DEF Says, Errs
  <2>3. CASE world.container = "refused" /\ Return("other")
    BY <1>3, <2>3 DEF Says, Errs
  <2>4. CASE Usable(world) /\ Return(IF op = "stat" THEN "NotFound" ELSE "nil")
    <3>1. CASE op = "ensure"
      BY <1>1, <1>3, <1>6, <2>4, <3>1 DEF Says, Errs
    <3>2. CASE op = "stat"
      <4>1. PICK w \in seen : w.container # "absent" /\ w.object = 0
        BY <1>0, <1>6, <2>4, <3>2 DEF StatInv, Usable
      <4>2. Says(op, w, w, "NotFound") /\ w \in seen' /\ Return("NotFound")
        BY <1>1, <2>4, <3>2, <4>1 DEF Says
      <4>3. "NotFound" \in Errs
        BY DEF Errs
      <4>4. AnswerIsOfAMoment'
        BY <1>0, <4>2, <4>3, SaidIsAllowed
      <4>5. CallTypeOK' /\ RequestInv' /\ StatInv'
        BY <1>0, <1>1, <4>2, <4>3, ReturnKeeps
      <4>6. QED
        BY <4>4, <4>5 DEF CallInv
    <3>3. QED
      BY <1>6, <3>1, <3>2
  <2>5. QED
    BY <1>0, <1>2, <1>6, <2>1, <2>2, <2>3, <2>4, S3LooksAgain
<1>7. QED
  BY <1>0, <1>4, <1>5, <1>6 DEF RequestOf

\* Another try follows, and the call is still in order.
LEMMA TryAgainStep ==
    ASSUME CallTypeOK, CallInv, op # "idle", TryAgain,
           world' \in Worlds, seen' \subseteq Worlds, seen \subseteq seen',
           world' \in seen', req = "HeadContainer" => world' = world,
           fault' \in {"none", "trouble", "throttled"},
           UNCHANGED <<provider, retries, ctx>>
    PROVE  CallTypeOK' /\ CallInv'
<1>0. RequestInv /\ StatInv /\ RequestOf(op, req) /\ seen' # {}
  BY DEF CallInv, RequestInv
<1>1. /\ tries < retries /\ tries' = tries + 1
      /\ UNCHANGED <<op, last, valid, req, result>>
  BY DEF TryAgain
<1>2. CallTypeOK'
  BY <1>0, <1>1, MaxRetriesAssumption DEF CallTypeOK
<1>3. RequestInv'
  BY <1>0, <1>1 DEF RequestInv, RequestOf
<1>4. StatInv'
  BY <1>0, <1>1 DEF StatInv
<1>5. AnswerIsOfAMoment'
  BY <1>1 DEF AnswerIsOfAMoment
<1>6. QED
  BY <1>2, <1>3, <1>4, <1>5 DEF CallInv

\* A try that ends in trouble is followed by another, or ends the call.
LEMMA AgainStep ==
    ASSUME CallTypeOK, CallInv, op # "idle",
           NEW a \in Troubles \cup {NoAnswer}, Again(a),
           world' \in Worlds, seen' \subseteq Worlds, seen \subseteq seen',
           world' \in seen', req = "HeadContainer" => world' = world,
           UNCHANGED <<provider, retries, ctx>>
    PROVE  CallTypeOK' /\ CallInv'
<1>0. RequestOf(op, req) /\ seen' # {} /\ fault' = "trouble"
  BY DEF CallInv, RequestInv, Again
<1>1. CASE TryAgain
  BY <1>0, <1>1, TryAgainStep
<1>2. CASE tries = retries /\ Handle(a)
  <2>1. Return("Unavailable") /\ "Unavailable" \in Errs
    BY <1>0, <1>2, TroubleEnds DEF Errs
  <2>2. CallTypeOK' /\ RequestInv' /\ StatInv'
    BY <1>0, <2>1, ReturnKeeps
  <2>3. AnswerIsOfAMoment'
    BY <1>0, <2>1, FailureIsAllowed
  <2>4. QED
    BY <2>2, <2>3 DEF CallInv
<1>3. QED
  BY <1>1, <1>2 DEF Again

\* So is one that is throttled.
LEMMA ThrottledStep ==
    ASSUME CallTypeOK, CallInv, TryThrottled
    PROVE  CallTypeOK' /\ CallInv'
<1>0. /\ op # "idle" /\ RequestOf(op, req) /\ fault' = "throttled"
      /\ UNCHANGED <<provider, retries, world, ctx, seen>>
      /\ world \in Worlds /\ seen \subseteq Worlds /\ seen # {}
      /\ world \in seen
  BY DEF TryThrottled, CallInv, RequestInv, CallTypeOK, newVars
<1>1. CASE TryAgain
  BY <1>0, <1>1, TryAgainStep
<1>2. CASE Handle(Throttled)
  <2>1. Return("other") /\ "other" \in Errs
    BY <1>0, <1>2, ThrottledEnds DEF Errs
  <2>2. CallTypeOK' /\ RequestInv' /\ StatInv'
    BY <1>0, <2>1, ReturnKeeps
  <2>3. AnswerIsOfAMoment'
    BY <1>0, <2>1, FailureIsAllowed
  <2>4. QED
    BY <2>2, <2>3 DEF CallInv
<1>3. QED
  BY <1>1, <1>2 DEF TryThrottled

\* A context that is done ends the call.
LEMMA CutStep ==
    ASSUME CallTypeOK, CallInv, TryCut
    PROVE  CallTypeOK' /\ CallInv'
<1>0. /\ op # "idle" /\ RequestOf(op, req) /\ Handle(Cut)
      /\ ctx \in {"canceled", "deadline"}
      /\ UNCHANGED <<provider, retries, world, ctx, seen, fault>>
      /\ world \in Worlds /\ seen \subseteq Worlds /\ seen # {}
      /\ fault \in {"none", "trouble", "throttled"}
  BY DEF TryCut, CallInv, RequestInv, CallTypeOK, newVars
<1>1. PICK e \in {"Canceled", "Unavailable"} :
         /\ Return(e)
         /\ \/ e = "Unavailable" /\ ctx = "deadline"
            \/ e = "Canceled" /\ ctx = "canceled"
  BY <1>0, CutEnds
<1>2. e \in Errs
  BY DEF Errs
<1>3. CallTypeOK' /\ RequestInv' /\ StatInv'
  BY <1>0, <1>1, <1>2, ReturnKeeps
<1>4. AnswerIsOfAMoment'
  BY <1>0, <1>1, <1>2, FailureIsAllowed
<1>5. QED
  BY <1>3, <1>4 DEF CallInv

\* The world changes under a call: it takes a moment without a container before
\* one can be there without Stat's reason to ask.
LEMMA WorldStep ==
    ASSUME CallTypeOK, CallInv, NEW w \in Worlds, WorldChanges(w),
           \/ w.container = "absent" \/ w.object = 0
           \/ world.container # "absent"
    PROVE  CallTypeOK' /\ CallInv'
<1>0. /\ op # "idle" /\ world' = w /\ seen' = seen \cup {w}
      /\ UNCHANGED <<provider, retries, ctx, fault>>
      /\ UNCHANGED <<op, last, valid, req, tries, result>>
      /\ RequestInv /\ StatInv
  BY DEF WorldChanges, newVars, call, CallInv
<1>1. CallTypeOK'
  BY <1>0 DEF CallTypeOK
<1>2. RequestInv'
  BY <1>0 DEF RequestInv, RequestOf
<1>3. StatInv'
  BY <1>0 DEF StatInv
<1>4. AnswerIsOfAMoment'
  BY <1>0 DEF AnswerIsOfAMoment
<1>5. QED
  BY <1>1, <1>2, <1>3, <1>4 DEF CallInv

\* A call begins.
LEMMA BeginStep ==
    ASSUME NewTypeOK, CallTypeOK, CallInv, Call
    PROVE  CallTypeOK' /\ CallInv'
<1>0. /\ world' \in Worlds /\ seen' = {world'} /\ provider' = provider
      /\ UNCHANGED <<ctx, fault>>
      /\ retries' = IF RequestRetries < MaxRetries THEN RequestRetries
                                                  ELSE MaxRetries
      /\ IsClient
  BY DEF Call, Use
<1>1. retries' \in 0 .. MaxRetries
  BY <1>0, RequestRetriesCount, MaxRetriesAssumption
<1>2. PICK o \in Ops, v \in BOOLEAN :
         /\ v \/ o \in KeyOps
         /\ last' = o /\ valid' = v
         /\ tries' = 0
         /\ IF provider = "s3" /\ ~v
            THEN op' = "idle" /\ req' = "none" /\ result' = "other"
            ELSE op' = o /\ req' = First[o] /\ UNCHANGED result
  BY DEF Call
<1>3. o # "idle" /\ First[o] # "none" /\ First[o] \in Requests
  BY FirstRequest DEF Ops, KeyOps, Requests
<1>4. CASE provider = "s3" /\ ~v
  <2>1. op' = "idle" /\ req' = "none" /\ result' = "other"
    BY <1>2, <1>4
  <2>2. CallTypeOK'
    BY <1>0, <1>1, <1>2, <2>1, MaxRetriesAssumption DEF CallTypeOK, Errs
  <2>3. RequestInv' /\ StatInv'
    BY <2>1 DEF RequestInv, StatInv
  <2>4. Allowed(last, world, result)'
    BY <1>2, <1>4, <2>1 DEF Allowed
  <2>5. AnswerIsOfAMoment'
    BY <1>0, <2>4 DEF AnswerIsOfAMoment
  <2>6. QED
    BY <2>2, <2>3, <2>5 DEF CallInv
<1>5. CASE ~(provider = "s3" /\ ~v)
  <2>1. op' = o /\ req' = First[o] /\ result' = result
    BY <1>2, <1>5
  <2>2. CallTypeOK'
    BY <1>0, <1>1, <1>2, <1>3, <2>1, MaxRetriesAssumption DEF CallTypeOK
  <2>3. RequestInv'
    BY <1>0, <1>2, <2>1 DEF RequestInv, RequestOf
  <2>4. StatInv'
    BY <1>2, <2>1, FirstRequest DEF StatInv
  <2>5. AnswerIsOfAMoment'
    BY <1>3, <2>1 DEF AnswerIsOfAMoment
  <2>6. QED
    BY <2>2, <2>3, <2>4, <2>5 DEF CallInv
<1>6. QED
  BY <1>4, <1>5

\* Every step of a call, and of the world around it.
LEMMA CallStep ==
    ASSUME NewTypeOK, CallTypeOK, CallInv, CallNext
    PROVE  CallTypeOK' /\ CallInv'
<1>0. world \in Worlds /\ seen \subseteq Worlds /\ RequestInv
  BY DEF CallTypeOK, CallInv
<1>1. CASE Call
  BY <1>1, BeginStep
<1>2. CASE TryAnswered
  BY <1>2, AnsweredStep
<1>3. CASE TryLost
  <2>1. op # "idle" /\ Served /\ Again(NoAnswer)
    BY <1>3 DEF TryLost
  <2>2. QED
    BY <1>0, <2>1, ServedKeeps, AgainStep
<1>4. CASE TryFails
  <2>1. PICK a \in Troubles \cup {NoAnswer} : Again(a)
    BY <1>4 DEF TryFails
  <2>2. op # "idle" /\ UNCHANGED <<provider, retries, world, ctx, seen>>
    BY <1>4 DEF TryFails, newVars
  <2>3. world' \in seen'
    BY <1>0, <2>2 DEF RequestInv
  <2>4. QED
    BY <1>0, <2>1, <2>2, <2>3, AgainStep
<1>5. CASE TryCut
  BY <1>5, CutStep
<1>6. CASE CtxDone
  <2>1. /\ op # "idle" /\ ctx' \in {"canceled", "deadline"}
        /\ UNCHANGED <<provider, retries, world, seen, fault>>
        /\ UNCHANGED <<op, last, valid, req, tries, result>>
    BY <1>6 DEF CtxDone, newVars, call
  <2>2. CallTypeOK'
    BY <2>1 DEF CallTypeOK
  <2>3. RequestInv' /\ StatInv'
    BY <2>1 DEF CallInv, RequestInv, RequestOf, StatInv
  <2>4. AnswerIsOfAMoment'
    BY <2>1 DEF AnswerIsOfAMoment
  <2>5. QED
    BY <2>2, <2>3, <2>4 DEF CallInv
<1>7. CASE ContainerCreated
  <2>1. PICK c \in {"own", "shared", "refused"} :
           WorldChanges([world EXCEPT !.container = c])
    BY <1>7 DEF ContainerCreated
  <2> DEFINE w == [world EXCEPT !.container = c]
  <2>2. w \in Worlds /\ w.object = 0
    BY <1>0, <1>7 DEF Worlds, ContainerCreated
  <2> HIDE DEF w
  <2>3. QED
    BY <2>1, <2>2, WorldStep DEF w
<1>8. CASE ContainerDropped
  <2> DEFINE w == [container |-> "absent", object |-> 0]
  <2>1. w \in Worlds /\ w.container = "absent" /\ WorldChanges(w)
    BY <1>8 DEF Worlds, ContainerDropped
  <2> HIDE DEF w
  <2>2. QED
    BY <2>1, WorldStep
<1>9. CASE AccessChanges
  <2>1. PICK c \in {"own", "refused"} :
           WorldChanges([world EXCEPT !.container = c])
    BY <1>9 DEF AccessChanges
  <2>2. /\ [world EXCEPT !.container = c] \in Worlds
        /\ world.container # "absent"
    BY <1>0, <1>9 DEF Worlds, AccessChanges
  <2>3. QED
    BY <2>1, <2>2, WorldStep
<1>10. CASE ObjectChanges
  <2>1. PICK v \in {0, 2} : WorldChanges([world EXCEPT !.object = v])
    BY <1>10 DEF ObjectChanges
  <2>2. /\ [world EXCEPT !.object = v] \in Worlds
        /\ world.container # "absent"
    BY <1>0, <1>10 DEF Worlds, ObjectChanges
  <2>3. QED
    BY <2>1, <2>2, WorldStep
<1>11. CASE TryThrottled
  BY <1>11, ThrottledStep
<1>12. QED
  BY <1>1, <1>2, <1>3, <1>4, <1>5, <1>6, <1>7, <1>8, <1>9, <1>10, <1>11
  DEF CallNext

\* What construction makes of itself while calls and walks go on.
LEMMA NewKept ==
    ASSUME NewTypeOK, ClientInv, CallNext \/ WalkNext
    PROVE  /\ NewTypeOK' /\ ClientInv' /\ provider' = provider
           /\ made'.outcome # "used" => UNCHANGED newVars
<1>1. CASE Use
  BY <1>1, UseStep
<1>2. CASE UNCHANGED newVars
  <2>1. UNCHANGED <<provider, cfg, options, made>>
    BY <1>2 DEF newVars
  <2>2. QED
    BY <1>2, <2>1 DEF NewTypeOK, ClientInv, IsClient, Accepted, S3Client,
                      AzureClient
<1>3. Use \/ UNCHANGED newVars
  <2>1. CASE CallNext
    BY <2>1 DEF CallNext, Call, TryAnswered, TryLost, TryFails, TryThrottled,
       TryCut, Served, CtxDone, ContainerCreated, ContainerDropped, AccessChanges,
       ObjectChanges, WorldChanges
  <2>2. CASE WalkNext
    BY <2>2 DEF WalkNext, Walk, List, ListFails, Write, Delete
  <2>3. QED
    BY <2>1, <2>2
<1>4. QED
  BY <1>1, <1>2, <1>3

-----------------------------------------------------------------------------
(* A walk.                                                                 *)

\* A finite set of keys has a last one: otherwise there were a smallest set
\* without, and it would be no smaller without one of its members.
LEMMA LastKey ==
    ASSUME NEW S, S \subseteq Nat, IsFiniteSet(S), S # {}
    PROVE  \E k \in S : \A j \in S : j <= k
<1> DEFINE HasLast(T) == \E k \in T : \A j \in T : j <= k
           Bad == {T \in FiniteSubsetsOf(Nat) : T # {} /\ ~HasLast(T)}
<1>1. SUFFICES ASSUME Bad # {} PROVE FALSE
  <2>1. S \in FiniteSubsetsOf(Nat)
    BY DEF FiniteSubsetsOf
  <2>2. ~HasLast(S) => S \in Bad
    BY <2>1
  <2>3. QED
    BY <2>2
<1>2. PICK T \in Bad : \A U \in Bad : <<U, T>> \notin StrictSubsetOrdering(Nat)
  <2>1. Bad \subseteq FiniteSubsetsOf(Nat)
    OBVIOUS
  <2> HIDE DEF Bad
  <2>2. QED
    BY <1>1, <2>1, WFMin, FS_StrictSubsetOrderingWellFounded
<1>3. T \subseteq Nat /\ IsFiniteSet(T) /\ T # {} /\ ~HasLast(T)
  BY <1>2 DEF FiniteSubsetsOf
<1>4. PICK x \in T : TRUE
  BY <1>3
<1> DEFINE U == T \ {x}
<1>5. IsFiniteSet(U) /\ U \subseteq Nat /\ U \subseteq T /\ U # T
  BY <1>3, FS_RemoveElement
<1>6. U \notin Bad
  <2>1. <<U, T>> \in StrictSubsetOrdering(Nat)
    BY <1>3, <1>5 DEF StrictSubsetOrdering
  <2>2. QED
    BY <1>2, <2>1
<1>7. U = {} \/ HasLast(U)
  BY <1>5, <1>6 DEF FiniteSubsetsOf
<1>8. CASE U = {}
  <2>1. \A j \in T : j <= x
    BY <1>3, <1>8
  <2>2. QED
    BY <1>3, <2>1
<1>9. CASE HasLast(U)
  <2>1. PICK m \in U : \A j \in U : j <= m
    BY <1>9
  <2>2. CASE x <= m
    <3>1. \A j \in T : j <= m
      BY <2>1, <2>2
    <3>2. QED
      BY <1>3, <2>1, <3>1
  <2>3. CASE ~(x <= m)
    <3>1. \A j \in T : j <= x
      BY <1>3, <2>1, <2>3
    <3>2. QED
      BY <1>3, <3>1
  <2>4. QED
    BY <2>2, <2>3
<1>10. QED
  BY <1>7, <1>8, <1>9

\* What a listing says of an object is what Stat says of it.
LEMMA ListedAsHeader ==
    ASSUME NEW k \in Keys, lister \in {"s3", "azureblob", "fake"}
    PROVE  /\ Object(ItemOf(k)) = HeaderOf(k)
           /\ HeaderOf(k) \in Objects /\ HeaderOf(k).key = k
<1>0. k \in Nat /\ 2 * (k \div 2) \in Nat
  BY KeysAssumption
<1>1. HeaderOf(k) \in Objects /\ HeaderOf(k).key = k
  BY <1>0 DEF HeaderOf, Objects
<1>2. CASE lister = "s3"
  <2>1. /\ ItemOf(k) = [key |-> k, etag |-> "bare", modifiedAt |-> k]
        /\ HeaderOf(k) = [key |-> k, etag |-> "quoted",
                          modifiedAt |-> 2 * (k \div 2)]
    BY <1>2 DEF ItemOf, HeaderOf
  <2>2. Object(ItemOf(k)) = S3Object(ItemOf(k))
    BY <1>2 DEF Object
  <2>3. S3Object([key |-> k, etag |-> "bare", modifiedAt |-> k]) =
           [key |-> k, etag |-> "quoted", modifiedAt |-> 2 * (k \div 2)]
    <3>1. entityTag("bare") = "quoted" /\ Truncate(k) = 2 * (k \div 2)
      BY DEF entityTag, Truncate
    <3> DEFINE item == [key |-> k, etag |-> "bare", modifiedAt |-> k]
               tagged == [key |-> k, etag |-> "quoted", modifiedAt |-> k]
    <3>2. item.etag = "bare" /\ item.modifiedAt = k
      OBVIOUS
    <3>3. S3Object(item) = [[item EXCEPT !.etag = entityTag(item.etag)]
                               EXCEPT !.modifiedAt = Truncate(item.modifiedAt)]
      BY DEF S3Object
    <3>4. [item EXCEPT !.etag = "quoted"] = tagged
      OBVIOUS
    <3>5. [tagged EXCEPT !.modifiedAt = 2 * (k \div 2)] =
             [key |-> k, etag |-> "quoted", modifiedAt |-> 2 * (k \div 2)]
      OBVIOUS
    <3> HIDE DEF item, tagged
    <3>6. S3Object(item) =
             [key |-> k, etag |-> "quoted", modifiedAt |-> 2 * (k \div 2)]
      BY <3>1, <3>2, <3>3, <3>4, <3>5
    <3>7. QED
      BY <3>6 DEF item
  <2>4. QED
    BY <1>1, <2>1, <2>2, <2>3
<1>3. CASE lister = "azureblob"
  <2>1. /\ ItemOf(k) = [key |-> k, etag |-> "bare",
                        modifiedAt |-> 2 * (k \div 2)]
        /\ HeaderOf(k) = [key |-> k, etag |-> "quoted",
                          modifiedAt |-> 2 * (k \div 2)]
    BY <1>3 DEF ItemOf, HeaderOf
  <2>2. Object(ItemOf(k)) = AzureObject(ItemOf(k))
    BY <1>3 DEF Object
  <2>3. AzureObject([key |-> k, etag |-> "bare",
                     modifiedAt |-> 2 * (k \div 2)]) =
           [key |-> k, etag |-> "quoted", modifiedAt |-> 2 * (k \div 2)]
    BY DEF AzureObject, entityTag
  <2>4. QED
    BY <1>1, <2>1, <2>2, <2>3
<1>4. CASE lister = "fake"
  <2>1. /\ ItemOf(k) = [key |-> k, etag |-> "quoted", modifiedAt |-> k]
        /\ HeaderOf(k) = [key |-> k, etag |-> "quoted", modifiedAt |-> k]
    BY <1>4 DEF ItemOf, HeaderOf
  <2>2. Object(ItemOf(k)) = ItemOf(k)
    BY <1>4 DEF Object
  <2>3. QED
    BY <1>1, <2>1, <2>2
<1>5. QED
  BY <1>1, <1>2, <1>3, <1>4

\* A page after which the listing goes on moves the token on, and holds all that
\* is left up to it; one after which it does not is all that is left.
LEMMA PageFacts ==
    ASSUME WalkTypeOK, NEW n \in Nat \ {0}, NEW page \in SUBSET Left,
           NEW more \in BOOLEAN, NEW mark \in Keys \cup {None},
           IF lister = "fake" THEN FakePage(n, page, more, mark)
                              ELSE ServicePage(n, page, more, mark)
    PROVE  /\ ~more => page = Left
           /\ more => /\ mark \in Keys /\ mark > token
                      /\ \A k \in Left : k \in page <=> k <= mark
<1>0. /\ Left \in SUBSET Keys /\ page \in SUBSET Keys /\ Keys \in SUBSET Nat
      /\ token \in Nat /\ \A k \in Left : k > token
  <2>1. Left = {k \in objects \cap prefix : k > token}
    BY DEF Left
  <2>2. objects \subseteq Keys /\ token \in Nat /\ Keys \in SUBSET Nat
    BY KeysAssumption DEF WalkTypeOK, None
  <2>3. QED
    BY <2>1, <2>2
<1>1. CASE lister = "fake"
  <2>1. IsFiniteSet(Left) /\ IsFiniteSet(page)
    BY <1>0, KeysAssumption, FS_Subset
  <2>2. Cardinality(Left) \in Nat
    BY <2>1, FS_CardinalityType
  <2>3. page = {} => Left = {}
    BY <1>1, <2>1, <2>2, FS_EmptySet DEF FakePage
  <2>4. /\ more = (page # Left) /\ mark = Last(page)
        /\ \A k \in page, j \in Left \ page : k < j
    BY <1>1 DEF FakePage
  <2>5. ASSUME more
        PROVE  /\ mark \in Keys /\ mark > token
               /\ \A k \in Left : k \in page <=> k <= mark
    <3>1. page # {} /\ page \subseteq Nat
      BY <1>0, <2>3, <2>4, <2>5
    <3>2. \E k \in page : \A j \in page : j <= k
      BY <2>1, <3>1, LastKey
    <3>3. mark = CHOOSE k \in page : \A j \in page : j <= k
      BY <2>4, <3>1 DEF Last
    <3>4. mark \in page /\ \A j \in page : j <= mark
      BY <3>2, <3>3
    <3>5. QED
      BY <1>0, <2>4, <3>4
  <2>6. QED
    BY <2>4, <2>5
<1>2. CASE lister # "fake"
  <2>1. \/ ~more /\ page = Left
        \/ /\ more /\ mark > token
           /\ \A k \in Left : k \in page <=> k <= mark
    BY <1>2 DEF ServicePage
  <2>2. mark > token => mark \in Keys
    BY <1>0 DEF None
  <2>3. QED
    BY <2>1, <2>2
<1>3. QED
  BY <1>1, <1>2

Listed(k) == \E i \in 1 .. Len(listed) : \E a \in listed[i] : a.key = k

\* No walk has begun before the client is put to use, and none has listed
\* anything before it begins.
FreshInv ==
    /\ made.outcome # "used" => state = "none"
    /\ state = "none" => token = None /\ listed = <<>>
    /\ state # "none" => lister # "none"

\* The token of a walk is a frontier: all that is listed is at or below it, and
\* every object that stayed and is at or below it is listed.
FrontierInv ==
    state = "walking" =>
        /\ \A i \in 1 .. Len(listed) : \A a \in listed[i] : a.key <= token
        /\ \A k \in stable \cap prefix : k <= token => Listed(k)

WalkInv == FreshInv /\ FrontierInv /\ WalkIsComplete

\* A walk begins with nothing listed.
LEMMA WalkBegins ==
    ASSUME NewTypeOK, WalkTypeOK, WalkInv, Walk
    PROVE  WalkTypeOK' /\ WalkInv'
<1>1. /\ lister' \in {"s3", "azureblob", "fake"}
      /\ objects' \in SUBSET Keys /\ stable' = objects'
      /\ prefix' \in SUBSET Keys /\ limit' \in Int /\ listPageSize' \in Nat
      /\ state' = "walking" /\ UNCHANGED <<token, listed>>
      /\ made.outcome = "client" /\ made'.outcome = "used"
  <2>1. Use /\ lister' \in {provider, "fake"} /\ prefix' \in Prefixes
        /\ limit' \in Limits /\ listPageSize' \in PageSizes
    BY DEF Walk
  <2>2. QED
    BY <2>1, UseStep, PrefixesAssumption, LimitsAssumption DEF Walk, NewTypeOK
<1>2. token' = 0 /\ listed' = <<>>
  BY <1>1 DEF WalkInv, FreshInv, None
<1>3. WalkTypeOK'
  BY <1>1, <1>2 DEF WalkTypeOK, None
<1>4. FreshInv'
  BY <1>1 DEF FreshInv
<1>5. FrontierInv'
  <2>1. \A k \in (stable \cap prefix)' : ~(k <= 0)
    BY <1>1, KeysAssumption
  <2>2. QED
    BY <1>2, <2>1 DEF FrontierInv
<1>6. WalkIsComplete'
  BY <1>1, <1>2 DEF WalkIsComplete
<1>7. QED
  BY <1>3, <1>4, <1>5, <1>6 DEF WalkInv

\* A limit that is not negative asks for at least one object.
LEMMA LimitIsPositive ==
    ASSUME WalkTypeOK
    PROVE  /\ PageLimit(StoreLimit) \in Int
           /\ limit >= 0 => PageLimit(StoreLimit) > 0
BY WidthAssumption DEF WalkTypeOK, PageLimit, StoreLimit

LEMMA WalkFails ==
    ASSUME WalkTypeOK, WalkInv, ListFails
    PROVE  WalkTypeOK' /\ WalkInv'
<1>1. /\ state = "walking" /\ state' = "failed" /\ limit < 0
      /\ UNCHANGED <<made, lister, prefix, limit, listPageSize, objects, token,
                     listed, stable>>
  BY LimitIsPositive DEF ListFails, Refused, WalkTypeOK, newVars, given
<1>2. WalkTypeOK'
  BY <1>1 DEF WalkTypeOK
<1>3. FreshInv' /\ FrontierInv'
  BY <1>1 DEF WalkInv, FreshInv, FrontierInv
<1>4. WalkIsComplete'
  BY <1>1 DEF WalkInv, WalkIsComplete, HeaderOf
<1>5. QED
  BY <1>2, <1>3, <1>4 DEF WalkInv

\* Others write and delete: what stayed only shrinks.
LEMMA OthersWrite ==
    ASSUME WalkTypeOK, WalkInv, Write \/ Delete
    PROVE  WalkTypeOK' /\ WalkInv'
<1>1. /\ state = "walking"
      /\ objects' \subseteq Keys /\ stable' \subseteq objects'
      /\ stable' \subseteq stable
      /\ UNCHANGED <<made, lister, prefix, limit, listPageSize, token, listed,
                     state>>
  BY DEF Write, Delete, WalkTypeOK, newVars, given
<1>2. WalkTypeOK'
  BY <1>1 DEF WalkTypeOK
<1>3. FreshInv'
  BY <1>1 DEF WalkInv, FreshInv
<1>4. FrontierInv'
  BY <1>1 DEF WalkInv, FrontierInv, Listed
<1>5. WalkIsComplete'
  BY <1>1 DEF WalkInv, WalkIsComplete, HeaderOf
<1>6. QED
  BY <1>2, <1>3, <1>4, <1>5 DEF WalkInv

\* A page moves the frontier past it, or ends the walk with nothing left.
LEMMA PageListed ==
    ASSUME WalkTypeOK, WalkInv, List
    PROVE  WalkTypeOK' /\ WalkInv'
<1>0. /\ state = "walking" /\ limit >= 0
      /\ UNCHANGED <<made, lister, prefix, limit, listPageSize, objects, stable>>
      /\ PageLimit(StoreLimit) \in Nat \ {0}
  BY LimitIsPositive DEF List, Refused, WalkTypeOK, newVars, given
<1>1. lister \in {"s3", "azureblob", "fake"} /\ FreshInv /\ FrontierInv
  BY <1>0 DEF WalkInv, FreshInv, WalkTypeOK
<1>2. PICK page \in SUBSET Left, more \in BOOLEAN, mark \in Keys \cup {None} :
         /\ IF lister = "fake"
            THEN FakePage(PageLimit(StoreLimit), page, more, mark)
            ELSE ServicePage(PageLimit(StoreLimit), page, more, mark)
         /\ listed' = IF page = {} THEN listed
                      ELSE Append(listed, {Object(ItemOf(k)) : k \in page})
         /\ token' = NextToken(more, mark)
         /\ state' = IF token' = None THEN "done" ELSE "walking"
  BY DEF List
<1>3. /\ ~more => page = Left
      /\ more => /\ mark \in Keys /\ mark > token
                 /\ \A k \in Left : k \in page <=> k <= mark
  BY <1>0, <1>2, PageFacts
<1>4. /\ Left = {k \in objects \cap prefix : k > token}
      /\ page \subseteq Keys /\ Keys \subseteq Nat \ {0} /\ token \in Nat
      /\ stable \subseteq objects /\ objects \subseteq Keys
      /\ listed \in Seq(SUBSET Objects)
  BY <1>2, KeysAssumption DEF Left, WalkTypeOK, None
<1>5. /\ {Object(ItemOf(k)) : k \in page} = {HeaderOf(k) : k \in page}
      /\ {HeaderOf(k) : k \in page} \in SUBSET Objects
      /\ \A k \in page : HeaderOf(k).key = k
  BY <1>1, <1>4, ListedAsHeader
<1> DEFINE new == {HeaderOf(k) : k \in page}
<1>6. \/ /\ page = {} /\ listed' = listed
      \/ /\ page # {} /\ listed' = Append(listed, new)
  BY <1>2, <1>5
<1>7. \/ /\ more /\ token' \in Keys /\ token' > token /\ state' = "walking"
         /\ \A k \in Left : k \in page <=> k <= token'
      \/ ~more /\ token' = 0 /\ state' = "done"
  <2>1. CASE more
    <3>1. token' = mark /\ mark # None
      BY <1>2, <1>3, <1>4, <2>1 DEF NextToken, None
    <3>2. QED
      BY <1>2, <1>3, <2>1, <3>1
  <2>2. CASE ~more
    BY <1>2, <2>2 DEF NextToken, None
  <2>3. QED
    BY <2>1, <2>2
<1>8. WalkTypeOK'
  <2>1. listed' \in Seq(SUBSET Objects)
    <3>1. new \in SUBSET Objects
      BY <1>5
    <3> HIDE DEF new
    <3>2. QED
      BY <1>4, <1>6, <3>1
  <2>2. token' \in Keys \cup {None} /\ state' \in {"walking", "done"}
    BY <1>4, <1>7 DEF None
  <2>3. QED
    BY <1>0, <2>1, <2>2 DEF WalkTypeOK
<1>9. FreshInv'
  BY <1>0, <1>1, <1>7 DEF FreshInv
\* What the new sequence of pages holds: the pages before, and the new one.
<1>10. /\ Len(listed') \in Nat
       /\ \A i \in 1 .. Len(listed') :
             \/ i \in 1 .. Len(listed) /\ listed'[i] = listed[i]
             \/ i = Len(listed) + 1 /\ listed'[i] = new /\ i = Len(listed')
       /\ \A i \in 1 .. Len(listed) : i \in 1 .. Len(listed') /\ listed'[i] = listed[i]
       /\ page # {} => Len(listed') \in 1 .. Len(listed')
                       /\ listed'[Len(listed')] = new
  <2> HIDE DEF new
  <2>1. CASE page = {} /\ listed' = listed
    BY <1>4, <2>1
  <2>2. CASE page # {} /\ listed' = Append(listed, new)
    BY <1>4, <2>2
  <2>3. QED
    BY <1>6, <2>1, <2>2
<1>11. \A k \in stable \cap prefix :
          (state' = "done" \/ k <= token') => Listed(k)'
  <2> SUFFICES ASSUME NEW k \in stable \cap prefix,
                      state' = "done" \/ k <= token'
               PROVE  Listed(k)'
    OBVIOUS
  <2>1. CASE k <= token
    <3>1. Listed(k)
      BY <1>0, <1>1, <2>1 DEF FrontierInv
    <3>2. QED
      BY <1>10, <3>1 DEF Listed
  <2>2. CASE k \in page
    <3>1. HeaderOf(k) \in new /\ HeaderOf(k).key = k /\ page # {}
      BY <1>5, <2>2
    <3> HIDE DEF new
    <3>2. QED
      BY <1>10, <3>1 DEF Listed
  <2>3. k <= token \/ k \in Left
    BY <1>4
  <2>4. k \in Left => k \in page
    <3>1. CASE more
      BY <1>7, <3>1
    <3>2. CASE ~more
      BY <1>3, <3>2
    <3>3. QED
      BY <3>1, <3>2
  <2>5. QED
    BY <2>1, <2>2, <2>3, <2>4
<1>12. FrontierInv'
  <2> SUFFICES ASSUME state' = "walking"
               PROVE  /\ \A i \in 1 .. Len(listed') :
                            \A a \in listed'[i] : a.key <= token'
                      /\ \A k \in stable' \cap prefix' :
                            k <= token' => Listed(k)'
    BY DEF FrontierInv
  <2>1. token' \in Keys /\ \A j \in page : j <= token'
    BY <1>7
  <2>2. token' > token
    BY <1>7
  <2>3. ASSUME NEW i \in 1 .. Len(listed'), NEW a \in listed'[i]
        PROVE  a.key <= token'
    <3>1. CASE i \in 1 .. Len(listed) /\ listed'[i] = listed[i]
      <4>1. a \in Objects /\ a.key <= token
        BY <1>0, <1>1, <1>4, <2>3, <3>1 DEF FrontierInv
      <4>2. a.key \in Nat
        BY <1>4, <4>1 DEF Objects
      <4>3. QED
        <5>1. token' \in Nat
          BY <1>4, <2>1
        <5>2. QED
          BY <1>4, <2>2, <4>1, <4>2, <5>1
    <3>2. CASE listed'[i] = new
      BY <1>5, <2>1, <2>3, <3>2
    <3>3. QED
      BY <1>10, <3>1, <3>2
  <2>4. QED
    BY <1>0, <1>11, <2>3
<1>13. WalkIsComplete'
  <2>1. ASSUME NEW i \in 1 .. Len(listed'), NEW j \in 1 .. Len(listed'), i < j,
               NEW a \in listed'[i], NEW b \in listed'[j]
        PROVE  a.key < b.key
    <3>1. i \in 1 .. Len(listed) /\ listed'[i] = listed[i]
      BY <1>4, <1>10, <2>1
    <3>2. CASE j \in 1 .. Len(listed) /\ listed'[j] = listed[j]
      BY <2>1, <3>1, <3>2 DEF WalkInv, WalkIsComplete
    <3>3. CASE listed'[j] = new
      <4>1. a.key <= token /\ a \in Objects
        BY <1>0, <1>1, <1>4, <2>1, <3>1 DEF FrontierInv
      <4>2. b.key > token /\ b.key \in Nat
        <5>1. PICK k \in page : b = HeaderOf(k)
          BY <2>1, <3>3
        <5>2. b.key = k /\ k \in Left
          BY <1>5, <5>1
        <5>3. QED
          BY <1>4, <5>2
      <4>3. a.key \in Nat
        BY <1>4, <4>1 DEF Objects
      <4>4. QED
        BY <1>4, <4>1, <4>2, <4>3
    <3>4. QED
      BY <1>10, <3>2, <3>3
  <2>2. ASSUME NEW i \in 1 .. Len(listed'), NEW a \in listed'[i]
        PROVE  a.key \in prefix' /\ a = HeaderOf(a.key)'
    <3>1. CASE i \in 1 .. Len(listed) /\ listed'[i] = listed[i]
      BY <1>0, <2>2, <3>1 DEF WalkInv, WalkIsComplete, HeaderOf
    <3>2. CASE listed'[i] = new
      <4>1. PICK k \in page : a = HeaderOf(k)
        BY <2>2, <3>2
      <4>2. a.key = k /\ k \in prefix
        BY <1>2, <1>4, <1>5, <4>1
      <4>3. QED
        BY <1>0, <4>1, <4>2 DEF HeaderOf
    <3>3. QED
      BY <1>10, <3>1, <3>2
  <2>3. state' # "failed"
    BY <1>7
  <2>4. state' = "done" => \A k \in stable' \cap prefix' : Listed(k)'
    BY <1>0, <1>11
  <2>5. QED
    BY <2>1, <2>2, <2>3, <2>4 DEF WalkIsComplete, Listed
<1>14. QED
  BY <1>8, <1>9, <1>12, <1>13 DEF WalkInv

-----------------------------------------------------------------------------
(* The provider.                                                           *)

IInv == TypeOK /\ ClientInv /\ CallInv /\ WalkInv

LEMMA InitInv == Init => IInv
<1> SUFFICES ASSUME Init PROVE IInv
  OBVIOUS
<1>1. NewTypeOK /\ ClientInv
  <2>1. NoOptions \in OptionMaps
    BY DEF NoOptions, OptionMaps
  <2>2. QED
    BY <2>1 DEF Init, NewInit, NewTypeOK, NoClient, ClientInv, IsClient
<1>2. CallTypeOK
  <2>1. world = [container |-> "absent", object |-> 0] /\ world \in Worlds
    BY DEF Init, CallInit, Worlds
  <2>2. fault \in {"none", "trouble", "throttled"} /\ valid \in BOOLEAN
    BY Zenon DEF Init, CallInit
  <2>3. QED
    BY <2>1, <2>2, MaxRetriesAssumption DEF Init, CallInit, CallTypeOK, Errs
<1>3. CallInv
  BY DEF Init, CallInit, CallInv, RequestInv, StatInv, AnswerIsOfAMoment
<1>4. WalkTypeOK
  BY DEF Init, WalkInit, WalkTypeOK, None
<1>5. WalkInv
  BY DEF Init, WalkInit, WalkInv, FreshInv, FrontierInv, WalkIsComplete
<1>6. QED
  BY <1>1, <1>2, <1>3, <1>4, <1>5 DEF IInv, TypeOK

\* What a step leaves alone stays as it was.
LEMMA CallKept ==
    ASSUME CallTypeOK, CallInv, UNCHANGED callVars, provider' = provider
    PROVE  CallTypeOK' /\ CallInv'
<1>1. /\ UNCHANGED <<world, ctx, retries, seen, fault>>
      /\ UNCHANGED <<op, last, valid, req, tries, result>>
  BY DEF callVars, call
<1>2. CallTypeOK'
  BY <1>1 DEF CallTypeOK
<1>3. RequestInv' /\ StatInv'
  BY <1>1 DEF CallInv, RequestInv, RequestOf, StatInv
<1>4. AnswerIsOfAMoment'
  BY <1>1 DEF CallInv, AnswerIsOfAMoment, Allowed
<1>5. QED
  BY <1>2, <1>3, <1>4 DEF CallInv

LEMMA WalkKept ==
    ASSUME WalkTypeOK, WalkInv, UNCHANGED walkVars,
           made'.outcome # "used" => made.outcome # "used"
    PROVE  WalkTypeOK' /\ WalkInv'
<1>1. UNCHANGED <<lister, prefix, limit, listPageSize, objects, token, listed,
                  state, stable>>
  BY DEF walkVars, given
<1>2. WalkTypeOK'
  BY <1>1 DEF WalkTypeOK
<1>3. FreshInv' /\ FrontierInv'
  BY <1>1 DEF WalkInv, FreshInv, FrontierInv, Listed
<1>4. WalkIsComplete'
  BY <1>1 DEF WalkInv, WalkIsComplete, HeaderOf
<1>5. QED
  BY <1>2, <1>3, <1>4 DEF WalkInv

LEMMA StepInv == IInv /\ [Next]_vars => IInv'
<1> SUFFICES ASSUME IInv, [Next]_vars PROVE IInv'
  OBVIOUS
<1>0. /\ NewTypeOK /\ CallTypeOK /\ WalkTypeOK
      /\ ClientInv /\ CallInv /\ WalkInv
  BY DEF IInv, TypeOK
<1>1. CASE NewNext /\ UNCHANGED <<callVars, walkVars>>
  <2>1. /\ NewTypeOK' /\ ClientInv'
        /\ made.outcome = "none" /\ provider' = provider
    BY <1>0, <1>1, NewStep DEF NewNext, NewRefuses, New
  <2>2. CallTypeOK' /\ CallInv'
    BY <1>0, <1>1, <2>1, CallKept
  <2>3. WalkTypeOK' /\ WalkInv'
    BY <1>0, <1>1, <2>1, WalkKept
  <2>4. QED
    BY <2>1, <2>2, <2>3 DEF IInv, TypeOK
<1>2. CASE CallNext /\ UNCHANGED walkVars
  <2>1. NewTypeOK' /\ ClientInv'
    BY <1>0, <1>2, NewKept
  <2>2. CallTypeOK' /\ CallInv'
    BY <1>0, <1>2, CallStep
  <2>3. made'.outcome # "used" => made.outcome # "used"
    BY <1>0, <1>2, NewKept DEF newVars
  <2>4. WalkTypeOK' /\ WalkInv'
    BY <1>0, <1>2, <2>3, WalkKept
  <2>5. QED
    BY <2>1, <2>2, <2>4 DEF IInv, TypeOK
<1>3. CASE WalkNext /\ UNCHANGED callVars
  <2>1. NewTypeOK' /\ ClientInv' /\ provider' = provider
    BY <1>0, <1>3, NewKept
  <2>2. CallTypeOK' /\ CallInv'
    BY <1>0, <1>3, <2>1, CallKept
  <2>3. WalkTypeOK' /\ WalkInv'
    BY <1>0, <1>3, WalkBegins, PageListed, WalkFails, OthersWrite DEF WalkNext
  <2>4. QED
    BY <2>1, <2>2, <2>3 DEF IInv, TypeOK
<1>4. CASE UNCHANGED vars
  <2>1. /\ UNCHANGED <<provider, cfg, options, made>>
        /\ UNCHANGED callVars /\ UNCHANGED walkVars
    BY <1>4 DEF vars, newVars
  <2>2. NewTypeOK' /\ ClientInv'
    BY <1>0, <2>1 DEF NewTypeOK, ClientInv, IsClient, Accepted, S3Client,
                      AzureClient
  <2>3. CallTypeOK' /\ CallInv'
    BY <1>0, <2>1, CallKept
  <2>4. WalkTypeOK' /\ WalkInv'
    BY <1>0, <2>1, WalkKept
  <2>5. QED
    BY <2>2, <2>3, <2>4 DEF IInv, TypeOK
<1>5. QED
  BY <1>1, <1>2, <1>3, <1>4 DEF Next

\* Every state of a provider satisfies the invariant.
THEOREM Invariance == Spec => []IInv
BY InitInv, StepInv, PTL DEF Spec

\* Type correctness.  It says that New hands out only settings within the
\* limits of the services and the SDKs (s3/options.go, azureblob/options.go),
\* that a call waits for one of its own requests and never tries one more often
\* than its retries, and that what a walk lists are objects.
THEOREM TypeCorrect == Spec => []TypeOK
<1>1. IInv => TypeOK
  BY DEF IInv
<1>2. QED
  BY Invariance, <1>1, PTL

\* For integers of any width, and whatever max_retries holds, a request is
\* retried exactly as often as a Read of a Get body is resumed, and as often as
\* max_retries says when it is set (s3/client.go:66-68, 193-196,
\* azureblob/client.go:44-46, 117-119).
THEOREM RetriesHold == Spec => []RetriesAsConfigured
<1>1. IInv => RetriesAsConfigured
  BY RetriesFollow DEF IInv, TypeOK
<1>2. QED
  BY Invariance, <1>1, PTL

\* With any number of retries, a call returns what was so at one moment of it,
\* or a failure that it met (client.go:97-104, s3/objects.go:397-402,
\* s3/errors.go, azureblob/errors.go).
THEOREM AnswersAreTrue == Spec => []AnswerIsOfAMoment
<1>1. IInv => AnswerIsOfAMoment
  BY DEF IInv, CallInv
<1>2. QED
  BY Invariance, <1>1, PTL

\* For any keys, prefixes, limits and page sizes, a walk that ends has listed
\* every object that stayed, in order, none twice and each as Stat reports it,
\* and only a negative limit fails it (client.go:58-80, store.go:239-241,
\* s3/objects.go:440-444).
THEOREM WalksAreComplete == Spec => []WalkIsComplete
<1>1. IInv => WalkIsComplete
  BY DEF IInv, WalkInv
<1>2. QED
  BY Invariance, <1>1, PTL

-----------------------------------------------------------------------------
(* The variant of a walk.                                                  *)

\* The keys after the token.
Ahead == {k \in Keys : k > token}

\* A further page has a later token: fewer keys are ahead of it.
LEMMA PageMoves ==
    ASSUME WalkTypeOK, List, state' = "walking"
    PROVE  Cardinality(Ahead') < Cardinality(Ahead)
<1>1. PageLimit(StoreLimit) \in Nat \ {0}
  BY LimitIsPositive DEF List, Refused, WalkTypeOK
<1>2. PICK page \in SUBSET Left, more \in BOOLEAN, mark \in Keys \cup {None} :
         /\ IF lister = "fake"
            THEN FakePage(PageLimit(StoreLimit), page, more, mark)
            ELSE ServicePage(PageLimit(StoreLimit), page, more, mark)
         /\ token' = NextToken(more, mark)
         /\ state' = IF token' = None THEN "done" ELSE "walking"
  BY DEF List
<1>3. more
  BY <1>2 DEF NextToken
<1>4. token' = mark /\ mark \in Keys /\ mark > token
  BY <1>1, <1>2, <1>3, PageFacts DEF NextToken
<1>5. /\ token \in Nat /\ token' \in Nat /\ token' > token
      /\ token' \in Keys /\ Keys \subseteq Nat
  BY <1>4, KeysAssumption DEF WalkTypeOK, None
<1>6. Ahead' \subseteq Ahead /\ token' \in Ahead /\ token' \notin Ahead'
  <2>1. Ahead' = {k \in Keys : k > token'}
    BY DEF Ahead
  <2>2. \A k \in Keys : k > token' => k > token
    BY <1>5
  <2>3. ~(token' > token')
    BY <1>5
  <2>4. QED
    BY <1>5, <2>1, <2>2, <2>3 DEF Ahead
<1>7. IsFiniteSet(Ahead)
  <2>1. Ahead \in SUBSET Keys
    BY DEF Ahead
  <2>2. QED
    BY <2>1, KeysAssumption, FS_Subset
<1>8. ASSUME NEW S, IsFiniteSet(S), NEW T \in SUBSET S, S # T
      PROVE  Cardinality(T) < Cardinality(S)
  <2>1. IsFiniteSet(T) /\ Cardinality(T) <= Cardinality(S)
        /\ Cardinality(T) # Cardinality(S)
    BY <1>8, FS_Subset
  <2>2. Cardinality(S) \in Nat /\ Cardinality(T) \in Nat
    BY <1>8, <2>1, FS_CardinalityType
  <2>3. QED
    BY <2>1, <2>2
<1>9. Ahead' \in SUBSET Ahead /\ Ahead # Ahead'
  BY <1>6
<1>10. QED
  BY <1>7, <1>8, <1>9

\* The safety half of WalkEnds, for any finite set of keys: while a walk goes on
\* each page it lists leaves fewer keys ahead of its token, and no other step,
\* a writer's least of all, takes the token back.  So a walk asks for one page
\* more than there are keys at most, empty pages included, and it ends when every
\* page is answered
\* (client.go:63-64, 77-79, s3/objects.go:463-465, azureblob/objects.go:154).
THEOREM PagesMoveOn ==
    Spec => [][state = "walking" /\ state' = "walking" =>
                  IF List THEN Cardinality(Ahead') < Cardinality(Ahead)
                          ELSE token' = token]_vars
<1>1. ASSUME IInv, [Next]_vars, state = "walking", state' = "walking"
      PROVE  IF List THEN Cardinality(Ahead') < Cardinality(Ahead)
                     ELSE token' = token
  <2>1. CASE List
    BY <1>1, <2>1, PageMoves DEF IInv, TypeOK
  <2>2. CASE ~List
    BY <1>1, <2>2
    DEF Next, vars, walkVars, WalkNext, Walk, ListFails, Write, Delete
  <2>3. QED
    BY <2>1, <2>2
<1>2. QED
  BY Invariance, <1>1, PTL DEF Spec
=============================================================================
