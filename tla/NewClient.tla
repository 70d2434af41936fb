----------------------------- MODULE NewClient -----------------------------
(***************************************************************************)
(* Construction of both providers from a Config (New in s3/client.go and   *)
(* azureblob/client.go), and the retry counts they derive from             *)
(* max_retries.                                                            *)
(*                                                                         *)
(* Each provider hands max_retries on twice, to its SDK's retryer and to   *)
(* the body of a Get, and the SDKs read 0 and negative numbers in their    *)
(* own ways.  Integers have the width of Go's int for S3 and of int32 for  *)
(* Azure, scaled down.  The text of an option is abstracted to whether it  *)
(* is a number, and which; a duration is a number.  Endpoint, account and  *)
(* key are empty, malformed or good.                                       *)
(***************************************************************************)
EXTENDS Integers

CONSTANTS
    Unset, Text,     \* an option that is absent, and one that is no number
    MaxInt,          \* the largest int, and the largest int32
    Retries, Sizes, Timeouts, Concurrencies, \* the numbers given as options
    MinSize, MaxSize, DefaultSize,           \* of a part, or of a block
    MaxConcurrency, DefaultConcurrency

ASSUME MarksAssumption == Unset \notin Int /\ Text \notin Int /\ Unset # Text
ASSUME MaxIntAssumption == MaxInt \in Nat /\ MaxInt > 3
ASSUME NumbersAssumption ==
    Retries \cup Sizes \cup Timeouts \cup Concurrencies \subseteq Int
ASSUME SizesAssumption ==
    /\ MinSize \in Nat \ {0} /\ MaxSize \in Nat
    /\ DefaultSize \in MinSize .. MaxSize
ASSUME ConcurrencyAssumption ==
    MaxConcurrency \in Nat /\ DefaultConcurrency \in 1 .. MaxConcurrency

VARIABLES
    provider, \* whose New is called
    cfg,      \* the fields of the Config
    options,  \* the provider's options in it, chosen as New reads them
    made      \* what New returned, until the client is put to use

newVars == <<provider, cfg, options, made>>

Fields == [finalized : BOOLEAN, container : {"", "bad", "good"},
           account : {"", "good"}, key : {"", "bad", "good"},
           endpoint : {"", "bad", "good"}]

OptionMaps == [region : {Unset, "", "named"},
               max_retries : {Unset, Text} \cup Retries,
               size : {Unset, Text} \cup Sizes,
               try_timeout : {Unset, Text} \cup Timeouts,
               concurrency : {Unset, Text} \cup Concurrencies]

NoOptions == [region |-> Unset, max_retries |-> Unset, size |-> Unset,
              try_timeout |-> Unset, concurrency |-> Unset]
AnyFields == [finalized |-> TRUE, container |-> "good", account |-> "good",
              key |-> "good", endpoint |-> "good"]

Ints == -MaxInt - 1 .. MaxInt

\* What the width leaves of n.
Wrap(n) == ((n + MaxInt + 1) % (2 * (MaxInt + 1))) - MaxInt - 1

\* A client's settings: the SDK's retry setting, the resumptions of a Get body,
\* and those that size requests.
Clients == [outcome : {"client"}, policy : Ints, readRetries : 0 .. MaxInt,
            size : MinSize .. MaxSize, concurrency : 1 .. MaxConcurrency,
            tryTimeout : Nat]
NoClient == {[outcome |-> o] : o \in {"none", "panic", "error", "used"}}
IsClient == made.outcome = "client"

\* A client is made within the limits its service and its SDK set.
NewTypeOK ==
    /\ provider \in {"s3", "azureblob"}
    /\ cfg \in Fields
    /\ options \in OptionMaps
    /\ made \in NoClient \cup Clients

NewInit ==
    /\ provider \in {"s3", "azureblob"}
    /\ cfg \in Fields
    /\ options = NoOptions
    /\ made = [outcome |-> "none"]

-----------------------------------------------------------------------------
(* The options.                                                            *)

\* strconv refuses text, and a number past the width.
Number(v) == v \notin {Unset, Text}
Atoi(v)   == Number(v) /\ v \in Ints

\* The options are accepted; an unset one is.
regionOption(v)      == v # ""
maxRetriesOption(v)  == v = Unset \/ (Atoi(v) /\ v >= 0)
sizeOption(v)        == v = Unset \/ (Number(v) /\ MinSize <= v /\ v <= MaxSize)
tryTimeoutOption(v)  == v = Unset \/ (Number(v) /\ v > 0)
\* Mutant: no upper bound.
concurrencyOptionUnbounded(v) == v = Unset \/ (Atoi(v) /\ 1 <= v)

concurrencyOption(v) == v = Unset \/ (Atoi(v) /\ 1 <= v /\ v <= MaxConcurrency)

Or(v, default) == IF v = Unset THEN default ELSE v

\* S3's max_retries as RetryMaxAttempts, which counts the first try.
maxAttempts(v) == IF v = Unset THEN 0 ELSE Wrap(v + 1)

\* The standard retryer's default of attempts.
DefaultMaxAttempts == 3

\* The retries that a number of attempts leaves.
S3ReadRetries(attempts) ==
    Wrap((IF attempts = 0 THEN DefaultMaxAttempts ELSE attempts) - 1)

\* Mutant: 0 is handed to the SDK, which reads it as its default.
azureMaxRetriesZero(v) == IF v = Unset THEN 0 ELSE v

\* Azure's max_retries as RetryOptions.MaxRetries, where 0 is the default and a
\* negative number none.
azureMaxRetries(v) ==
    CASE v = Unset -> 0
      [] v = 0 -> -1
      [] OTHER -> v

AzureReadRetries(maxRetries) ==
    CASE maxRetries = 0 -> 3
      [] maxRetries < 0 -> 0
      [] OTHER -> maxRetries

-----------------------------------------------------------------------------
(* New.                                                                    *)

\* What New requires of the fields: S3's parses the endpoint, and Azure's SDK
\* decodes the key.
Required ==
    /\ cfg.container = "good"
    /\ cfg.account # "" /\ cfg.key # ""
    /\ IF provider = "s3" THEN cfg.endpoint # "bad" ELSE cfg.key # "bad"

S3Client(o) ==
    [outcome |-> "client",
     policy |-> maxAttempts(o.max_retries),
     readRetries |-> S3ReadRetries(maxAttempts(o.max_retries)),
     size |-> Or(o.size, DefaultSize),
     concurrency |-> Or(o.concurrency, DefaultConcurrency),
     tryTimeout |-> Or(o.try_timeout, 0)]

AzureClient(o) ==
    [outcome |-> "client",
     policy |-> azureMaxRetries(o.max_retries),
     readRetries |-> AzureReadRetries(azureMaxRetries(o.max_retries)),
     size |-> Or(o.size, DefaultSize),
     concurrency |-> Or(o.concurrency, DefaultConcurrency),
     tryTimeout |-> Or(o.try_timeout, 0)]

Accepted(o) ==
    /\ provider = "s3" => regionOption(o.region)
    /\ maxRetriesOption(o.max_retries)
    /\ sizeOption(o.size)
    /\ tryTimeoutOption(o.try_timeout)
    /\ concurrencyOption(o.concurrency)

\* An unfinalized Config panics, and a missing or malformed field is an error.
NewRefuses ==
    /\ made.outcome = "none"
    /\ ~cfg.finalized \/ ~Required
    /\ made' = [outcome |-> IF cfg.finalized THEN "error" ELSE "panic"]
    /\ UNCHANGED <<provider, cfg, options>>

New ==
    /\ made.outcome = "none"
    /\ cfg.finalized /\ Required
    /\ options' \in OptionMaps
    /\ made' = IF Accepted(options')
               THEN IF provider = "s3" THEN S3Client(options')
                                       ELSE AzureClient(options')
               ELSE [outcome |-> "error"]
    /\ UNCHANGED <<provider, cfg>>

NewNext == NewRefuses \/ New

\* The client is put to use.  What New was given plays no further part.
Use ==
    /\ IsClient
    /\ made' = [outcome |-> "used"]
    /\ cfg' = AnyFields /\ options' = NoOptions
    /\ UNCHANGED provider

-----------------------------------------------------------------------------
(* What becomes of the settings: the SDKs, and the body of a Get.          *)

\* How often each SDK retries a request; MaxInt stands for without end too, as
\* which the S3 retryer reads a negative number of attempts.
RequestRetries ==
    IF provider = "s3"
    THEN CASE made.policy = 0 -> DefaultMaxAttempts - 1
           [] made.policy < 0 -> MaxInt
           [] OTHER -> made.policy - 1
    ELSE CASE made.policy = 0 -> 3
           [] made.policy < 0 -> 0
           [] OTHER -> made.policy

\* How often one Read of a Get body resumes.  Azure's is the plain answer for
\* none, since the SDK's retry reader reads a count below 1 as its default.
resuming(count) == IF count = 0 THEN 0 ELSE IF count < 1 THEN 3 ELSE count

BodyResumes ==
    IF provider = "s3" THEN made.readRetries ELSE resuming(made.readRetries)

-----------------------------------------------------------------------------
(* Properties.                                                             *)

\* max_retries means one thing throughout: a request is retried, and a Read of
\* a Get body resumed, exactly as often as configured, or as often as the SDK
\* does by default when it is unset; 0 is none and not the default, and the
\* largest int, whose n + 1 overflows, is not read as a negative count
\* (s3/client.go:66-68, 193-196, azureblob/client.go:44-46, 117-119,
\* azureblob/objects.go:84-88).
RetriesAsConfigured ==
    IsClient =>
        /\ RequestRetries = BodyResumes
        /\ options.max_retries # Unset => BodyResumes = options.max_retries
=============================================================================
