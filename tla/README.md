# go-storage: specifications, checks and proofs

go-storage is a Go library for object storage. A program holds a `Store`, which
adds a lifecycle, a readiness gate, limits and an idle timeout to a provider
behind the `Client` interface. The providers are `s3` and `azureblob`;
`storagetest` has an in-memory `Fake` and a conformance suite.

This directory models the parts of it in which order, concurrency or failure
decide what is correct, checks them with TLC on small instances, and proves the
main results for every value of the constants with TLAPS. Every definition is a
translation of the source; `PROJECT.json` maps each one to its lines.

## 1. The system

| Component | State | Operations | Interacts through |
| --- | --- | --- | --- |
| `Store` lifecycle (`store.go`) | `started` (atomic), `shut` under `mu` | Start, Shutdown, Ready, gate of Put, Get, Stat, Delete, List, Probe; EnsureContainer without a gate | calls the provider's EnsureContainer, Probe, Close, outside `mu` |
| `Store.Put` (`store.go`) | two `limitReader`s: bytes read, error, `tripped` (atomic) | Put, `limitReader.Read` | the provider reads the body through them, in goroutines of its own |
| Get body (`idle.go`) | a timer, `fired` (atomic), the request's cancel function | Read, Close, timer callback | cancels the request under the provider's body |
| S3 Get body (`s3/objects.go`) | current answer, offset, `err`, `lastErr`, `closed` under `mu` | Read, resume, Close | ranged `GetObject` with `If-Match` |
| S3 Put (`s3/objects.go`) | buffer, `bodyReader`'s count and error, the multipart upload at the service | Put, failedUpload, abortUpload | PutObject, or transfermanager's parts; AbortMultipartUpload; HeadObject |
| Azure Put (`azureblob/objects.go`) | `trackedReader`'s count and error | Put, `trackedReader.Read` | the SDK's UploadStream, which stages blocks |
| Control requests of both providers (`s3/`, `azureblob/`) | none | opening and resumption of Get, Stat, Delete, List, EnsureContainer, Probe | one or two requests, tried again by the SDK, classified errors |
| Construction of both providers (`client.go` of each) | the client's settings | New, the options | hands the retry counts to the SDK and to Get's body |
| `Config`, `Env` (`config.go`, `env.go`) | the configuration, its `finalized` mark | Merge, Finalize, environment overrides | read once by `New` |
| `Fake` (`storagetest/fake.go`) | objects under `mu`, toggles as atomics | the `Client` operations, SetDown, FailPut, DropContainer | given to a `Store` by tests |
| Conformance suite (`storagetest/suite.go`) | the failures noted, the cleanups registered | Run and its cases | calls a `Client` in a container that others use |

What is hard here, and what would make each part correct:

- **Lifecycle.** Start runs two requests without a lock while Shutdown may close
  the client under it. Correct: the gate never opens after a Shutdown, the
  client is closed once and behind the gate, an overtaken Start says ErrNotReady
  and not what the closed client said, Start's own deadline is told from the
  caller's, and nothing waits forever on a provider that answers nothing.
- **Put's limits.** Two readers stacked on a body that may return its end with
  bytes or after them, read by a provider that may swallow errors. Correct:
  success means that the whole body was stored and kept to both limits.
- **Get's body.** A timer whose callback is a goroutine that may run late.
  Correct: a slow caller is never cut off, a stalled Read is and says so.
- **S3 Get.** Answers break anywhere, the object is replaced, Close runs at any
  time. Correct: the bytes are a prefix of one version, nothing leaks, a
  failure stays.
- **S3 Put.** Requests are lost, repeated and applied late; errors of the body
  are dropped by the uploader; aborts fail. Correct: what is written is the
  whole body, a body's failure writes nothing and is what is reported, parts are
  freed or the error says they are not.
- **Azure Put.** The same, with an uploader that drops an error that comes with
  the bytes that fill a block. Correct: the same.
- **Get over S3.** The idle reader and the S3 body share one request. Correct: a
  body that keeps resuming is still cut off, and Close releases everything.
- **Control requests.** An operation may take two requests, each tried several
  times, in a world that changes in between, and a lost try may have been the
  change. Correct: what a call returns was true at one moment of it.
- **Construction.** max_retries reaches the SDK and Get's body by two ways, and
  each SDK reads 0 and negative numbers in its own way. Correct: it means one
  thing, at the largest integer too.
- **Listing.** Services cut pages as they like while others write; limits are
  clamped to a request's width. Correct: a walk ends and misses nothing.
- **Conformance suite.** It runs in a container that others use, and its own calls
  may fail half-way. Correct: a client that keeps the contract passes, each known
  defect fails the cases that look for it, and nothing the suite wrote is left.
- **Config.** Configs are copied by value and share a map; layers are merged in
  any order, also after Finalize. Correct: what New accepts it can use, and a
  shared map is never written to.
- **Fake.** Atomics are read before the lock. Correct: it behaves as the
  container it stands for.

`PROJECT.json` lists the hazards line by line, with the properties that cover
each of them.

## 2. The modules

A model keeps the control of the code and abstracts its data. Bytes are counted,
never carried; an error is the set of sentinels it matches, or one name of its
kind; a step is what lies between two points another goroutine can observe (an
acquisition of a mutex, an access to an atomic, a call out, its answer). A
variable called a history in the comments is not in the code: it records what
happened, for a property to speak of.

Each module also holds mutants, operators that are named in a comment and that no
specification uses: plausible bugs of the definition that follows, against which
the properties are tested.

### StoreLifecycle, GatedLifecycle

`StoreLifecycle` has any number of goroutines (`Callers`), each between calls or
at one step of one. `started`, `shut` and `mu` are the fields of Store. Start is
`StartCall`, `StartCheck`, `EnsureReturn`, `StartRecheck`, `ProbeReturn`,
`StartLock`, `StartStore`, with `FailCheck` and `FailClassify` for
`startFailure`; Shutdown is `ShutdownCall`, `ShutdownLock`, `ShutdownClear`,
`ShutdownClose`. `StartLock`/`StartStore` and `ShutdownLock`/`ShutdownClear` are
two steps each because the gate reads `started` without `mu`. `OpCall` is the
gate of the six gated operations, `ReadyCall` that of Ready, `EnsureCall` the
ungated EnsureContainer, `CallReturn` their provider's answer.
`CtxDone` ends a caller's context and `RequestTimeout` the derived one. The
provider (`Answers`) is external and may answer anything, with an error of its
context bare or classified, and with an error of a closed client once closed.

`GatedLifecycle` is the abstract promise: a phase (fresh, started, shut), the
set of callers the gate let in, and whether the client was closed.
`StoreLifecycle` implements it with phase derived from `started` and `shut`,
inside from the goroutines whose gated request is out, closed from `closes > 0`.

### StorePut

One Put: `PutInvalid`, `PutDeclaredTooLarge` or `PutDelegate`, which stacks the
two `limitReader`s, then `Read`/`ReadReturn` by the provider's goroutine (`Ask`
and `Answer` are the two halves of `limitReader.Read`, before and after the read
of its source; `ReadReturn` is the store of `tripped`, after that of `err`),
`ProviderStores`, `ProviderSwallows` or `ProviderFails`, and Put's two looks at
the readers, `PutCheckBounded` and `PutCheckSized` with `readFailure`. A
provider that returned an error may still be reading. A provider that returned
success has finished with the body, as its contract says; it may have swallowed
a failed read, as an SDK that stops at the declared length would.

### IdleReader

`timer` is armed or stopped; an expiry (`Expire`) disarms it and starts a
callback, which stores `fired` (`CallbackFire`) and then cancels
(`CallbackCancel`) any time later: that is time.AfterFunc's behaviour, and why
`pending` and `cancelling` count callbacks. Read is `ReadCall`, `ReadReset`,
`BodyReturn`, `ReadStop`, `ReadEnd`; Close is `CloseStop`, `CloseCancel`,
`CloseBody`, in another goroutine. `Constructed` is the Stop in newIdleReader.

### ResumingBody

One S3 Get body from the moment Get returns it. Read is `ReadCall`, `Loop`,
`Current` (take the current answer, give up, or resume), `ResumeOpens` or
`ResumeFails`, `SetCurrent`, `BodyRead`, `CloseBroken`, `Drop`; Close is
`CloseMark`, `CloseCurrent`. `ObjectChanges` and `CtxDone` are the world. An
answer's body knows its version and position, so that a resumption that served
the wrong bytes would show. Answers are numbered, and the number of a closed one
is used again: a Get may have any number of answers, and only the budget of a
Read bounds its resumes. Failures are kept to the kinds the properties tell
apart; classifyResume's wording is left out.

### S3Put

One S3 Put. `ReadBody` (with `LookPastSize` and `ReadWithin`) is
`bodyReader.Read`; `Buffer` and `Decide` choose between one PutObject and parts;
`Create`, `StreamRead`, `SendPart`, `PartLands`, `PartAnswered`, `StreamDone`,
`CompleteAnswered`, `TmAbort` are transfermanager's upload as Put uses it,
external, including that it drops an error that arrives with the bytes that fill
a part; `failedUpload`, `AbortAnswered` and `AbortTimesOut` are Put's second
abort; `HeadAnswered` and `HeadFails` its HeadObject. `SendTry` and `Apply` are
the SDK's retries and the service, which may apply a request after the client
gave it up. `OtherWrites` is another writer, of other or of equal content, the
latter before this Put's write (`oldTwin`) or since (`twin`): HeadObject tells an
object by its ETag, so that a Put may return the time of an equal object written
since, as the code does, or no time when the service sends none (`SucceedDated`).

### Config

Any number of Configs are merged (`Merge`), copied by value (`Copy`) and finalized
(`Finalize`, with or without a prefix). Options is a reference into a heap of maps,
`maps`, so that a write to a shared map would show; `Update` is the clone both
Merge and `applyOptionsEnv` make. A field is Unset, valid, Invalid or Default;
a variable of the environment may also be malformed, or a zero, which lifts a size
where a layer cannot. `Rank` and `Reached` are applyEnv's order and early returns:
a malformed variable leaves the overrides before it applied. Names and the text
of values are abstracted, and a timeout is a value although Merge copies its
pointer: nothing in this repository writes through one.

### GetBody

IdleReader composed with ResumingBody, which it wraps: Store.Get hands the
provider the request that the timer and Close cancel (`RequestDone` is
ResumingBody's context). `ReadBegins`, `BodyStep` and `CloseProvider` are the
steps of both: a Read and a Close of the idle reader call the body's, and what the
body returns is the answer IdleReader sees (`Seen`). The composition implements
IdleReader, fairness included, with the service alone assumed to answer, and only
once the request is done: `ImplementsIdleReader` has IdleReader's assumption
about its body as a conclusion.

### AzurePut

One Azure Put. `ProbePastSize`, `ReadWithin` and `fail` are `trackedReader.Read`;
`PutErr` and `PutReturn` are Put after UploadStream. UploadStream (`StreamRead`,
`Stage`, `BlockStaged`, `BlockFails`, `AllStaged`, `CommitAnswered`) is external:
it reads until a block is full, drops an error that comes with the bytes that fill
it, stages blocks in the background and commits once the body has ended. `SendTry`
and `Apply` are the tries of the request that writes, which may be lost, or
applied late.

### ClientPut

What both providers' Puts keep of the contract of Client.Put, whatever the SDK
does in between: `Read` and `ReadFails` take the body in, `Send` puts a request
that writes at large, `Write` applies one, `Refused` answers it with a failure,
`PutFails` and `PutSucceeds` return. A request is sent only when the body was
read to a clean end and has its declared size (`Whole`); Put succeeds only once
one was applied; a failure of the body is one that the body really shows
(`Shows`), and is what Put returns. A Write after a failed Put is allowed, because
a request given up may still be applied: that is where client.go promises more
(finding 2). `S3Put` implements it with its reader's `srcN` and `srcErr`, `AzurePut`
under the same names (`Contract`, `KeepsContract` in both).

### NewClient, ProviderCalls, Listing, Provider

`NewClient` is New of both providers. The text of an option is a number, `Text`,
which is none, or `Unset`; `maxAttempts`, `S3ReadRetries`, `azureMaxRetries` and
`AzureReadRetries` derive the retry counts with wrapping integers, and
`RequestRetries` and `BodyResumes` say what the SDKs and Get's body make of them.

`ProviderCalls` is one call of a client that New made. `Call` begins it in any
world, with as many retries as the client was configured with (up to a bound);
`TryAnswered`, `TryLost`, `TryFails`, `TryThrottled` and `TryCut` are the tries of
its request;
`Handle` goes on with the answer, by one operator per operation and provider
(`S3Stat`, `AzureDelete`, ...), and `S3Classify`, `S3ClassifyResume`,
`AzureClassify` and `AzureClassifyRead` are errors.go. The services' answers
(`S3Answers`, `AzureAnswers`) are statuses and codes, with those that gateways
send instead; an answer to one of S3's HEAD requests carries no code, in trouble
neither (`Troubles`). A 429 without a code (`Throttled`) is no sentinel in either
errors.go. The container is created, dropped, locked and unlocked, and the
object replaced and deleted, between any two steps.

`Listing` is a walk over Store.List and the List of a provider or of the Fake.
A token is the key up to which the lister has looked; `ServicePage` cuts a page
anywhere up to a cap, or leaves it empty with a marker while keys remain, and
Azure's may promise one more although nothing is left; that its markers move on
is assumed of the service. `FakePage` is the Fake's. `S3Object` and `AzureObject` turn an item into what Stat reports.

`Provider` composes the three: New, then one call or one walk. A client keeps
nothing from one call to the next, so that one of each from any world stands for
every sequence of them; what New was given is forgotten as the client is put to
use, but for its retries.

### Conformance

One case of the suite over one client. A case (`Cases`) is a script of its
helpers: `Put`, `FailPut`, `Content`, `Absent`, `List`, ...; `StepPut` and
`StepCall` run the next step, `Judge` notes a failure and ends the case where the
helper is a Fatalf, `Register` is deleteOnCleanup and `Cleanup` what it registers.
The client keeps the contract of `client.go`, or has one `defect` of the broken
clients of `suite_test.go`; `Catching` says which cases each of them is built to
fail. A defect lives in the client's own operators (`Stored`, `View`, `Walk`,
`ContainerErr`, `DeleteErr`, `EnsureFails`, `ValidateKey`), and the suite's checks
(`wantObject`, `wantKeys`, `wantAbsent`, `checkCapabilities`, ...) see only what
they return. One defect, `listsFailedPut`, is not in `suite_test.go`: its failed
Put is visible in listings alone, which is what `wantAbsent`'s listing is for.
`StepUnavailable` fails a call with its effect made or not, or a Put's to come
(`LatePut`), and `OtherUser` is somebody else in the container. A body is its length in units of 512 KiB with
how it ends and whether it can seek.

### Fake

Goroutines call the operations, each as the look at `down`, the look at
`hasContainer` and the work under `mu`, in the order each has them (Put does all
of it under `mu`); EnsureContainer stores the toggle outside `mu`. The test's
`SetDown`, `FailPut` and `DropContainer` (two steps under `mu`) run in between.
Call counters and records of the last calls, which no operation reads, are left
out; the pages of List are Listing's.

## 3. The runs

| Run | Instance | Distinct states | What it shows |
| --- | --- | --- | --- |
| `lifecycle` | 2 goroutines, Put, contexts that are cancelled, fairness | 67,000 | `TypeOK`, `LateCallsRefused`, `OvertakenStartGivesUp`, `CloseOnce`, `StartFailureClass`, `ImplementsGate` (the refinement), `StartAndReadyReturn`, `ShutdownCompletes` |
| `get_body` | 2 outstanding callbacks, an object of 1 byte, 1 retry, 2 answers open at once, fairness | 317,000 | `TimerOnlyDuringRead`, `StallReported`, `StallIsFinal`, `ReadReturns`, `CloseReleasesAll`, `ImplementsIdleReader` (the refinement) |
| `idle_reader_stall` | IdleReader alone, 2 callbacks, after construction | - | violated: `StallNotMistaken` (finding 1) |
| `put_limits` | bodies of 0..4 bytes, bounds 0, 2, 3, sizes -1..4, buffers 1, 2, 5 | 7,300 | `StoredIsBody`, `NothingPastLimit`, `FailureReported` |
| `resuming_body` | an object of 2 bytes, 2 retries, 2 answers open at once, fairness | 24,000 | `OneVersionPrefix`, `NoBodyLeaks`, `ChecksumFailureStands`, `FailureSticks`, `ReadingEnds` |
| `s3_put` | parts of 2 bytes, 2 workers, bodies of 0..5 bytes, sizes 0..6, 2 tries, fairness | 63,000 | `ObjectIsWholeBody`, `BodyFailureReported`, `PartsFreedOrNamed`, `ModifiedAtFits`, `KeepsContract` (the refinement of ClientPut), `CancelledPutReturns` |
| `s3_put_contract` | the same | - | violated: `AllOrNothing` (finding 2) |
| `azure_put` | blocks of 2 bytes, 2 in flight, bodies of 0..5 bytes, sizes 0..6, 2 tries | 4,500 | `BlobIsWholeBody`, `BodyFailureReported`, `KeepsContract` (the refinement of ClientPut) |
| `provider` | integers of 4 bits, options around every limit, 1 retry, 4 keys, pages of up to 2, fairness | 1,485,000 | `TypeOK`, `RetriesAsConfigured`, `AnswerIsOfAMoment`, `WalkIsComplete`, `WalkEnds` |
| `conformance` | every case, every defect, 2 faults | 431,000 | `VerdictIsRight`, `NothingLeftBehind` |
| `fake_container` | 2 goroutines, 1 key, symmetry | - | violated: `NotFoundMeansMissing` (finding 3) |
| `config` | 2 Configs, a field of each kind, one option, 2 maps, symmetry | 1,164,000 | `AcceptedIsUsable`, `SharedOptionsUntouched` |

### Bounds

- *Callers.* Two: a Start and the Shutdown or second Start that overtakes it, and
  two Shutdowns. The theorems have no bound, and cover all six gated operations
  and a deadline of the caller's own, of which the run has Put and a cancellation.
  Two are enough for the liveness of a single mutex, where what could go wrong is
  one goroutine starving another.
- *MaxCallbacks.* Bounds the callbacks started and not yet done, in `Expire`'s
  guard. A Read starts at most one, so two let the callback of one Read run
  during the next; the theorems have no bound.
- *Length, Retries, MaxBodies.* In `resuming_body`: two bytes tell a gap from a
  repeat and the last byte from the others. Two retries in a Read let the budget
  run out and be given afresh to a later Read. MaxBodies numbers the answers that
  are open at once, and not those of a Get: a Read resumes only with none open
  (`ReadsMoveOn`), so that the bound never bites, and `ReadingEnds` fails without
  the code's own budget. In `get_body` one byte and one retry are enough: what the composition adds
  is the shared request.
- *PartSize, Lengths, Sizes, MaxParts, MaxTries.* Lengths 0..5 around parts of 2
  are: empty, below a part, exactly one, one and a byte, two parts, two and a
  byte; Sizes 1..6 lie below, at and past each length, and 0 is unknown.
  `LengthsAssumption` says that the bodies fit into MaxParts. Two workers let
  parts be answered out of order; two tries let one request be applied twice or
  late.
- *Lengths, Bounds, Sizes, Buffers* of StorePut put each body below, at, one past
  and two past each limit, with Size below, at and past the bound, and read with
  a buffer smaller than, equal to and larger than what remains.
- *Configs, Fields, MaxMaps* of Config: two Configs, since a Merge and a copy relate
  two; one field of each kind, at all their values and every environment; two
  maps let a shared map be cloned once, and the theorem covers any number.
- *BlockSize, Concurrency, Lengths, Sizes, MaxTries* of AzurePut: as S3Put's.
- *MaxInt, Retries, Sizes, Timeouts, Concurrencies* of NewClient: integers of four
  bits, with each option below, at and past its limits, and max_retries at 0, 1,
  one below the largest, the largest and past it.
- *MaxRetries* of ProviderCalls: one retry, so that a request may be applied with
  its answer lost and then be tried in the world it made; a client configured with
  none has none.
- *Keys, Cap, Limits, MaxInt32* of Listing: four keys on pages of at most two, so
  that a walk has several pages and the token's own key may be deleted under it;
  limits below zero, none, below and past the cap, and past the largest number the
  request's field carries.
- *MaxFaults* of Conformance: two calls may fail, one of the case and one of its
  cleanup, or two Puts of which each may land late.
- *Callers, Keys* of Fake: a Get and a DropContainer already show the finding.

Deadlock is checked but where the system stops: S3Put and AzurePut once Put has
returned and the service has nothing left to apply, Provider after one call or walk,
Conformance after one case. The others run on (StorePut by an explicit step of a
Put that has returned).

### Fairness

- *StoreLifecycle.* A goroutine that can run does (weak); an acquisition of
  `mu` that is enabled again and again happens (strong), since sync.Mutex hands
  itself to a waiter that starves; RequestTimeout's timer fires; the provider
  answers a request whose context is done, and its Close returns. Nothing
  makes it answer a request whose context is live.
- *IdleReader.* The reading goroutine, the closing one, the runtime's timer and
  its callbacks run. The body answers once its request is done, and is not
  assumed to before.
- *ResumingBody.* The caller reads on until a Read fails or ends, the reading
  goroutine runs, and the service and its answers
  answer, if only with a failure: requests are bounded by the transport's and the
  SDK's deadlines, bodies by the idle reader around them.
- *GetBody.* As IdleReader for the reader, the timer and Close; the lines of
  resumingBody that wait for nobody run. The service, or the SDK for it, ends a
  request whose context is done, and is not assumed to answer before.
- *Provider.* Who walks a listing asks for the next page, and is answered. Nothing
  is assumed of those who write meanwhile, or of a call.
- *S3Put.* Only once the caller's context is done: every wait on the service but
  the aborts then ends, transfermanager's abort returns, and `abortTimeout` ends
  Put's. The body is assumed to answer its Reads. No fairness is assumed of a Put
  whose context is live.

## 4. The proofs

TLAPS checks eight proof modules. Each states an inductive invariant `IInv`,
proves that Init implies it and that each action keeps it, and derives the
properties from it. They hold for every value of the constants that the named
assumptions allow.

- **StoreLifecycleProofs** (assumptions: `GatedOps` are among the six, `CtxErrs`
  among the two, "free" is no goroutine). `TypeCorrect`, `ClosedSafely`
  (`CloseOnce`), `LateCallsAreRefused`, `OvertakenStarts`,
  `StartFailuresClassified` and `Refinement` (`ImplementsGate`). None of these
  is inductive alone. The gate's safety rests on `MutexInv` (who holds `mu`) and
  `GateInv`: a Start about to store `started` excludes the mark, and an open gate
  with the mark set is in the hands of the one first Shutdown, which has the lock.
  `CloseInv` says there is one first Shutdown. `LateInv` follows a late call to
  its refusal, and `StartInv` what a Start has in hand between an answer and its
  return. The refinement's step simulation maps StartStore to Start, the
  first Shutdown's clear or mark to Shutdown, and everything else to Enter,
  Leave, CloseClient or a stutter.
- **ResumingBodyProofs** (assumptions: the constants are natural numbers).
  `OneVersion`, `BodiesAreClosed`, `ChecksumsStand`, `FailuresStick`, and
  `ReadsMoveOn`, the safety half of `ReadingEnds`: a resume uses up a Read's budget,
  which no step gives back before the Read returns. `PositionInv`
  says that the current answer stands at the offset;
  `OpenInv` which answers may be open at each step, Close's included; `FailureInv`
  that a returned failure is the kept one; `ChecksumInv` that a failed checksum
  lies at the last byte, where nothing is resumed when the size is known, and
  where the range is empty when it is not.
- **GetBodyProofs** (assumptions: `MaxCallbacks` and `MaxBodies` are positive, the
  object's length and the retries natural numbers). First IdleReader alone, over
  any body: `TypeCorrect`, `SlowReaderSafe`, `ReadsReportTruthfully`, `CloseOrder`,
  `StallsAreFinal`. `ExpiryInv` is the key: a Read's own expiry leaves the timer
  stopped until its Stop, which therefore returns false; `CutInv` and `FinalInv`
  tie the report to `fired`, which is never cleared. Then the composition.
  `GetImplementsIdleReader` and `GetImplementsResumingBody` say that its steps are
  steps of both components, so that both components' theorems hold of it; since a
  composition could do so by leaving steps out, `BodyAnswersAsAssumed` says that
  every return of the resumingBody's Read is an answer that IdleReader allows.
  `GetKeepsBoth` draws the conclusion: IdleReader's safety properties and
  resumingBody's hold of the body that Store.Get returns.
  `ClosingReleasesAll` (`CloseReleasesAll`) needs the invariant `GetInv`: the two
  components' own, `LinkInv` (the body is in a Read exactly while the idle reader
  waits for it, and closed exactly when it was told to be; an end follows the last
  byte) and `CauseInv` (the body blames the context only once the request is done,
  and its closing only once it is closed).
- **StorePutProofs** (assumptions: lengths and the bound are natural numbers, Size
  any integer, buffers not empty). `TypeCorrect`, `SuccessMeansStored`
  (`StoredIsBody`), `LimitsHold` (`NothingPastLimit`), `FailuresAreReported`. The
  argument follows the bytes: by `CountInv` the body's position, both limitReaders'
  counts and what the provider was given differ by the one byte of a probe at most;
  by `ErrInv` one reader at most holds an error, and which says whose byte that is;
  by `EndInv` a clean end was reported only after the whole of a body that kept to
  its limits. `ReturnInv` and `ResultInv` carry that past the provider's return,
  through the two checks that Put makes in turn while a Read may still run.
- **AzurePutProofs** (assumptions: block size, concurrency and tries are positive,
  lengths and sizes natural numbers). `WritesWholeBody` (`BlobIsWholeBody`) and
  `BodyFailuresReported`. UploadStream may drop the error of the Read that filled a
  block; `ReaderInv` says that the trackedReader keeps it, and `CleanInv` that a
  write is sent only with no failure kept and the body read to its declared end.
  `tries + applied <= sent` reaches from there to writes that are applied late.
  `AzureKeepsContract` (`KeepsContract`) is the refinement of ClientPut: each step
  is one of the contract's or a stutter. `ReadShows` is the lemma about the reader:
  the failure it keeps is one that the body shows at the bytes read.
- **S3PutProofs** (assumptions: as for Azure, with parts and workers, and no length
  past `PartSize * MaxParts`, `MaxParts` being the model's bound). `WritesWholeBody`
  (`ObjectIsWholeBody`), `BodyFailuresReported`, `PartsAreFreed`
  (`PartsFreedOrNamed`), `ModifiedAtIsOfContent`. As for Azure, with the buffer that
  decides between one request and an upload: `ReaderInv` says where the bytes are in
  each phase, `ReturnInv` that an upload that is aborted has a cause, that no
  later error replaces the body's, and that once a write was applied nothing older
  is at the key, on which `ModifiedAtIsOfContent` (`ModifiedAtFits`) rests: a
  HeadObject that finds this Put's ETag cannot have found what was there before. `S3KeepsContract` (`KeepsContract`) is the
  refinement of ClientPut, one lemma per group of steps. It needed one more conjunct
  of `ReturnInv`: a failed upload whose cause is a failure of the body has that
  failure in its reader too, without which Put could return one that no Read met.
- **ProviderProofs** (assumptions: those of the three modules, among them that an
  int is wider than 3, that the defaults lie within the limits, and that there are
  finitely many keys). `TypeCorrect`; `RetriesHold` (`RetriesAsConfigured`), for
  integers of every width, by cases of where `n + 1` wraps; `AnswersAreTrue`
  (`AnswerIsOfAMoment`), whose invariant says that the request under way belongs
  to the call (`RequestInv`), and that when S3's Stat looks at the bucket after
  a 404, the bucket is missing or the object was, in a world the call has seen
  (`StatInv`), the answers of each service and their classification being lemmas;
  and `WalksAreComplete` (`WalkIsComplete`), whose invariant says that the token of
  a walk is a frontier: nothing past it is listed, and every stable key up to it is
  (`FrontierInv`). That a page of the Fake's has a last key is proved by a minimal counterexample, since
  induction is out of reach. `PagesMoveOn` is the safety half of `WalkEnds`: the
  keys past the token, whether they exist or not, are finite in number, and every
  page that asks for another, an empty one too, leaves fewer of them, whoever
  writes in between.
- **ConfigProofs** (assumptions: the fields are among the eight and Container is one
  of them; the marks such as Unset are no values). `AcceptedConfigs` and
  `OptionsIsolated`. `AcceptedIsUsable` is inductive with the shapes of the Configs
  and maps: Merge never unsets what is set, and Finalize leaves no timeout nil.

`CloseOrder` (`CancelledBeforeClosed`) is the first conjunct of `CloseReleasesAll`,
for a body of any kind. The type invariants of StorePut and IdleReader are proved,
as the ground of the other invariants, and are no property of a run. Each inductive invariant was also checked by TLC, on the
constants of its component's run.

Only model-checked:

- All liveness: `StartAndReadyReturn`, `ShutdownCompletes`, `ReadReturns`,
  `ReadingEnds` (beyond `ReadsMoveOn`), `CancelledPutReturns`, `WalkEnds` (beyond `PagesMoveOn`), and the fairness that `ImplementsIdleReader`
  carries beyond `GetImplementsIdleReader`. Fairness and ENABLED are beyond the
  prover.
- Conformance's `VerdictIsRight` and `NothingLeftBehind`. The suite's cases are a
  fixed, finite set of scripts, which the run goes through exhaustively; a theorem
  would repeat that enumeration, and add only that `MaxFaults` may be any number.
- The properties of section 5, which the code does not have.

## 5. Findings

1. `idle_reader_stall` (`idle.go:41`). A callback of an earlier Read's timer that
   runs late cancels the request under the next Read. That Read's own timer is
   armed, Stop returns true, and the Read returns a bare context.Canceled, which
   the comment on `stalled` (`idle.go:54-55`) and `idle_test.go:150-151` say a
   caller never sees.
2. `s3_put_contract` (`s3/objects.go:83`). A PutObject whose answer is lost may
   have been applied; `client.go:108-110` promises that on any error nothing is
   written. No client of S3 could keep that promise.
3. `fake_container` (`storagetest/fake.go:308`). DropContainer between a Get's
   look at the container and its lock makes the Get answer ErrNotFound for a key
   that was held as long as the container was; the documentation
   (`fake.go:54-59`) has ErrContainerNotFound there. Put checks under the lock
   and is right.

## 6. What is not modelled

- The characters of keys, of bucket, container and account names and of endpoints,
  and the parsing of numbers and durations: a value is good or bad, and an option a
  number or no number. They have no state.
- The SDKs' own machinery: the AWS transfermanager, the Azure UploadStream and
  retry reader and both retry policies enter as external steps, as the code in
  `s3/` and `azureblob/` relies on them. Backoff and pauses have no counterpart.
- A Delete, a Stat or a List has no model of several calls of one client in
  progress at once: a client keeps no state between them, so the other calls are
  the changing world.
- The Fake's counters and records of the last calls, and its WithClock and
  WithCapabilities options, which change no state.
- The suite's texts, and its use of testing.T beyond Errorf, Fatalf and Cleanup.
- Scripts and the compose environment.

## 7. Plan

Done: every component in section 1, the refinements (the gate, Get over S3, and
both Puts against ClientPut), and proofs of every safety property that a passing
run checks, Conformance's two apart.

Next: StorePut over ClientPut as one composition, as GetBody is one of IdleReader
and ResumingBody; and more of the Fake's operations under concurrent calls, where
the third finding came from.

## 8. Running it

    tlc -config MCStoreLifecycle.cfg MCStoreLifecycle
    tlapm StoreLifecycleProofs.tla

and likewise for the other configurations and proof modules. The configurations
named in section 5 end in a counterexample.
