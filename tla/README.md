# A verification of signature-service

signature-service is an HTTP service that keeps *signature devices*. A client
creates a device under an id of its choice and gets a public key back; it then
asks the device to sign payloads. Every signature covers a counter and the
device's previous signature, so the signatures of a device form one chain that
anyone with the public key can audit. Everything lives in the memory of one
process.

This directory models the service in TLA+, checks it with TLC on small
instances, and proves its central invariants with TLAPS for every number of
requests, devices and payloads. Source paths below are relative to the
repository.

## The system

| Component | State | Operations | Where |
|---|---|---|---|
| Service handlers | none of their own; locals of one goroutine per request | create a device, sign, get a device, list devices, list signatures, get a signature | `internal/service/service.go` |
| In-memory repository | `mu` (RWMutex, only its writer side is used), `devices`, `signatures` (nil, never written) | `Tx` = lock, `Commit` = `Rollback` = unlock, lookups, insertion, `AddSignature` | `internal/repository/inmem/inmem.go` |
| Domain | record types, sentinel errors, the `Tx` interface | - | `internal/domain/domain.go` |
| Signing registry | algorithm name -> signer | look up, generate a key pair, sign, encode the public key | `internal/signing/` |
| Wiring and lifecycle | registered signers, assigned handlers, hooks, shutdown channel and signal channel | `Run`, `Serve`, `Shutdown`, signal and shutdown goroutines | `internal/server/server.go`, `.../restapi/server.go` |
| API set-up | handlers, codecs, handler cache, chain of middleware | `NewSignatureServiceAPI`, `configureAPI`, `Serve`, `Init` | `.../restapi/configure_signature_service.go`, `.../operations/signature_service_api.go` |
| Request binding | - | parse and validate path ids and bodies | `.../restapi/operations/*_parameters.go`, `.../models/` |
| Responders and middleware | three nested response writers per request | status, headers, body; recovery of panics; request log; request id | `.../operations/*_responses.go`, `internal/httph/` |
| OpenAPI document, models | - | the operations, their answers, the schemas; `Validate` | `.../embedded_spec.go`, `.../models/` |
| URL builders | identifiers and base path of one URL | setters, `Build`, `BuildFull` | `.../operations/*_urlbuilder.go` |
| Entry points, logging | - | - | `cmd/`, `internal/logh/`, `internal/args.go` |

How they interact: the generated router binds a request and calls a handler on
the goroutine of the connection. `CreateSignatureDevice` first generates a key
pair through the registry, outside any lock. Every handler then calls
`Repository.Tx`, which locks the one mutex of the storage, works on the maps,
and leaves with `Commit` or `Rollback`, which both only unlock: nothing is ever
undone, so a handler is correct only if it never fails after it wrote. Locks of
the two writing handlers are released by hand on each return path, those of the
reading handlers by `defer`. The responder is built from locals after the lock
is gone.

What is hard here, and what makes each part correct:

* *handlers and repository*: requests interleave at every point outside the
  lock. Correct when each device has one unforked chain, an answer of 201
  stands for exactly one effect and any other answer for none, an id is created
  once whoever races for it, and no waiter waits for ever;
* *counter*: an `int64` incremented without a check, which the document calls the
  number of signatures; correct as long as there are not too many of them;
* *wiring*: an operation without an assigned handler is answered by a default;
* *lifecycle*: shutdown, signals and requests in flight race; a restart forgets
  every device;
* *set-up*: `ConfigureAPI` copies what it finds, so the order in which `Run`
  sets things decides whether they are used;
* *binding*: document, generated validators and router are three readings of one
  source; correct when what the document allows reaches a handler and nothing else,
  which it is but for two kinds of fault that nobody looks for;
* *response pipeline*: the status is written before the body is encoded, and a
  panic may come in between or while the lock is held; three nested writers
  decide what the client gets and what the log says of it;
* *the signed message* joins three fields, one of them free text; correct when
  no two signings make the same text.

`PROJECT.json` lists these hazards with the line each bites at and the
properties that would show it going wrong.

## The modules

| Module | Models |
|---|---|
| `Signing` | keys, signatures, encodings and the signed message as symbolic terms; what the registry knows and when signing can succeed |
| `InMemStorage` | the mutex, the two maps and the repository operations on them |
| `SignatureService` | the six handlers as steps of concurrent requests, and the properties |
| `SignatureLedger` | the abstract promise: an atomic ledger of devices and their signatures |
| `SignatureServiceRefinement` | the refinement mapping from the service to the ledger |
| `SignatureServiceProofs`, `SignatureChainProofs`, `SignatureAnswerProofs` | the theorems and their proofs: shape and lock, the devices, the answers |
| `SignatureRefinementProofs` | that the service implements the ledger, and so does each life of a server |
| `MCSignatureService`, `MCSignatureServiceRefinement` | constants for TLC |
| `HttpServer` | the process around the handlers: `Run`, listeners, signals, the shutdown goroutines, requests in flight |
| `HttpServerProofs` | the theorems about it |
| `SignatureServer` | `SignatureService` in a process that is started again and whose libraries may panic |
| `ApiDocument` | the OpenAPI document: operations, answers, schemas, and the router over them |
| `ApiModels` | the generated models: zero values, decoding, `Validate` |
| `ApiSetup` | how `Run` puts the API together: handlers, codecs, handler cache, the chain of middleware |
| `RequestPipeline` | one request through that chain: routing, binding, the responder, panics, three response writers, the log |
| `RequestPipelineProofs` | the theorems about it |
| `UrlBuilders` | the six URL builders as functions of what a caller filled in |
| `SecuredData` | the text that is signed |
| `SecuredDataProofs` | that it has one reading |
| `SignatureServerProofs` | the theorems about restarts and panics |
| `SignatureServerRefinement` | what the lives of that process are to the ledger |
| `MCSignatureServer`, `MCRequestPipeline` | constants for TLC |

`RequestPipeline` extends `ApiSetup`, `ApiModels` and `UrlBuilders`, which all
extend `ApiDocument`: a request may carry the builder that made its URL. `SignatureServer`
extends `SignatureService`. Two abstractions meet at a handler's call:
`RequestPipeline` takes any responder the operation has as the handler's answer,
or a panic, and `SignatureService` starts with a bound request and ends with
the answer. `SignatureServer` takes from the pipeline that Recovery turns a
panic into an answer and runs nothing else of the handler.

### From code to state and actions

`mu`, `devices` and `signatures` are the fields of `Storage`; a Go map is a
function on the keys it holds. `pc[r]` is where the goroutine of request `r`
stands; `req`, `keyPair`, `info`, `signature` and `resp` are the parameters,
locals and responder of its handler. `issued` is history: per device, which
request had what signed, in the order `AddSignature` ran. It exists only so
that the properties have something to compare the two stored numbers with.

| Action | Code |
|---|---|
| `Accept`, `NotImplemented` | a valid request reaches its handler, or the generated default (501) |
| `GenerateKeyPair` | `Registry.GenerateKeyPair`, before the lock, may fail |
| `BeginTx` | `Storage.Tx`: waits for the mutex |
| `Create` | `CreateNewSignatureDevice`: 409 or the insertion |
| `GetInfo` | `GetSignatureDeviceInfoByID`: 404 or the snapshot |
| `SignData` | `GetSigner`, the message, `Sign`, may fail |
| `StoreSignature` | `AddSignature`: counter and last signature |
| `Read` | the body of the four reading handlers |
| `Commit`, `Rollback` | unlock, and the return of the handler with its answer |
| `Deliver` | the client has the response |

`HttpServer` stands by itself: a request is a connection that is queued, in
flight or answered, and what its handler does meanwhile is `SignatureService`'s
subject. One variable is where each goroutine stands: `main` (`Run`, `Listen`,
`Serve`), `handler` (`handleInterrupt`), `shut` (`handleShutdown`), and per
listener `serve` (its `http.Server.Serve`) and `stopper` (its
`http.Server.Shutdown`). `closes` counts `close(s.shutdown)`, `interrupt` is
the signal channel of capacity one, `wg` the `WaitGroup`.

| Action | Code |
|---|---|
| `Listen`, `NotifySignals`, `StartServing`, `StartHandleShutdown`, `ServeReturnsNil` | `Listen` and `Serve`, in their order, each listener in its turn |
| `ListenFails`, `LoadCertificateFails`, `NoCertificate`, `ServeFails` | the error returns of `Serve` and its `Fatalf` exits |
| `RunReturns`, `MainReturns` | `Run`'s deferred `Shutdown`; the exit status |
| `Signal`, `ReceiveSignal`, `CheckInterrupted`, `InterruptShutdown` | `signalNotify`, `handleInterrupt` |
| `ShutdownBegins`, `PreServerShutdown`, `ReceiveResult`, `ServerShutdown` | `handleShutdown`, with its short-circuit receive |
| `ServeBegins`, `ServeReturns`, `CloseListener`, `Drain` | `net/http` as these goroutines call it |
| `Connect`, `AcceptConn`, `Answer`, `Tick` | clients, and time once the shutdown context exists |

In `RequestPipeline`, `left` is the part of the chain of handlers that is not
entered, `entered` the stack of those that are, and `stage` where the innermost
one stands. `w` is the header map with the three writers over it: `net/http`'s
(`w.wire` is what the client gets), `writerHeader` and `loggingResponseWriter`.
`journal` is what the log says. The chain is not written down: it is `Api.chain`,
what `RunSetup` makes of `Run`'s calls in their order.

| Action | Code |
|---|---|
| `SetResponseHeader`, `RequestIDHandler`, `LogHTTP`, `Recovery` | a middleware is entered, up to its call of the next one |
| `SpecDocument`, `SwaggerUI`, `Router` | go-openapi: the document, its UI, the route or 404 or 405 |
| `Bind` | `ServeHTTP` of the operation: media types, `BindRequest`, `Validate` |
| `Handle`, `HandlerPanics` | the handler returns one of its responders, or panics |
| `WriteStatus`, `WriteBody` | `WriteResponse`: status, then payload, which may go out in part |
| `Unwind` | the panic reaches `Recovery`'s deferred function, which answers |
| `Return` | the innermost frame returns; `log_http` writes its last line |

`SignatureServer` adds to the actions of `SignatureService`:

| Action | Code |
|---|---|
| `KeyGenerationPanics` | a panic before `Tx`: nothing is held |
| `SigningPanics` | a panic between `Tx` and `Commit`: nobody unlocks |
| `Restart` | the process ends anywhere and `Run` makes a new storage; `archive` remembers every signature ever stored |

`SecuredData` has one action, `Seal`: a signing made its message.
`ApiDocument`, `ApiModels`, `ApiSetup` and `UrlBuilders` have none: they are the
functions of the code that depend on nothing but their arguments, and `Run`'s
set-up, which is over before the first request.

A path is a sequence of segments, as it stands in the request; go-openapi looks at
it only after `path.Clean`, in the router and in the middleware for the document
and its UI, and so does the model (`Clean`). Media types are negotiated as
go-openapi does it: a body must be JSON, and a client that asks for another type
is refused (406) only if it sent none.

Abstractions: a string in `ApiDocument` is known by what the document can tell
of it (empty, an enum's value, a UUID of a version the pattern has or has not,
other text), an integer by whether it is zero; the bytes of an answer by who
wrote them. Keys and signatures are terms that are equal exactly when the
bytes are, up to collisions and forgeries; a key pair is known by the request
that generated it; the message is a term too, which
`SecuredData` justifies; labels are left out of the service because no code
there reads them; lists sorted by a unique key are maps. Errors
the in-memory repository never returns (from `Tx`, `Commit`, `AddSignature`)
have no branch. Key generation and signing may fail at any time.

## The runs

| Run | Question | Bounds |
|---|---|---|
| `service` | does the lock bracket every transaction, does a sign request's snapshot stay current, does a 201 stand for exactly one stored signature or device, is what is read one state of the device, do chains stay intact and apart, is a device ever rekeyed or rewound, and is every status in the document once every operation has its handler? | 4 requests, every operation, 2 devices, a counter of four values |
| `refinement` | are effects and answers those of an atomic ledger, and is every request that arrived served and answered? | 3 requests, every operation, 2 devices, fair |
| `http_server` | does a signal stop the process, only a signal, once, and with the documented grace, whenever it comes and whether or not requests end? | 1 listener, 2 requests, a timeout of 2 ticks |
| `two_listeners` | the same end with a listener that may fail to stop first; is a request cut off only after the timeout or by such a failure, and does the last hook run after the last response? | HTTP and HTTPS, 1 request each, a timeout of 1 tick of 2 |
| `server_faults` | over restarts and panics: one chain per key, answers that verify in their own life; is each life the ledger, panics included; which panics leave the lock behind, what that costs, and that nothing else keeps a request from its answer | 4 writes, 1 RSA device, 1 restart, fair |
| `request_pipeline` | is what the document allows handled and, of the rest, just what is overlooked, does a built URL lead back to its operation and identifiers, is what is answered in the document, what of it does a validating client refuse, is every answer one message with its headers, and does the log tell the truth? | every operation, requests from the values below, payloads of 1 and 3 bytes, 2 bytes of an error logged |
| `secured_data` | can two signings make the same message? | 2 messages, texts of up to 2 characters |
| `graceful_timeout` | is the grace period kept with the timeout `Run` leaves? violated | 1 listener, 1 request |
| `as_wired` | the statuses again, as `Run` wires the API: violated | 1 request |
| `list_signatures` | does the list of a device's signatures hold them? violated | 3 requests |
| `counter_wrap` | is the counter the number of signatures? violated | 3 requests, 1 device, a counter of four values |
| `invalid_input` | is input the document excludes answered 400? violated | 5 requests, with and without an identifier of their own |

Each request makes one call, chosen freely; repeated calls of one client are
calls of several requests, so a client's retry is included. Three concurrent
requests suffice for the races the code can have (two writers and the one that
created the device); the fourth lengthens the chain, adds a reader or a second
device. The counter's width is a parameter: the code's 2^63-1 is out of reach, a
bound of 1 puts the wrap inside the run: after a creation, the third signing
signs the counter that has wrapped. Requests (and, in `service`,
devices) are interchangeable, so the runs of safety alone use symmetry;
`refinement` and `server_faults`, which check liveness, do not.

In the lifecycle runs `GracefulTimeoutDefault` bounds the clock: nothing in the
code depends on a later time. Two listeners are enough for the short-circuit
receive, which one listener cannot exercise and a third only repeats. All runs
of `HttpServer` let `Accept`, `Listen` and the closing of a listener fail at any
time.

The requests of `request_pipeline` are those of every operation with every
combination of present and absent fields, each field with a valid value and one
of every way to be wrong (empty, outside the enum, a UUID the pattern excludes,
a number for a string), bodies that are missing, blank or malformed, wrong media
types, paths of no operation, of an operation only once they are cleaned (empty
segments, dots) and methods of none, with and without the client's
own `X-Request-ID`. Payloads of 1 and 3 bytes with `maxLoggedBody` 2 (4096 in
the code) fall on both sides of the limit, and a partly written payload with the
text of Recovery after it crosses it in two writes. A client has one request:
requests share nothing in the pipeline.

Four writes and a restart are two creations of one id, each with a signature,
in two lives; RSA without randomness is the algorithm that would repeat a
signature. Texts of two characters are enough to let data hold
an underscore at either end, which is what could shift the borders of a message;
the theorem covers every length. The builders of `request_pipeline` hold
identifiers that are empty, valid (two, so that they can be swapped), dots,
several segments and the other placeholder, over three base paths.
`secured_data` and `server_faults` do not check deadlock: the
first stops at its bound, and in the second a leaked lock does stop the service.

In every other passing run a state where a request waits and nothing can move is a
deadlock that TLC reports; only the state in which all are answered may
stutter (`AllDone`, in `RequestPipeline` `Served`), or in `HttpServer` that in
which the process ended.

**Fairness.** `FairSpec` assumes that a runnable goroutine eventually runs
(weak fairness of each handler's steps) and that a goroutine waiting in `Tx` is
eventually let in although the mutex is taken and freed in between (strong
fairness of `BeginTx`; Go's mutexes hand over to a waiter they have starved for
a millisecond). `FairServerSpec` of `SignatureServer` assumes the same and no
more: no panic and no restart need ever happen, so `PanicsAreContained` is
about what the others do whichever of them occurs. Nothing is assumed of
clients: no request need come, and no
response need be read. `HttpServer`'s `FairSpec` assumes the same of its
goroutines and that time passes; a request in flight need never end.

**The ledger.** `SignatureLedger` knows no lock, snapshot or stored counter: a
device is its key and the list of its signatures, every request is served at
one instant between arrival and reply, or refused without effect. The mapping
of `SignatureServiceRefinement` places that instant at the step that decides
the answer. With it the service is linearizable: a signature answered before
another request arrives precedes that request's signature in the chain. The
ledger leaves open what a list of signatures contains, and counts in `Nat`:
its runs stay below the wrap, and its theorems assume it, or that requests are few enough.
That every request which arrived is served is shown by the run alone.

`SignatureServerRefinement` asks the same of `SignatureServer`, through the same
mapping. A panic is a refusal: what the handler had read or computed is nowhere in
the book. A leaked lock is no way out of the ledger either, it only breaks the
promise to serve (`PanicsAreContained`). A restart is a step the ledger does not have,
`StartsOver`: the book is empty again and the answers already given remain.
`server_faults` checks it for writes, which are what panics and restarts cut short;
the theorem covers the reads too.

## Findings

* `as_wired`: `Run` never assigns `GetDeviceSignatureHandler`
  (`internal/server/server.go:42-46`), so the documented operation is answered
  501 by the generated default.
* `list_signatures`: `AddSignature` (`internal/repository/inmem/inmem.go:66`)
  never records the signature itself, so `ListDeviceSignatures` answers an
  empty list although the document promises all signatures in creation order.
* `counter_wrap`: the counter is the "Number of signatures produced by this device"
  (`internal/api/swagger/swagger.yaml:309`, `models/signature_device.go:42`), but
  `AddSignature` (`internal/repository/inmem/inmem.go:68`) increments an `int64`
  without a check: after 2^63-1 signatures the device shows, and signs, a negative
  number. `CounterIsTheCount` proves that this is the only way to a wrong counter.
* `graceful_timeout`: the flag `--graceful-timeout` documents 15 seconds
  (`restapi/server.go:72`), but `Run` never parses flags, the field stays 0 and
  a request in flight is cut off as soon as a signal comes
  (`restapi/server.go:416`). `http_server` shows that with the documented value
  the period is kept.
* `invalid_input`: validation errors of go-openapi are answered 422
  (`models/create_signature_device_request.go:37`, the path parameters alike),
  where README.md:252, 269, 286 and 423 expect `400 Bad Request`. Only a body
  that is no JSON, or of another type, is answered 400.

Five more disagreements were met while modelling. They can be read off the
code, and no run is spent on them:

* a field the schema does not have is ignored
  (`operations/create_signature_device_parameters.go:55`), although both request
  schemas say `"additionalProperties": false` (`embedded_spec.go:305`, `321`);
* an empty label is accepted (`models/create_signature_device_request.go:119` skips
  the check of a zero value), although the document says `minLength: 1`
  (`internal/api/swagger/swagger.yaml:229`). `HandledIffAllowedOrOverlooked` shows,
  and `BindingTakesAllowedOrOverlooked` proves, that these two are all: `Acceptable` is
  the document's word, and `Overlooked` names the requests the document excludes for an
  unknown field or an empty optional string only, which are handled all the same;
* a device without a label, or with a counter of 0, is answered as a
  `models.SignatureDevice` that its own `Validate` refuses
  (`models/signature_device.go:31`, `43`: "Required: true").
  `RefusedOnlyForZeros` shows that nothing else is refused;
* `Run` assigns the jsoniter codecs after `ConfigureAPI`
  (`internal/server/server.go:81`), when the router has taken the others;
  `ApiSetup` models that order;
* Recovery promises 500 (`internal/httph/httph.go:23`), but a responder that
  panics has sent its status (`sign_transaction_responses.go:49`).
  `WholeAnswerIsOneMessage` shows that then the connection is always broken, so
  the client does not take the pieces for an answer.

`server_faults` also shows what is no finding because nothing promises otherwise:
after a restart the id of a device can be created again with another key, and
after a panic of a signer under the lock nothing moves until a restart.

With more than one listener, which `Run` never asks for, the grace period could
also be cut short by an error of closing a listener: `handleShutdown` stops
receiving results at the first failure (`restapi/server.go:442`). `TimeoutHonoured`
says exactly that for any number of listeners, and is proved for every timeout the
field may hold. With the 0 that `Run` leaves it promises a request nothing, which
is what `graceful_timeout` shows; with the documented timeout and one listener it
is `GracePeriodHonoured`.

## The proofs

The theorems hold for every set of requests, devices, payloads and calls, every
wiring and every counter width, for every set of listeners and clients and
every timeout, for requests with any path, headers and body, and for payloads of
any size and any limit of logged bytes, where nothing else is said:

| Theorem | Property | Module |
|---|---|---|
| `TypeCorrect` | `TypeOK` | `SignatureServiceProofs` |
| `LockIsDisciplined` | `LockDiscipline` | |
| `InfoStaysFresh` | `FreshInfo` | |
| `ChainStaysIntact` | `ChainIntact` | `SignatureChainProofs` |
| `DevicesAreForever` | `DeviceHistory` | |
| `CounterIsTheCount` | `CounterCountsSignatures` exactly as long as no device has more signatures than the counter can count | |
| `CreatedOnce` | `CreateOnce` | `SignatureAnswerProofs` |
| `SignedExactlyOnce` | `ExactlyOnce` | |
| `DevicesReadWhole` | `ReadsAreSnapshots` | |
| `StatusesAreDocumented` | `DocumentedStatus`, when every operation that is called has its handler | |
| `ServiceImplementsLedger` | the ledger without its fairness, as long as no counter wraps | `SignatureRefinementProofs` |
| `FewRequestsImplementLedger` | the same, for fewer requests than a counter has values | |
| `LivesImplementLedger` | `LivesFollowTheLedger`, for fewer requests than a counter has values | |
| `ServerTypeCorrect` | `TypeOK` | `HttpServerProofs` |
| `ShutdownClosesOnce` | `ClosedOnce` | |
| `StopNeedsSignal` | `StopsOnlyWhenAsked` | |
| `HookRunsAfterDrain` | `HookAfterDrain` | |
| `TimeoutIsHonoured` | `TimeoutHonoured` | |
| `MessageHasOneReading` | the message as a function of its fields is injective | `SecuredDataProofs` |
| `OneReadingHolds` | `OneReading` | |
| `OnlySigningLeaksTheLock` | `LockLeaksOnlyBySigning` | `SignatureServerProofs` |
| `LeakIsFinal` | `NothingMovesOnceLeaked` | |
| `KeysKeepOneChain` | `OneChainPerKey`, as long as no counter wraps | |
| `FewRequestsKeepOneChain` | `OneChainPerKey`, for fewer requests than a counter has values | |
| `KeysVerifyTheirLife` | `AnswersVerifyInTheirLife` | |
| `PipelineTypes` | `TypeOK` | `RequestPipelineProofs` |
| `LogTellsTheAnswer` | `LogReportsAnswer` | |
| `RoutedRequestsAreLogged` | `RoutedIsLogged` | |
| `AnswersAreMarked` | `AnswersCarryHeaders` | |
| `OneMessageAnswers` | `WholeAnswerIsOneMessage` | |
| `WiredServe` | `ServedByService` | |
| `ServiceKeepsTheDocument` | `HandlerAnswersConform` | |
| `ZerosAreRefused` | `RefusedOnlyForZeros` | |
| `BindingTakesAllowedOrOverlooked` | `HandledIffAllowedOrOverlooked` | |
| `BuiltUrlsRouteBack` | `BuiltUrlRoutesBack` | |

None of the properties is inductive alone; each rests on a chain of invariants:

* `LockInv` adds `Locals`: a handler only stands where its operation takes it,
  with its request bound and its key at hand. Without it a request at
  `addSignature` might carry no device id. The lock makes `FreshInfo`
  inductive: between `getInfo` and `addSignature` the request is in `Critical`,
  so it is `mu`, so no other request is at a step that writes.
* `ChainInv` adds that a device publishes the public half of the key it signs
  with (`KeysMatch`) and that a computed signature is the one of its own
  request (`SignedRight`); then `StoreSignature` appends an entry made over the
  end of the chain. `DeviceHistory` follows from it step by step.
* `CountInv` names the number of times the counter went round: a congruence is
  not inductive for the provers, an equation with a witness is. `CounterIsTheCount`
  then only has to see that no turn (`NoTurn`) fits a count the type can hold, and
  that a count it cannot hold is no value of the counter.
* `CreationInv` ties the owner of a device's key to where that request stands:
  past its insertion, and never answered anything but 201. That a key pair is
  generated outside the lock is harmless because a key that lost the race owns
  no device.
* `StoredInv` says that a request has an entry from `StoreSignature` on and
  none before, and that a sign request that rolls back holds no 201.
* `SnapshotInv` says that what was read stays a prefix of a chain that only
  grows at its end (`PrefixKept`).
* `ServiceImplementsLedger` shows `Spec /\ []BelowWrap => Ledger!Safety`, where
  `BelowWrap` says that no signing about to be stored meets a counter at its
  maximum. `Pages` says that a device has as many signatures as its counter says,
  which holds only below the wrap, that its last signature is the last of them and its
  algorithm that of its key; then the ledger's words for a device (`CounterOf`,
  `LastOf`, `View`) are what the code stores (`PageFacts`). One lemma per action
  says which step of the ledger it is: `Create`, `StoreSignature`, `Read` and the
  failing lookups serve their request, failures of the libraries refuse it, the
  rest leaves the ledger alone, `Commit` because the answer it builds was decided
  by the write before it (`CommitMaps`). All of them rest on `BookInv`, which leaves
  out the discipline of the lock on purpose: a panic breaks it, and
  `LivesImplementLedger` uses the same lemmas, with `DeviceInv` instead of
  `LockInv`, one lemma for the panics (`PanicMaps`) and one for the restart.
* `FewRequestsImplementLedger` replaces the hypothesis on the behaviour by
  one on the constants, as `FewRequestsKeepOneChain` does for the archive: a
  counter is at most the number of requests past their write (`FewInv`).
* `ServerInv` says what `wg` counts: the listeners' goroutines that have not
  returned, by cardinality, and that of `handleShutdown`. Only so does `wg = 0`
  mean that all have ended, and that the channel was closed, which before `Run`
  returns only a signal does.
* `DrainInv` says that a result is sent only after `Serve` returned, so nothing
  can be added to what is in flight, and that a request is left behind only at
  the deadline. `handleShutdown` is done with every listener's result, or with one
  that is a failure; `TimeoutIsHonoured` is about both cases.

* `MessageHasOneReading` reads a message from both ends: the first underscore
  ends the counter, because no digit is one, the last begins the last signature,
  because no character of base64 is one, and the data is what remains. The
  lengths are compared first (`CounterNotShorter`, `LastNotShorter`), then the
  characters. `OneReadingHolds` carries it to every pair of messages sealed.

* `LeakInv` sorts the steps of a handler by what they do to the lock (`Shape`:
  outside it, entering, inside, leaving), so that what restarts and panics add is
  checked against four kinds of step, not twelve. That a handler that panicked
  takes no further step is what makes the leak final.
* `ArchiveInv` says that a signing about to commit or answered has its entry in the
  history, with the signature and data it answers, and that whoever is
  served was accepted in this life. `DeviceInv` needs both.
* `DocumentedInv` says that the answer of a handler that has decided on one is
  documented. The hypothesis on `Calls` and `Wired` cannot be dropped: the default
  of an operation without a handler is what `as_wired` finds.
* `DeviceInv` carries `FreshInfo`, `KeysMatch` and `SignedRight` into the
  lives of `SignatureServer`, where a goroutine may be lost at any label and a
  storage be replaced: it adds that a device is keyed by a request that is past
  its insertion in the same life, so that no later creation can have that key.
* `KeyChainInv` adds two things to it. The key of every archived signature was
  inserted once and is never inserted again (`ArchivedKeys`), although its device may
  be gone and its id be in use. And a device stands at the end of its key's
  archived signatures (`EndOf`): what is signed next follows the last of them.
  `OneChainPerKey` is false once a counter wraps, since counters then
  repeat under one key; `KeysKeepOneChain` therefore assumes of the behaviour
  that no signing meets a counter at its maximum. `FewRequestsKeepOneChain`
  replaces this by a condition on the constants: a counter is at most the
  number of requests that have stored a signature (`BelowInv`, by cardinality),
  and a request at `addSignature` is not yet among them.
* `VerifyInv` relates answers to keys over lives: whoever was told 201 holds
  what its life gave it (`RequestOK`), and one id has one key in one life
  (`OneKeyALife`). The direction from verifying to the same life is the harder
  one: two lives never share a key because a request belongs to one of them.
* `PipelineInv` is one invariant for all of `RequestPipeline`, in four parts
  that need each other. `ControlInv` says where a request can stand: how much of
  the chain is entered and left at each stage, from where on a route is known
  and the log frame open. It needs the chain as a value, which
  is what the first lemmas compute from `Run`'s calls. `BoundInv` and
  `AnswerInv` say what the handler was given and who answers with what.
  `WriterInv` ties the three writers: each has sent a status exactly when
  the one below has, the log's counters are those of the wire, and what the
  wire carries is the whole answer or its connection is broken. Broken is what
  makes it inductive: after a panic between status and body Recovery writes
  a second message, which no statement about the bytes alone survives.
  `LogReportsAnswer` is in the invariant itself, since the last log line is
  written while frames above it still return.
* `ServiceKeepsTheDocument`, `ZerosAreRefused` and `BindingTakesAllowedOrOverlooked`
  then compare two readings of the document case by case: the responders of each
  operation with its answers, the generated `Validate` with the schemas,
  and the binding of parameters and bodies with what the schema accepts of an
  object once what is overlooked is trimmed off it. What conforms as it is
  conforms trimmed (`TrimmedConforms`), whatever the schema.

* `BuiltUrlsRouteBack` has two halves. That the path a builder made is one the
  router takes to its operation is about sequences of any length: a base path
  has any number of segments, and `path.Join` is a fold over them. The induction
  is had from the least element of a set of natural numbers (`Least`,
  `CountsUp`), applied to the set of lengths up to which the fold has been
  shown to be a sequence of single steps (`JoinIsJoined`); from there a base path
  that leads nowhere disappears (`JoinFromRoot`), the template is filled segment
  by segment (`FilledSegments`), and the method and number of segments tell the
  operations of the document apart (`MethodAndLength`). The other half is
  `RoutingInv`: what the router and the binding noted of a request is what its path,
  cleaned, and method say, in every later stage. A path a builder made is clean
  already (`PlainIsClean`).

Each proof of a step has one case per action, or per group of actions, that can
disturb the invariant; frame lemmas (`ChainFrame`, `StoredFrame`,
`SnapshotFrame`, `OthersAlone`) cover the rest.

Assumptions: `None` is not a request, the counter's bound is a positive
integer, `Calls` and `Wired` are among what the API has, a payload has at least
one byte, and a body is missing, blank, malformed or a JSON object, which are
the kinds decoding tells apart. A request said to go by a builder is what a client
makes of it (`BuiltAssumption`): the path it built, the method of its operation,
an accepted media type and a body the document allows; without that
`BuiltUrlRoutesBack` would be about anything. The cryptography is
symbolic. `SecuredDataProofs` assumes of its alphabets only that the underscore
is neither a digit nor a character of base64; that the decimal form of a counter
and the base64 of a signature are themselves injective is taken from the
standard library.

Every safety invariant and every action property the passing runs check is
proved, `GracePeriodHonoured` as the case of one listener and the documented timeout
of `TimeoutIsHonoured`. Only model-checked is liveness (`HandlersReturn`, `SignalStopsProcess`,
`PanicsAreContained`, the ledger's promise to serve), whose fairness and `ENABLED`
are out of the prover's reach. The three findings about the service (`as_wired`,
`list_signatures`, `counter_wrap`), the one about validation and the one about the
grace period are counterexamples, which TLC shows.

## Not modelled

* `cmd/`, `internal/logh/`, `internal/args.go`, `internal/internal.go`: the
  command line, the layout of log lines and a development tool, all I/O.
* `FlatSwaggerJSON`, which `Run` does not load, and the descriptions of both
  documents; the binary marshalling of the models, `ContextValidate`, which is
  empty for all of them but the lists, and the setters of responders.
* `SignatureServiceAPI.Validate`, `AddMiddlewareFor`, `RegisterConsumer` and
  `RegisterProducer`, and of the server `SetAPI`, the accessors of listeners and
  the options of sockets and TLS: `Run` reaches none of them.
* The white lists of logged headers, `Flush` and `Unwrap`: the first is layout,
  nothing here calls the others.
* That encoding/json matches names in any case, and that a UUID may be written
  in two: a name and an identifier are values in the models.
* go-openapi and net/http are modelled from how the code here uses them.

## What is left

Two assumptions could still be discharged: that decimal numerals and base64, which
`SecuredDataProofs` takes as injective from the standard library, are so; and the
shape of the requests in `RequestPipeline`, a constant here, could be derived
from what a client can write on the wire. Liveness would need another prover.
