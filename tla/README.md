# A TLA+ model of go-authzen

go-authzen implements the AuthZEN Authorization API: a *client* (PEP side) that
asks a policy decision point for decisions and reads its metadata document, a
*server* (PDP side) that turns a Go `Decider` into an HTTP handler, and an
*interop* scenario with an example PDP. This directory models the parts that
keep state or run concurrently, checks them with TLC and proves theorems about
them with TLAPS. `PROJECT.json` maps every definition to the lines it models.

## Inventory

| Part | State it keeps | Operations | What is hard about it | What makes it correct |
|---|---|---|---|---|
| client metadata cache (`client/metadata.go`, `client.go`) | one cache entry (document, expiry), a mutex; per call a snapshot and a response | `FetchMetadata`, `fetchMetadataRaw`, `parseMaxAge` | goroutines overlap; the snapshot is judged after the unlock; the network may hang; the store is unconditional; `max-age` arithmetic | a foreign document is never cached or returned; a document served is fresh; an older publication returns only by losing a race; a hung fetch blocks nobody |
| client retrying doer (`client/doer.go`) | loop variable, last error, last response, request body, timer | `retryDoer.Do`, `backoff`, `shouldRetryStatus` | retries, cancellation in a pause, a drained body, memory of earlier attempts, `int64` doubling | the last answer is returned, only transient ones are retried, every attempt is complete, a cancelled call ends |
| client calls (`client/evaluate.go`, `search.go`) | none | `Evaluate`, `Evaluations`, three searches, `postJSON` | lost and late answers, gateways, bodies that are no decision | fail closed: no permit without a permit of the Decider |
| server handler and middleware (`server/handler.go`, `middleware.go`, `decider.go`) | per request: layers entered, header, status recorder, response | routing, `decodeRequest`, the Decider, `writeJSON`, `writeError`, the three options | concurrent requests, nested observers, panics, encode errors after the 200 | hooks see what the wire sees, the status says what happened, the echoed ID is the request's own |
| metadata document (`metadata.go`, `server/metadata.go`) | bytes fixed at construction | `BuildMetadata`, `NewMetadataHandler` | the Decider is probed once, with zero requests | what is advertised is what is implemented, but for causes that can be named, at the URL the Client calls unless an option overrode it; discovery works wherever the process means to be found |
| request types (`evaluation.go`, `search.go`, `types.go`, `authzen.go`) | none | five `Validate`s, default merging | three places merge defaults, each in its own code, and treat a blank field differently | what was validated is what is decided, item by item |
| interop scenario (`interop/`) | a fixture | `Decide`, the scenario Decider, the runner | a second implementation in Cedar must agree | one policy: `Decide` = Cedar on every request of the scenario's shape |
| todo-pdp example (`examples/todo-pdp`) | Cedar policies and entities, an HTTP server | the Cedar Decider, `run`, shutdown | a signal races the listener and the requests in flight | a process told to end does, whatever its Decider does, and reports success only if it left no request unanswered |

How they interact: `Client.Evaluate` validates, then `postJSON` calls an
`HTTPDoer`, which may be a `retryDoer` around `http.Client`; the request crosses
the network to `server.NewHandler`, whose option layers call the mux, the mux
the `Decider`; the response goes back the same way. `FetchMetadata` uses the
same `HTTPDoer` for a GET, and shares only the metadata cache between
goroutines. Hooks and the Decider are callbacks into the consumer's code.

## Modules

* `MetadataService` is the abstract specification of `FetchMetadata`: no
  mutex, no snapshot, no wire. A call returns the document of an entry that is
  unexpired at that instant, or asks the PDP and then returns a trusted document
  or fails and changes nothing. The set `live` holds the entries some call may
  still serve, `asked` the calls that went to the PDP.
* `MetadataCache` is the code. `pc[c]` walks goroutine `c` through
  `LockRead`, `Snapshot` (read `metaCache`, unlock), `Hit` or `Miss` (decided
  on the snapshot, outside the lock), the answer of the environment (`Answer`,
  `Refuse`, `TransportError`), `Reject` or `Accept` (status, decoding, mix-up
  check, in the order of `fetchMetadataRaw`), `LockStore`, `Store`. A document
  is a claimed `policy_decision_point` and the publication it describes; a
  `Cache-Control` value is a sequence of directives; durations are integers
  that wrap at `WordHalf`. It refines `MetadataService` with `live` mapped to
  the cache's entry and the snapshots not yet judged.
* `ClientOptions` is `NewClient`: the options run in their order over the
  defaults. `MetadataCache` and `Discovery` take their Clients from it.
* `RetryDoer` is `retryDoer.Do`: one action per branch of the loop. The
  wrapped doer is the parameter of `InnerReturns`, so another module can supply
  it. `answers` and `sent` are a history for the properties.
* `PdpErrors` tells what `errors.As` and `errors.Is` find in a Decider's error, and
  the status `writeError` makes of it; `RequestValidation` has the fields each
  `Validate` looks at, in its order, and what a search must name (`Pinned`).
  Both are without state, and used by the modules below.
* `PdpHandler` is the handler. A request moves inward through `chain` one
  layer at a time (`Enter`), is routed, decoded and decided (`NoRoute`,
  `Malformed`, `CallDecider`, `Decide`, `Panic`), and outward again (`Leave`),
  where observers call their hooks. `wire[r]` is what was committed. The five
  endpoints have one and the same handler body and are one action.
* `EvaluateExchange` composes doer and handler: `Evaluate` and `postJSON` over
  `RetryDoer`, a network and `PdpHandler`, from `Validate` and `BuildFails`, which end the
  call before anything is sent, to the judgement of the last answer. Attempt `k` is
  request `k` of the PDP and may be delivered and served long after the client gave
  it up. `Pdp`, `PdpServes` and `DeciderActs` are the handler's code; a gateway
  (`GatewayAnswers`) is not of this repository and sends what `postJSON` has to cope
  with: a page, JSON that is no decision under any status, a decision-shaped body
  under an error status.
* `AccessDecision` is the abstract specification of that composition: the PDP
  may decide each attempt, before or after the call ends; an attempt may be answered
  without a decision (`silent`), by anybody; the call ends once, with a permit that
  some attempt's verdict was, with a deny that one was or that is read into such a
  silence, or with an error; a refusal to ask leaves nothing decided.
  `EvaluateExchange` refines it with `ending` mapped to what `Evaluate` returned
  (`Ending`) and `silent` to the 2xx whose JSON has no decision (`Silent`).
* `PdpMetadata` is the document: `implements`, `BuildMetadata` over a Decider given
  by what each method does with a zero request and with real ones (`Probed`), overridden
  by the options of the program (`Options`: what they leave in each field they write,
  URLs of endpoints and the `policy_decision_point` included, since a
  `MetadataOption` is a function that may write any), `Marshalled` (a signed form that
  is not JSON leaves nothing) and the handler's answer.
* `PdpProcess` is the life of a PDP process as todo-pdp's `run` has it. `main` and
  `listener` are its two goroutines, `serverErr` the channel between them,
  `stopping` the context of `signal.NotifyContext`. `Setup` probes the Decider
  and builds the document once; `Bind` and `AcceptFails` are the listener's;
  `ServerStops` and `Interrupted` the two arms of the select; `Drained` and
  `GraceEnds` the two outcomes of `Shutdown`. The operator starts a process,
  signals it or sends it SIGKILL (`Kill`: the kernel resets what was open), and starts
  another one, changed; clients connect, one request each, and are answered, aborted
  by a panic, or reset. What a client was sent, an answer or a reset, may be lost
  (`Lose`): so a machine that dies tells nobody.
* `Discovery` composes `PdpProcess`, `ClientOptions`, `RequestValidation` and
  `MetadataService`: a PEP fetches the document (through the abstract
  service, which `MetadataCache` implements) and makes evaluation and search
  calls, while the PDP behind its address ends, fails and comes back as another
  and a client that is not this library's uses it too. `endpointURL` is the
  Client's: it never looks at what was advertised.
* `TodoPolicy` holds the Todo scenario's policy twice, without state:
  `Decide` over the fixture of `interop/scenario.go`, and `CedarDecide`, which
  is `policies.cedar` (`Authorize`: some policy permits) over `entities.json`
  (`Parents`, `Owner`) with the request's resource laid over it (`EntityFor`).
  `cedar.Authorize` itself is a library: a principal is in a role that is among
  its entity's parents, and an entity of the store under a UID is all there is
  of it. IDs are single words; a resource's properties are reduced to absent,
  without an owner, not decodable, or the owner they name.
* `TodoBatch` takes a request with its defaults and items through
  `EvaluationsRequest.Validate` (`Valid`; skipped by a PEP that is not this
  library) and the loop of one of the two batch Deciders, one action per item,
  each Decider with its own merge: `ScenarioMerge`, `CedarMerge`. One item
  without defaults is a single `Evaluate`. A nil request and
  `evaluations_semantic`, which both loops ignore, are left out.
* `MCMetadataCache`, `MCPdpHandler`, `MCEvaluateExchange`, `MCTodoBatch`,
  `MCDiscovery` give constants their values; `RetryDoer` is checked as it stands.
* `MetadataCacheProofs`, `RetryDoerProofs`, `PdpHandlerProofs`, `TodoBatchProofs`,
  `EvaluateExchangeProofs` and `DiscoveryProofs` hold the theorems.
  `PdpProcessProofs` holds what a step of a process preserves, for `DiscoveryProofs`.

Definitions whose comment begins with "Mutant:" are deliberate bugs. Nothing
uses them; each is the form of a neighbouring definition that a property must
refute, as `PROJECT.json` lists.

## Runs

| Run | Module | Shows |
|---|---|---|
| `cache_safety` | `MCMetadataCache` | Two goroutines, two claims, a PDP that republishes: type invariant, mix-up protection, the overlap condition, refinement of `MetadataService` |
| `cache_hang` | `MCMetadataCache` | With no fairness of the network at all, a call that does not itself wait for it gets on; lifetimes through all six headers |
| `cache_max_age` | `MCMetadataCache` | *violation*: `max-age=0` and an overflowing `max-age` do not win over the default |
| `doer_safety` | `RetryDoer` | Six properties of one retried call |
| `doer_context_error` | `RetryDoer` | *violation*: the context error is not what `Do` returns when cancelled in a pause, and only there (`SpecCancelledInPause`) |
| `handler_safety` | `MCPdpHandler` | Hooks, echo and status table for two concurrent requests through four chains |
| `handler_loggers` | `MCPdpHandler` | *violation*: two loggers are both called |
| `exchange_safety` | `MCEvaluateExchange` | Fail closed, verdicts unaltered, decisions logged, over a bad network with a gateway; refinement of `AccessDecision` |
| `exchange_status` | `MCEvaluateExchange` | *violation*: exhausted retries give a read error, not a `StatusError` |
| `todo_batches` | `MCTodoBatch` | What `Validate` checked is what each Todo PDP decides; the two PDPs agree; a batch is answered in full or not at all |
| `discovery` | `MCDiscovery` | An answer that belies the document has one of four causes; the URLs no option wrote are those the Client calls; a fetch yields a document exactly where the process means to be found; no search reaches a Decider open-ended; a process told to end does, with 0 only if it lost nothing; a fetch that goes out comes back unless it is lost |
| `todo_admin` | `MCTodoBatch` | *violation*: Cedar denies an admin whose own entity the overlay replaced |

### Bounds, and why they are enough

* Cache: two callers make every overlap there is between one store and one
  reader or storer. `MaxTime` 4 with a default of 3, a max-age of 1 second = 2
  units and one that wraps negative lets an entry be served, expire and be
  fetched again; `MaxVersion` 1 gives an older and a newer publication.
  `WordHalf` 8 makes five seconds overflow. The clock and the publications are
  bounded by guards in `Tick` and `Publish`, nowhere else. `cache_safety` uses
  the symmetry of the callers, and checks no liveness property.
* Doer: `MaxAttempts` 4 takes the pauses 4, 6, 6 from a base of 2 and a cap
  of 6: below the cap, at it and staying. 0 exercises the clamp. Statuses 200,
  500 and 503 stand for final, final-although-5xx and transient. `WordHalf`
  16 keeps twice the base and twice the cap within a Duration, which
  `BackoffGrowsToCap` requires.
* Handler: two requests, two IDs and none; no layer, each order of echo and
  observer, both observers around an echo, two loggers.
* Exchange: two attempts, so that one can be abandoned while the next is
  answered; one logger. The gateway's statuses 200, 500 and 503 stand for a success,
  a final failure and a transient one.
* Todo: all of `Cases()`, and 2400 single questions that leave its table in
  each direction: an unknown user and action, resource types in the wire's
  spelling, in Cedar's and in neither, todos of the fixture and not, every kind
  of properties, owners that are not the fixture's. Batches have no item or two,
  and every field of the defaults is given or missing, of an item given, missing
  or blank; two items put an undecodable one before and after a good one.
* Discovery: two starts, each of any of five deployments, so that every one follows
  every other while the PEP holds the first one's document: todo-pdp as it is (on
  every interface); a Decider whose methods fail, panic or dispatch each in a way of
  its own, told its URL with two slashes, with a JSON signed form and an option that
  sends one search elsewhere; one that lacks every method, on the IPv6 wildcard,
  with options that claim a public URL, take evaluation out and put a search in; one
  whose probe panics; todo-pdp with a JWS in compact form. Two Clients, a strict one
  with a slash after its URL and a relaxed one. A request fills all fields or all
  but one that some search needs. The other client asks for the document with the
  wrong method, and for a search with the zero request. The clock stands still; that
  a document's lifetime is over is an action, `EntryExpires`, that may come at any
  time. No strict Client of the run accepts a document whose claim an option wrote;
  that `AdvertisedWhereCalled` excludes those matters to the theorem alone.

### Fairness

`MetadataCache` assumes that a goroutine that can run does, and that a
mutex released again and again is acquired (`sync.Mutex` hands itself to a
starving waiter): strong fairness on the two locks, weak on local steps, none on
`Answer`, `Refuse` or `TransportError`, because a network may hang. `RetryDoer`
assumes the loop runs, the select sees a context that is done, and a wrapped
doer whose context is done answers (`http.Client` does); nothing is assumed of
the timer. `EvaluateExchange` assumes that net/http runs a handler it has
started, client or no client; nothing of the Decider, the network or the caller.
`PdpProcess` and `Discovery` assume that main's goroutine runs and the
timer of `Shutdown` fires (`MainReturns`), that the document's handler, which
only writes bytes it has, runs (`DocumentServed`), and that the PEP's goroutine
fails when it cannot connect and takes what it was told its connection ended in;
nothing of the network, of the Decider, of the other handlers and clients, of the
listener or of the operator. The network may lose an answer or a reset (`Lose`) and
need never say so: a fetch whose connection is lost may wait forever, for the Client
sets no deadline, and `FetchEnds` promises it nothing. As nothing is assumed of
the Decider, `ProcessEnds` holds with one that never returns, and `FetchEnds` next
to one.

`PdpHandler` and `TodoBatch` check safety only.

A call, a request, an exchange and a batch end, so those runs do not check for
deadlock; in `MetadataCache` a caller can always call again, in `Discovery` a
PEP can always fetch, and their runs do.

## Proofs

Every theorem holds for all values of its module's constants that satisfy the
named assumptions; TLC evaluates those in the runs.

### FetchMetadata

`MetadataCacheProofs`, for any callers, claims, headers, clock and word width,
from `CacheAssumption` and `NoneAssumption` (types of the constants; nil differs
from a caller, an error and a result):

* `TypeCorrect`, `MixUpProtection`, `FetchedNotOlder`, `RegressNeedsOverlap`,
  `StoredLifetime` and `ImplementsMetadataService`.
* The invariant `IInv` is inductive; none of the four safety properties is.
  `NoForeignDocument` needs to know that a response past `Accept` is without
  fault (`ResponseInHand`, part of `TypeOK`). `RegressOnlyUnderOverlap` needs
  `ResponseNotOlder`: what a call is about to store is no older than its own
  snapshot, because the PDP was asked later; this needs `NotAheadOfPDP`. The
  refinement needs `ResultWhenIdle`: the abstract "running" is `pc # "idle"`.
* `StoredLifetime` rests on `LifetimeOfHeader`, what `TTL` makes of any sequence
  of directives: the first `max-age` decides, and the wrapped product equals the
  plain one when it is in range.
* Refinement: `Call` is `Begin`, `Miss` is `Ask`, `Hit` is `ServeCached`, `Store` is
  `ServeFetched`, `TransportError` and `Reject` are `Fail`, `Tick` is `Pass`,
  and every other step is `Forget` or a stutter.

### The retrying doer

`RetryDoerProofs`, for any `MaxAttempts`, backoff and statuses, from
`RetryAssumption`:

* `DoerTypeCorrect`, `DoReturnsLastAnswer`, `DoRetriesOnlyTransient`,
  `DoCarriesBody`. The strengthening: the loop variable is one more than the number
  of answers (`LoopCounts`), all of them were transient and the two memories hold
  the last one (`Remembers`), and the body is whole when an attempt may be sent
  (`BodyInHand`).
* `DoBackoffGrows`. The code doubles, wraps, and compares with the cap only then.
  Were some doubling past the cap unnoticed, take the first (`NotPassedYet`): the
  one before is within the cap, or is the base, so this one is not wrapped and is
  noticed. Powers of two are sizes of power sets (`PowerOfTwo`, `PowerDoubles`),
  and the first one exists because "less than" is well-founded (`LeastNumber`);
  neither needs an induction. The proof is what showed that the base, and not
  only the cap, has to be doubled without wrapping.

### The handler

`PdpHandlerProofs`, for any number of concurrent requests, any IDs and any list of
options, from `HandlerAssumption` (a chain is a sequence of layers) and
`NilAssumption` (nil is no ID, verdict or response): `HandlerTypeCorrect`,
`HandlerHooksSeeTheWire`, `HandlerEchoIsOwnID`, `HandlerStatusTells`. The strengthening:

* `NoTraceYet`: until a response is written its request has no verdict and nothing
  on the wire; `ArrivedAndWritten`: from then on the recorders hold the wire's status.
* `HeaderSoFar`: the header is the request's ID exactly if one of the layers
  entered so far echoes; `Inside`: the Decider is called inside all of them.
* `Events`: a hook was called by a layer its request has left, with what the
  recorders hold (`CallsAreTrue`), once (`CallsAreSingle`), and no observer
  left so far has missed its call (`NoCallIsMissed`). `HooksSeeTheWire`
  counts calls, and `AtMostOneCall` turns the last two into a cardinality.
* `AllFit`: verdict and response are as the status table has it, also after the
  request has left; `StatusTellsWhatHappened` is this for the served ones.

### One Evaluate

`EvaluateExchangeProofs`, for any number of attempts and any list of options, from
`ExchangeAssumption` (at least one attempt, a chain of layers) and
`AbsenceAssumption` (nil is no value of what may be absent):
`ExchangeTypeCorrect`, `ExchangePermitIsReal`, `ExchangeVerdictReachesPEP` and
`ExchangeImplementsAccessDecision`.

* `DoerProofs` and `PdpProofs` are the two proof modules above, instantiated as
  `EvaluateExchange` instantiates the components. Their assumptions are proved
  from the exchange's (`DoerAssumptions`, `PdpAssumptions`), the exchange's steps
  shown to be steps of theirs (`DoerSteps`, `PdpSteps`), and with that their
  invariants kept (`DoerKeeps`, `PdpKeeps`).
* The invariant adds what relates the two: where the call is and what it has sent
  (`Stages`); a 2xx body that says a decision is the PDP's own for that attempt
  (`Genuine`); the PDP has seen no attempt that was not sent (`Unsent`); a verdict
  is on the wire as soon as there is one (`Shown`), which is why a late or a lost
  answer cannot differ from it; what the call returned is a failure or the
  judgement of its last answer (`Ended`).
* Refinement: a `Validate` that refuses is `Refuse`; the Decider's verdict or panic
  on attempt `k` is `Decide(k)`; a 2xx with JSON that has no decision, the PDP's or a
  gateway's, is `Silence`; returning a permit is `Permit`, because an attempt's
  verdict said so, returning a deny is `Deny`, because one did or the answer was
  silent, and returning an error is `Fail`; every other step, retries and late
  deliveries among them, is a stutter.

### A PDP process and discovery

`PdpProcessProofs` and `DiscoveryProofs`, for any deployments, clients, flags,
request shapes and number of starts, from `ProcessAssumption` and
`DiscoveryAssumption` (types), `NilAssumption` and `ResultsAssumption` (nil is no
document, code, error or endpoint): `DiscoveryTypeCorrect`, `DiscoveryExitIsClean`,
`DiscoveryURLsAreCalled`, `DiscoverySearchIsPinned`, `DiscoveryDocumentsAreTrue`
and `DiscoveryPlacementDecides`.

* `ProcessInv`: the two goroutines keep in step (`Goroutines`: it is the select
  alone that runs beside an open listener, and `Shutdown` was asked for); from
  the select on the document is the current process's (`Serving`); a connection
  was reset by a process that is gone (`Resets`). `ProcessInvStep` is its
  preservation, for any module that composes the process with clients.
* `PepInv`: the PEP has one call at a time (`OneCall`), its connection carries that
  call's request (`Sent`), the answer is one the process it names gives to it
  (`Answered`), and what the PEP holds is the document of the process whose number
  it has, which claims the Client's own address unless the Client is relaxed (`Held`).
* `AdvertisedIsImplemented` and `DiscoverySucceeds` are about single steps and follow
  from the invariant: both sides of each are functions of the same deployment.
  For the first, `AlikeTells` says what an answer tells of a method that takes the zero
  request for a real one: 501 exactly if the probe found it missing, but for a sentinel
  that a 400 hides. For the second, `httpHost` is compared with what its comment
  promises of a wildcard, and differs for `[::]` alone.
  `ValidSearchIsPinned` is the fact about `Validate` behind `SearchIsPinned`.

### The Todo PDPs

`TodoBatchProofs`, for any set of requests of any length, from
`BatchesAssumption` (they are requests):

* `PoliciesAgree`: `interop.Decide` and Cedar decide alike every request whose
  resource is of the action's type and that names an owner only for a todo, for
  every user, known or not. The two fixtures are compared entry by entry
  (`SameRoles`, `SameOwners`, `EveryoneHasARole`); under that condition the
  overlay never covers the principal.
* `BatchTypeCorrect`, `BatchDecidesWhatWasChecked`, `BatchAllOrNothing`,
  `BatchPdpsAgree`. They rest on `SameMerge` (on an item `Validate` accepts the
  three merges coincide) and on the invariant that every item answered by Cedar
  had decodable properties (`LoopInv`).

### Only model-checked

Every invariant, action property and refinement a passing run checks is stated by
a theorem. The liveness properties (`LocalProgress`, `CancelEnds`,
`DecisionIsLogged`, `ProcessEnds`, `FetchEnds`) are not: liveness under
fairness is out of the prover's reach. The refinement `Service!Spec` of
`MetadataService` is for its initial states and steps, as that module states no
fairness. What `NewClient` makes of a list of options is a fold, and a fact about
it for every list would be an induction over data; the theorems take the Client it
makes as it comes. The runs that expect a violation need no proof: TLC's trace is one.

## Where the code and its words differ

Five runs show a disagreement; `PROJECT.json` quotes the lines: `max-age` does not
always win, the context error is not returned when the context ends in a pause,
several loggers all fire, a `Client` over an exhausted `WithRetry` gets a read error
where `StatusError` is promised, and todo-pdp denies an admin's question about the
admin's own user entity when the request carries an `ownerID`. Met while reading,
and modelled as the code has it:

* `backoff` says "retryIndex 0 -> first retry (base)" (`client/doer.go:152`) but
  is called with `attempt - 1`, so the first pause is twice the base.
* Without `GetBody` the doc speaks of single-attempt behaviour
  (`client/doer.go:77-79`); the loop sends the drained body again. `RetryDoer`
  has `hasGetBody` free for that reason.
* A base above the cap is not capped before the first doubling. A base or a cap of
  half a Duration or more lets the doubling wrap before it is compared, and the
  pause be none: `BackoffGrowsToCap` excludes both.
* Cedar looks at the resource's type only for updates and deletes, so an editor
  or a viewer may "read" and an editor "create" a resource of any type;
  `interop.Decide` denies those (`Conventional` sets them apart). Its principal is a
  `User` whatever `subject.type` says, and a wire type spelt `Todo` is a todo.
* Properties that do not decode make Cedar's Decider fail the request and
  `interop.Decide` fall back to the fixture.
* A panicking Decider leaves no trace in any hook; `HooksSeeTheWire` has it so.
* A PEP "MUST honor" the advertised URLs over the defaults (`authzen.go:28-31`), and
  a `MetadataOption` may "override an endpoint URL" (`server/metadata.go:16-18`): it is
  a function that may write any field, though no predefined one writes a URL. The
  Client always calls the defaults. A PDP whose program overrides a URL is therefore
  called where it does not say, and one that replaces its `policy_decision_point` by
  an option makes a strict Client accept URLs at another host, which it does not call
  either. `AdvertisedWhereCalled` speaks of the URLs no option wrote, under a
  `policy_decision_point` no option wrote.
* A document can tell a PEP what is not so, and `AdvertisedIsImplemented` names all the
  ways: the process was replaced, which the Client learns only when its TTL is over,
  since `NewMetadataHandler` sends no `Cache-Control`; an option wrote the endpoint;
  a method treats the zero request of the probe otherwise than a real one; or
  it wraps the sentinel in a `ValidationError`, is not advertised, and answers 400.
* `implements` counts "even a panic recovered upstream" as implemented
  (`server/metadata.go:108-112`); nothing recovers it, and the process dies before
  it listens.
* `json.Marshal` of the document "always marshals" (`server/metadata.go:128`); not
  with `WithSignedMetadata` and a JWS in compact form, which is no JSON. The
  error is dropped, and every GET gets a 200 without a body.
* `ValidationError` comes "exclusively from the encode path" (`authzen.go:82-87`);
  the server's `decodeRequest` returns one too.
* A non-positive `WithMetadataTTL` "falls back to the one-hour default"
  (`client/metadata.go:138-139`), and likewise `WithBackoff` to its own; it leaves
  what an earlier option set. Nor are two options of one kind
  "order-insensitive" (`client/client.go:69-70`).
* "An empty / wildcard host becomes localhost so the published value is reachable"
  (`examples/todo-pdp/main.go:104-107`), but `httpHost` does so for an empty host and for
  `0.0.0.0`, not for `[::]`: a strict Client at localhost never accepts the document
  of a process that listens there and is told no URL. `DiscoverySucceeds` promises nothing
  of such a process.
* The `ErrServerClosed` arm of the select (`examples/todo-pdp/main.go:89-91`) is
  never taken: only `Shutdown` causes that error, and it comes after the select.
* `FetchMetadata` over an exhausted `WithRetry` has the same read error as
  `Evaluate`.

## Not modelled

`WithBearerToken` sets one header and keeps nothing. `evaluations_semantic` is
read by no code here, and capabilities are carried unread. The options of a document
are modelled by what they leave in it, not one by one. Of client
construction, a base URL that does not parse is refused before there is a
Client, and `WithHTTPClient` is the choice of the doer a module composes; URLs
have no query. JSON encoding, headers other than `X-Request-ID` and `Cache-Control`,
error texts and durations in hook events are abstracted to what the properties
tell apart. In `EvaluateExchange`, `Validate` is a Boolean outcome and a
response that is neither the PDP's nor a gateway's does not exist; nor does a gateway
that sends a 2xx with an explicit decision of its own, which no client could tell from
the PDP. In `PdpProcess` a connection exists from the start of its handler: what
`ReadHeaderTimeout` and the idle connections `Shutdown` closes do comes before
or after. In `Discovery` the PEP sets no deadline of its own and fetches from one
goroutine; `MetadataCache` has the others, and `EvaluateExchange` the deadlines.

## Plan

Done: every module above with its runs, and a theorem for every property of a
passing run but the five liveness properties. Next:

1. `MetadataCache` under `Discovery`: that what the cache promises of `TrustedDocs`
   is what `Discovery` assumes of its service, so that the two proofs meet.
2. The safety half of the decision log, as a theorem of `EvaluateExchange`: a status
   a logger recorded for an attempt is the one the PEP was told, if it was told one.
3. What is advertised against more than one Decider behind one address, if the
   code comes to have a way of deploying several.
4. Capabilities and `evaluations_semantic`, once code reads them.
