# A verification of the ordering system

The repository is a set of small services and the libraries they share. Two of the services
carry most of the logic: `config/`, a service registry on Redis with a gRPC front, a Kafka
consumer and a health-check worker, and `configsvc/`, a store of versioned configuration on S3
with an editor page. A third, `productservice/` behind `apigatewaysvc/`, keeps a product catalog in
DynamoDB. The libraries in `common/` and `clients/` carry the rest: rate limiters, a
circuit breaker, retries. Orders, accounts, search and inventory are stubs today.

## 1. Inventory

| part | state | operations | talks to |
|---|---|---|---|
| registry handlers (`config/handler`, `config/internal`) | none of their own | Register, Deregister, GetAllAddresses | Redis sets `service_addresses:<app>` through `config/storage` |
| address storage (`config/storage/node.go`) | the Redis sets | Add, Remove, GetAddresses, GetAddressOfAllServices | Redis; the last one with a goroutine per key |
| health-check worker (`config/worker`) | the goroutines of its rounds | tick, scan, check, remove | storage, and `GET /healthz` of every address |
| registry consumer (`config/consumer`) | group offset in Kafka, position | poll, apply, commit | Kafka topic `service_registry`, storage |
| registered services (`orderservice/main.go`) | are they up | register, serve, deregister on SIGTERM | the registry |
| bundle store (`configsvc/cmd/main.go`) | S3 objects: a template per version, values per environment | PUT bundle, GET bundle, GET render, lists, live render | S3 |
| editor page (`configsvc/ui/app.js`) | current service, version, environment, editors | select, switch, type, render, save | bundle store over HTTP |
| config client (`clients/config`) | none across calls | GetConfig, ListVersions, with retries and rate limit | bundle store over HTTP |
| circuit breaker, token buckets, Redis limiter, retry (`common/`) | counters and goroutines | Do; Allow/Accquire; DoRetry | callers' goroutines, Redis |
| product service (`productservice/`) | DynamoDB items | create, update, delete as conditional calls; search | DynamoDB |
| gateway (`apigatewaysvc/`) | none of its own | POST, PUT, DELETE, GET of products | browsers over HTTP, the product service over gRPC |

The hard behaviours, each at its line in `PROJECT.json` under `hazards`, are of six kinds:

* *several writers of one Redis set without an order*: RPCs, the consumer's redeliveries and the
  worker's removals, the last based on a scan that may be arbitrarily old;
* *crashes between two steps*: a write and its commit, a request and its reply, two S3 writes;
  the handlers make this frequent, for a Redis error makes them use a logger that
  `config/cmd/main.go:72` never sets, and the whole process dies;
* *several objects written one by one* (`configsvc`), so that requests interleave at every S3 call;
* *goroutines and channels that must end* (the scan's fan-out, the refill goroutines);
* *answers in another order than the questions* (the editor page);
* *calls repeated or late* (the AWS client's attempts on the product table, the Redis client's on the
  limiter's script), so that a request may take effect twice, or after its caller was told it failed.

What makes each part correct:

* registry: an entry leaves a set only when a request or a message names it, or when the worker has missed
  its address as often as it tries; an address that stays listed keeps being checked; dead hosts are
  eventually unlisted;
* scan: answers once, with everything it could read, and leaves no goroutine behind;
* consumer: no message passes unseen; commits advance; however often messages come again, the
  sets end as the topic says;
* bundle store: an undisturbed PUT is stored whole and an undisturbed GET answers what is stored;
* the page: what is saved is what was shown, under the name it was shown under;
* catalog: a product is never half there, changes only in what an update names, and the status a
  client gets was true at some moment of its call;
* client and libraries: bounded retries, non-negative waits, no body left open, a limit that limits, a
  breaker that opens only for cause.

## 2. Modules

Each component's module is parameterised by constants with named assumptions and holds its
state, one action per operation or failure, and its properties. `MC*` modules extend it for TLC,
`*Proofs` modules extend it for TLAPS. The three libraries of the Go directory `common/` share one proof
module, `CommonProofs`; so that it can extend all three, the names that would clash carry a prefix in two of
them (`RedisTypeOK`, `RedisInit`, `BreakerTypeOK`, `BreakerInit`, ...). Operators that stand next to a definition and vary it by
a plausible slip (`ResumeAtLatest` beside `ResumeAt`) are used to test the properties: with the
variant in place of the definition TLC must find the property violated.

**RegistryConsumer** (`config/consumer/consumer.go`). The topic partition is the sequence `log`;
`pos` is the consumer's position, `committed` the group's offset in the broker, `phase` tells
whether a commit is due. Per polled message: `Ignore` (undecodable, lines 61-71 and 91-93),
`Apply` (Redis wrote, lines 72-90), `ApplyFails` (Redis returned an error after writing or
without, lines 76-77, 85-86). `Commit` is `CommitMessage`, whose failure the code ignores, so
the committed offset may stay. `Crash` and `Restart` are a new process of the same group with
`enable.auto.commit` off. `RpcWrite` is a Register or Deregister RPC on the same keys. `handled` and
`intact` are history variables: which messages any incarnation looked at, and which addresses
were last written by an acknowledged delivery.

**ServiceRegistry** (`config/handler`, `internal`, `storage`, `worker`, `cmd`, and
`orderservice/main.go` as the client). A Redis key is a pair (prefix, application), because
the code makes two different strings out of one application: `service_addresses:<app>`, and what
`strings.CutPrefix` leaves of it; a third is a message's application name, which the consumer uses as it
stands. `Serve` is a handler down to the SADD or SREM and its reply;
`ServeFails` its error path, which dereferences the nil logger and so is `ProcessDies`.
An instance is down, registering, serving or leaving; when it dies with a request in flight the
request becomes an *orphan* that may be served late (`ServeOrphan`), fail, or be lost. Its Register
names its address, its Deregister the empty one (`RequestOf`): the client sends back
`response.AppNode` (`orderservice/main.go:74-77, 92`), which the server's `emptypb.Empty` never sets.
The consumer, which the same process runs (`cmd/main.go:83-84`), is `Poll` and `Apply`, its message in
`polled`; its offsets are left to RegistryConsumer, so here messages come in any order and any number of times.
`Tick`, `ReadKey`, `DropKey`, `Launch` are one round of the worker; `CheckPasses`, `CheckFails`, `Evict`,
`EvictFails` are a health-check goroutine, which outlives its round. `misses` is a history
variable: how many checks of an address have failed since it last had none under way.

**AddressScan** and **ScanSpec** (`GetAddressOfAllServices`). `AddressScan` has the goroutines, the
wait group's counter, the unbuffered channel and the closer; `ScanSpec` is the same call with one
thread: list, deliver or drop each key, return. `AddressScan!Scan` is the refinement mapping. The
`Tick`/`ReadKey`/`DropKey`/`Launch` steps of ServiceRegistry are the steps of ScanSpec, which is
what entitles that module to leave the goroutines out.

**BundleStore** (`configsvc/cmd/main.go`). The content of an object is the name of the PUT that
wrote it. A PUT writes the template of its version, then the values of its environments in any
order (Go's map order), one action per S3 call, each with its failure, written or not. GET render
and GET bundle read one object per action, the base first in a render only (`InOrder`); a failed read is a 404
for render's template and a default for everything else; values that do not merge or a template that does not
evaluate are a 500 (`RenderFails`). A write that the AWS client gave up or sent again may be `late`
(`MayBeLate`), and then reaches S3 at any time after, over whatever other PUTs wrote (`WriteLate`).
`solo` and `quiet` are history variables that say which PUT, and which GET, ran undisturbed.

**ConfigUI** (`configsvc/ui/app.js`). One browser thread: a handler runs to its next `await`, and the
request it leaves is a record in `net`, which the service handles in one step (`ServeLoad`,
`ServeSave`) and whose answer continues the handler (`VersionsArrive`, `BundleArrive`,
`SaveArrives`, and their failures) under whatever service and version the page names by then. The
variables are the page's own (`currentService`, `currentTemplateName`, `valuesStore`, the editors,
the selectors, the save button and its badge) beside the bucket. A text names the service and
version the page showed when it was typed, so that a text in the wrong place is recognised. `TypeValue` goes through
the input handler into `valuesStore`; a Tab key (`TabTemplate`, and for values like `FormatValue`) and the Format
button set the editor behind its back, so that editor and store differ until the next flush (`Flushed`). `calm`,
`typed` and `sent` are history variables: has no event come between a load and its answer, what was
typed for each environment, what the last save carried.

**ProductCatalog** (`apigatewaysvc`, `productservice`, and the table as `repository.go` uses it). A request
goes `BadBody`, `Unreachable` or `Forward` in the gateway; its call of the table is an attempt in `net`,
which the table handles and answers, or handles without its answer arriving (`TableHandles`). The service may
send it again (`Resend`) or give up; what it no longer waits for is counted in `late` and may reach
the table at any time after (`TableHandlesLate`), also when the client has left (`Drop`) or the service
died (`Crash`). `Boot` is `cmd/main.go`, whose HTTP server on `:8089` comes before gRPC and returns
only if the port is taken. The value a request gives to a field is the request's own name, so that whose
value a product shows can be told. Create answers with what it was asked, Update with what the table
returned, an update of nothing with an eventually consistent read, for which `past` keeps every state of a
product. `held` is a history variable: what the product was since the call began.

**CatalogSpec** is what all of that promises whoever calls the gateway: one table, and requests that take
effect on it in one step. A request turned away (`Bar`) never has an effect; one let in may take effect
once or more, even after its call is over (`Unheard`), because copies of it are late or answers lost; a success is
answered only if the effect came during the call (`Acknowledged`); a crash or a client that leaves (`Break`)
changes nothing in the table. `ProductCatalog!Catalog` is the refinement mapping: a call is open while its
attempt is at the table, acknowledged or failed by the service's answer.

**RetryTransport** (`clients/config/client.go`). One call of GetConfig or ListVersions: a loop of attempts
`Admit` or `Refuse` (limiter, lines 104-121), `Succeed` or `Fail` (network), then `GiveUp`, `RunOut` or
`BackOff` in the code's order, `Retry` or `Abandon`, the two arms of the select, and `Decode`, the caller's
part with its deferred `Close`. `body` keeps the body of every attempt, `timer` the one timer that is
reset for each wait, `ended` says that the context has ended, which may happen at any moment. The
back-off is computed in `Width` bits as the code computes it in 64, from a `Delay` that is one of
`Delays`. Calls share nothing but the limiter, which is another repository's code: it allows, refuses
or fails, so one call is enough.

**RedisRateLimiter** (`common/ratelimiter/ratelimiter_redis.go`). `Accquire` reads the clock; `LuaScript` is the script,
one step of Redis, which runs with that reading however much later, and again when its answer was lost
(`Answer`); `Fail` is an error in the end. The sorted set's members are their own scores, so the set is a set
of times; `expires` is the key's. `admitted` and `orderly` are history variables: the times let in, and
whether scripts came in the order of their clocks and within the key's second of grace.

**CircuitBreaker** (`common/circuitbreaker/circuitbreaker.go`). `Do` looks up the resource's breaker, but counts on the
breaker it was called on, as the code does. `isOpen` holds no lock, so it is three steps: the state (`Do`),
the errors (`CountErrors`), the calls (`Trip` or `LetThrough`); `Count` is the locked part. `Age` lets the
oldest error leave the window. The limit is a quotient of errors and calls: the code divides and multiplies in
`float32`, which rounds but never reverses an order, so for every percentage there is a greatest quotient that does
not exceed it. At the default 50 % it is 1/2; at 30 % it is less than 3/10, for `float32(3)/float32(10)*100`
is 30.000002 and the code opens on exactly 3 errors of 10. `Do` reads the map of breakers without the lock under
which `Register` writes it, which Go may answer by ending the process (`RaceEnds`). An open breaker lets every call through and never closes, and
`requestVolumne` and `sleepTime` are nowhere read: the model has it so. `high` is a history variable.

**RateLimiter2** (`common/ratelimiter/ratelimiter2.go`). Callers of `Accquire` (`Lock`, `Take`, `Wait`) and of
`Accquire2` (`Receive`, `Received`), `refill` with its timer, and `refill2`, which reads the channel's
length once (`BeginRefill2`) and then sends one token at a time (`Send`) while callers receive.

## 3. What the runs check

| run | instance | shows |
|---|---|---|
| `registry_consumer` | 2 keys (1 also written by RPCs), 1 address, 3 messages, 2 crashes | `NothingSkipped`, `CommitsAdvance`, `ReplayConverges`, and under fairness `EveryMessageHandled` |
| `service_registry` | 2 applications at 1 address, 2 attempts, 3 messages, 1 orphan | `RemovedForCause`, and while the rounds go on `ListedAreChecked` |
| `service_registry_dead` | 1 application, 1 address, 3 attempts | violation of `DeadAreRemoved` |
| `address_scan` | 3 keys, 2 contents | `ChannelSafe`, `AnswerWhole`, `ImplementsScan` (with it, that the call returns) |
| `bundle_store` | 2 versions, 2 environments, 2 PUTs, 1 GET, 1 late write | `AckedIsWhole`, `TemplateBeforeValues`, `AnswerIsCurrent` |
| `bundle_store_versions` | same | violation of `VersionIsFixed` |
| `config_ui` | 2 services, 2 versions, 2 environments, 2 requests in flight, 4 events | `StoredUnderOwnName`, `EnvTextsKept`, `SavedIsStored` |
| `product_catalog` | 2 requests, 1 product there or not, 1 text and 1 list field, 2 attempts | `WholeProducts`, `AnswersTrue`, `OnlyNamedFieldsChange`, `ImplementsCatalog` |
| `retry_transport` | 3 retries, first waits of 1 and 4, cap 3, 5-bit durations | `BodiesSettled`, `EndStops`, `Exponential`, `CallsReturn` |
| `redis_rate_limiter` | 2 callers, limit 2, window 3, grace 2, 12 ticks | `WindowBounded`, `RefusalsExplained` |
| `circuit_breaker` | 2 callers, 1 resource, 2 breakers, limit 1/2 (50 %), 3 calls each | `TripsJustified` |
| `rate_limiter2` | 4 goroutines, capacity 2 | `NoLostWakeup`, `GrantsBounded`, `BurstBounded`, `ReceiversServed` |

Every passing run also checks its module's type invariant (`TypeOK`, `RedisTypeOK`, `BreakerTypeOK`).

Why the bounds are enough: three messages about one key are what it takes to redeliver an old
registration after a newer deregistration with a third message behind them, two crashes to redeliver
twice from different offsets; two applications and one address are what address reuse needs, two
failed attempts are enough to overlap rounds (the violation run uses the code's three), and the messages
list and unlist an address at a service's key and list it at the one key the worker evicts from; three
keys are a sender, a reader and a goroutine not yet started at once; two PUTs and one GET are the
pairwise interleavings of every S3 call, and one late write meets each of them; four events are
a service, a text, a switch and a save, or any other four, and two requests in flight are a load or save overtaken by another;
two requests on a product that may be there already are every pair of create, update and delete on a present or
absent product, and two attempts are what it takes to have one late; two retries past the first wait are
what it takes to reset the timer, and of the two delays one fits its 5 bits in every wait and the other
wraps in the third; a limit of two in a window of three lets a set be full of stale and of fresh
members, a grace of two is the least that tells a key that expires with its window from one that outlives
late scripts, and twelve ticks are two windows with grace and a start; two callers on two breakers
read while the other counts; four goroutines on two tokens leave two asleep when one
is signalled and a third comes between. What the proofs cover holds for all values.

The two violations are disagreements between the code and what its own texts say:

1. *The worker evicts nothing.* `worker.go:17-18` says it removes services that could not
   deregister. `node.go:62` cuts `service_addresses` off the key and `worker.go:58` calls `Remove`
   with the rest, `:<app>`, a key no service is listed under. The address stays. (With `CutPrefix` mapped to the
   whole key, `DeadAreRemoved` holds in the same instance, and `RemovedForCause` and `ListedAreChecked` hold
   as they do now: they do not depend on the bug.)
2. *Versions share their values.* `config/README.md:3` promises a choice of version; the values'
   key has no version (`main.go:218`), so a PUT to `v2` changes what `v1` renders.

Behaviours the code has and no run singles out:

* A Deregister unlists nobody: it names the empty address (`RequestOf`), so an instance that leaves stays
  listed like one that dies.
* The worker asks `http://<address>/healthz`, which is port 80; the order service listens on 8081, and the
  `HealthCheckEndpoint` it registers with is read by nobody.
* A message may name any key, with the prefix or without, and register or deregister any address there.
* The back-off wraps: `int64(Delay) * (1 << i)` (`client.go:148`) overflows, and the cap does not catch
  what became negative. With the default 500 ms the 36th wait makes `rand.Int64N` panic; the default
  of three retries is far from it. `Exponential` claims the bound for what fits the word (`Fits`), and in the
  run's third wait with the longer delay the model takes the panicking path.
* An open circuit breaker stops nothing, and one failed call may open it whatever its volume, although the comment
  at `circuitbreaker.go:29` says that the breaker only works above `requestVolumne`.
* `WindowBounded` speaks of runs whose scripts came in the order of their clocks (`orderly`). After one that did
  not it claims nothing, and the window may hold more than the limit.
* The product service serves gRPC only if port 8089 is taken, by `configsvc` for example.

Deadlock is checked in `rate_limiter2`, whose ticker never stops. It is not in the others: PUTs, GETs and
catalog requests are finitely many, a scan is one call, the topic's bound ends production, the registry's
instances may all be down, the page's events are bounded, a call of the client ends, and the Redis
limiter's clock and the breakers' counts have a bound.

## 4. Fairness

* RegistryConsumer: weak fairness of handling the next message (whichever way), of committing and
  of restarting: the poll loop runs by itself, and the pod is restarted. Crashes are bounded.
* ServiceRegistry: `RoundFairness` is weak fairness of `Tick` and `Launch` (the ticker keeps firing while the process
  is up, and a round launches its checks) and strong fairness of `ReadKey`: a key's SMEMBERS may fail any number of
  times, but not for ever. `FairSpec`, for the violation only, adds the most the worker could hope for: the process
  is restarted, requests are served, checks make progress, and each eviction eventually succeeds if tried
  for ever. The violation holds in spite of it.
* AddressScan: weak fairness of the caller, of every goroutine and of the closer: the Go scheduler is
  fair, and go-redis has read timeouts, so SMEMBERS ends.
* RetryTransport: weak fairness of the call's own steps and of its timer: goroutines run, timers fire,
  and a request in the network is answered or ends by the client's `Timeout` (`client.go:71`). Nothing is
  assumed of the context.
* RateLimiter2: weak fairness of the timer, the ticker, the refill goroutines and of whoever is at the lock
  (a Go mutex prevents starvation). Strong fairness of `Received`, because receivers blocked on a Go
  channel queue in order, so none is passed over for ever. Callers need not call.
* BundleStore, ConfigUI, ProductCatalog, RedisRateLimiter and CircuitBreaker state safety only: a save button
  need never be pressed, an answer need never come, a breaker never closes.

## 5. What is proved

For all values of the constants under the named assumptions (`tlapm` checks every leaf):

* `RegistryConsumerProofs`: `TypeCorrect`, `NeverSkips`, `CommitsOnlyAdvance`, `Converges`. `NothingSkipped`
  is not inductive: the invariant `PositionOK` adds that the position lies between the committed offset
  and what is handled. `ReplayConverges` needs `IntactExplained`, which relates each intact address to the
  latest message up to the position that speaks of it, also while the consumer replays.
* `ServiceRegistryProofs`: `TypeCorrect`, `RemovalsHaveCauses`. `RemovedForCause` needs the invariant `Counted`: a check
  has failed no more often than the history counted for its address, because that count starts anew only when
  no check of the address is left. No proof looks into `CutPrefix` beyond its type, so they hold for the
  repaired worker as well.
* `AddressScanProofs`: `TypeCorrect`, `ChannelIsSafe`, `AnswerIsWhole`, `ImplementsSafety`. `Control` ties the caller's,
  goroutines' and closer's control points together; `Live` says that the wait group's counter is the
  number of keys not yet done; `Answered` that the result holds exactly the keys past their send. The
  step of the refinement is shown action by action; its liveness half stays with TLC.
* `BundleStoreProofs`: `TypeCorrect`, `AckedStaysWhole`, `TemplateComesFirst`, from `Alone` (an undisturbed PUT
  is the only writer), `Fresh` (a PUT not begun owns nothing), `Kept` (what it has written is there) and `Behind`
  (its late values come after its template);
  and `AnswersAreCurrent`, from `GetInv`: what an undisturbed GET has fetched so far is what the store
  holds, and what it still has to fetch is all the rest it needs.
* `ConfigUIProofs`: `TypeCorrect`, `TextsKept`, `BadgeTrue`, `OwnNames`. `TypeOK` needs `NetNamed` (requests in flight
  carry the names their handlers need). `BadgeTrue` follows from `SaveInv`: while the last save is in flight it is the
  only one and the badge is hidden; what it carries is stored from when it is served, and stays. `OwnNames`
  follows from `OwnInv`, four conjuncts that hold while `calm`: the bucket's texts are in their place,
  the load in flight asks for what the page names, what requests carry is for their own names, and an
  enabled page without a load shows texts of the service and version it names.
* `ProductCatalogProofs`: `TypeCorrect`, `AnswersAreTrue`, `ProductsAreWhole`, `OnlyNamedFields`, `CatalogImplemented`. The invariant adds
  `Current` (what is there now is among what every call under way has seen), `Shows` (and among the past a
  replica may show), `Claims` (an answer not yet replied is already true) and `Phases` (no answer before the
  table's, no reply before the answer, and a success only for an answer that was one). `OutcomeFacts`
  says once what the table makes of a request, `WhoStores` which steps change it. `CatalogImplemented` is the refinement of
  `CatalogSpec`, action by action; it needs `Tried` (only a call let in is tried, and only what was tried comes late) and
  `OutcomeIsEffect` (what is answered with success is an effect, everything else changes nothing).
* `RetryTransportProofs`: `TypeCorrect`, `NoLeak`, `StopsAfterEnd`, `WaitsAreExponential`, `NoPanic`. The first three rest on an
  invariant that ties the body of the current attempt, the history of late sends and the result to
  the control point. The back-off needs facts about powers of two, which the provers do not know: `Powers` and
  `PowersGrow` take 2^n as the number of subsets of 1..n, whose size the library gives. `WrapType` and
  `WrapFits` say what truncation to a width does, and `ExponentialStep` that a wait whose product fits is
  the power of two times the delay, under the cap. `NoPanic` is what a user of the client wants to know: options whose
  longest wait fits the word never reach the panic in the jitter.
* `CommonProofs`, the limiter with a condition variable: `TypeCorrect`, `NobodySleepsBesideAToken`, `GrantsAreBounded`,
  `BurstsAreBounded`. `SleepInv` strengthens `NoLostWakeup` with the fact that only the last token of `refill` can find
  sleepers, so that one `Signal` is enough. `BurstsAreBounded` also shows that `refill2` never blocks on a full channel.
* `CommonProofs`, the circuit breaker: `BreakerTypeCorrect`, `TripsAreJustified`. `Holds` says that whoever is between two
  reads has a registered breaker; `Justified` that a rate which exceeds now exceeded when the errors were counted,
  because calls only grow (`ExceedsFalls`, by cross-multiplication). The theorem holds for every limit quotient, hence
  for every percentage as the code's rounding compares it.
* `CommonProofs`, the limiter in Redis: `RedisTypeCorrect`, `WindowsAreBounded`, `RefusalsAreExplained`. `Lifetime` says that the key
  outlives each admission by window and grace; `Kept` that whatever is no longer in the set lies a window
  before some later admission, whether it was purged or the key expired under it; `Young` that the key does not
  outlive its oldest member by more than twice that. `AdmitFacts` says what one admission does: the window that ends at
  the new time is contained in the set, and the set has at most `Volume` members.

Only model-checked: everything under fairness (`EveryMessageHandled`, `ListedAreChecked`, `CallsReturn`,
`ReceiversServed`, the fairness half of `ImplementsScan`), which these provers do not reach, and the two violations. Every other
property of a run is a theorem.

## 6. Abstractions

* Serving a request and replying is one step; a lost reply is the orphan of a dead sender.
* Identical health-check goroutines (same key, address and failures so far) are one; equal orphans are one.
  What they do is idempotent, so this loses counts and no behaviour.
* Applications, addresses, keys, versions, environments and contents are model values. Content is never
  the empty string, which the config service treats like an absent object.
* `GetAllAddresses`, the service and version lists and the live render change no state.
* A health check may pass at an address while an instance there is registered and has not left, and may fail at
  any time: that covers a service that listens on another port than the one asked, and one that does.
* ServiceRegistry takes the consumer's messages from a set, in any order and as often as it likes; what offsets and
  commits add is RegistryConsumer's. Requests whose sender is gone are at most `MaxOrphans` at a time. At each
  address runs one instance at a time.
* The vendored client stub of `orderservice` names another gRPC method path than the server; the model
  takes them to be the same service, which is what both sides intend.
* ConfigUI: the service handles a request in one step, BundleStore has its steps; a request answered with an
  error was handled or never will be. What Tab and Format make of a text is a new text, like any typed one. Texts are unique per event and never empty (an editor emptied by hand
  would come back as `{ }`). `StoredUnderOwnName` is stated for a user who waits for loads, because the page has
  no guard otherwise: answers that overtake each other, a click between a service's name and its
  versions, and a failed list of versions all put one service's texts under another's name.
  Also outside the properties: a failed load shows a blank page whose Save overwrites what is stored;
  the timer of `app.js:314` clears a later badge; New Service accepts a name that exists.
* RetryTransport: the limiter lives in another repository and may allow, refuse or fail at any time;
  the jitter is left open. Answers below 500 leave their body to the caller, which closes it in `Decode`.
* ProductCatalog: one product field stands for all of its kind (always stored, or stored when not empty). An
  empty sku or category, which the table's index refuses, is one of the ways the table fails a request. The
  gateway answers 500 whatever went wrong behind it, as the code does; its README's roadmap lists
  finer codes as future work. Failures to encode an answer are left out.
* RedisRateLimiter: callers and Redis share one clock in milliseconds; a reading may be used late.
* CircuitBreaker: the slice of errors is read in one step, although nothing keeps another goroutine from
  appending to it meanwhile; a slice header or a string read half old, half new is not modelled. Counts are
  exact: beyond 2^24 the conversion to `float32` rounds the counts themselves, and the order of quotients is
  no longer kept.
* RateLimiter2: a critical section is one step. With the code's timer, whoever calls `Accquire` after the capacity and one
  more token are gone sleeps for ever; `GrantsBounded` states the bound, no property hides it.
* S3 is one store in which a write is visible at once (S3 is strongly consistent); at most `MaxLate` writes are late
  at a time, and PUT's retries are covered by its one step and what may come late of it. Redis is one server.

## 7. Plan

Done: RegistryConsumer, ServiceRegistry, ScanSpec and AddressScan, BundleStore, ConfigUI, RetryTransport,
RateLimiter2, ProductCatalog and CatalogSpec, RedisRateLimiter and CircuitBreaker, each with its runs and its proofs.
Left, in this order:

1. `ConfigUI` composed with `BundleStore`'s steps, so that a save is seen half written by another page.
2. `SearchProducts` with its page tokens, once the repository says which index it reads.
3. `TokenBucket` (`ratelimiter.go`), once something uses it or says what it promises: today it refills
   once, closes its channel, and allows everything ever after.

## 8. Not modelled

Orders (the handlers answer a constant and the repository panics), accounts, search, inventory and the
controller are stubs. The product search changes no state, and the schema of the index it reads is not in
the repository. The token bucket has no user and no promise to check (section 7); `common/retry` is a
sequential loop nobody calls. Logging and monitoring have no state; deployment files are configuration. Jsonnet
evaluation, Redis, Kafka, S3, DynamoDB and gRPC are external and appear by what the code relies on.
