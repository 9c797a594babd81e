# Verification of eduSeal

eduSeal seals PDF documents with a key in a hardware security module. A client
posts a PDF to a gateway and gets a transaction id; a sealer seals the PDF some
time later; the client fetches the result under the transaction id. Between the
gateway and the sealers there are two JetStream streams, and between the answer
and the client there is a key-value store in which a document lives for ten
seconds. Around it are the http server with its middlewares, the validators, the
probes and the start of it all. This directory holds TLA+ models of them, TLC
runs that check the models on small instances, and TLAPS proofs for every instance.

## The system

| Component | Source | State | Operations |
|---|---|---|---|
| Sign handler | `internal/apigw/apiv1/handlers_eduseal.go` | the call in flight | `PDFSign`: reject an empty PDF, publish, count, reply |
| SEAL stream | `internal/apigw/stream/seal_stream.go` | stored and leased messages, message ids | `Publish` with two seconds of patience |
| Sealer | `src/eduseal/sealer/run.py` | the message at hand, the PKCS#11 session | start, fetch one, `in_progress`, `Seal`, publish to CACHE, `ack` |
| CACHE stream and consumer | `internal/apigw/stream/cache_stream.go` | stream, fetched-ahead buffer, callback | `Consume`: unmarshal, `SaveSigned`, `Nak`, `Ack` |
| Document store | `pkg/kvclient/doc_methods.go` | one hash and a time to live per transaction | `SaveSigned` (HSET, EXPIRE), `GetSigned` (HGETALL), `DelSigned`, `ExistsSigned` |
| Fetch handler | `handlers_eduseal.go` | the call in flight | `PDFGetSigned`: read, count, reply |
| Metrics | `pkg/kvclient/metrics.go`, `handlers_misc.go` | three counters | `Inc`, `Get`, `Metrics` |
| Health | `stream/service.go`, `kvclient/client.go`, `db/service.go`, `pkg/model/status.go` | a probe store per service | periodic `probe`, `Health` |
| NATS connection | `stream/service.go` | connected, reconnecting, closed | `connect`, reconnect, give up, `Close` |
| Revocation | `internal/apigw/db`, `handlers_eduseal.go` | documents in Mongo | `PDFRevoke`, `Revoke`, `IsRevoked`, `Save` without a caller |
| Validation | `handlers_eduseal.go`, `pkg/grpcclient/validator.go`, `src/eduseal/validator/run.py` | calls that wait, calls at work | `PDFValidate`, `Validate` |
| JWT middleware | `httpserver/middleware.go` | a key set for each request | download keys, decide on a token |
| Start and shutdown | `cmd/apigw/main.go` | the map of services | `New` of each, `Close` of each |
| HTTP server | `internal/apigw/httpserver`, `pkg/helpers/error.go` | the chain of handlers of each request and where it is | middlewares, recover, binding, endpoints, rendering |
| Configuration | `pkg/configuration`, `pkg/model/config.go`, `pkg/helpers/validate.go` | what was read at the start | `Parse`, `Check` |

How they interact: the sign handler publishes to SEAL and increments a counter;
a sealer pulls from SEAL, publishes to CACHE and acknowledges; the consumer of
the gateway is called back with what CACHE has, saves it and acknowledges; the
fetch handler reads the store and increments a counter. Nothing else connects
them: no lock is shared, and every hand-over is a message. Each handler is called
by the http server at the end of a chain: request id, log, recover, for documents
the check of the token, then the endpoint, which binds the request, calls the api
and renders what it returns.

What is hard, and why tests hardly reach it:

- **Two non-atomic steps everywhere.** Publish and count, publish and ack, HSET
  and EXPIRE, save and ack, read and count. A crash, a lost message or a failing
  command can separate each pair.
- **At-least-once delivery.** Each stream delivers again after 30 seconds
  without an acknowledgement; duplicates are filtered by message id for two
  minutes only.
- **Processes that outlive their lease.** `in_progress` is sent once, before
  sealing; the client library fetches messages ahead, so their lease runs while
  they wait in the buffer.
- **Exceptions.** No handler of the sealer catches one; it ends the process and
  docker starts it again, and the message that caused it comes back.
- **Time.** A document lives ten seconds after it was saved, and a redelivered
  message saves it again.
- **A chain that is ended by convention.** Who renders a refusal must also abort
  and return, and who recovers from a panic as well; nothing enforces it. The keys
  a token is checked against are downloaded while the request waits.

`PROJECT.json` lists these hazards line by line with the properties that
would notice.

## The modules

| Module | Models | Correspondence |
|---|---|---|
| `Faults` | the failures of the environment | `Faults` selects the kinds, `MaxFaults` bounds how many happen |
| `WorkQueue` | a work-queue stream with one durable consumer | operators on a record `[msgs, leased, ids]`; delivery leases, `Nak` and the end of AckWait release, `Ack` removes |
| `SealRequests` | `PDFSign`, `sealStream.Publish`, the signing counter | `signpc[t]` is where the call named `t` is: a statement of the handler that can block or fail, and a step after it |
| `DocStore` | the commands of `doc_methods.go` | `doc` is what HGETALL reads, `expiring` the keys that have a time to live |
| `CacheStream` | `cacheStream.Consume` with `SaveSigned` | `inbox[g]` is the buffer the library fetches ahead into, `cstep[g]` and `cmsg[g]` the callback |
| `Sealer` | `QueueServer4` and `Seal` | `spc[s]`: down, idle, before `Seal`, before the publish, before the `ack` |
| `DocFetch` | `PDFGetSigned` | `getpc[c]`: before the read, before the counter, replied |
| `EduSeal` | all of it together, the properties, fairness | each `Of...` lifts the steps of one part; a crash of a gateway hits its calls, its consumer and its fetches at once |
| `SealService` | what clients are promised | accept, decide, show, hide |
| `Redelivery` | how often the streams hand out the work of a transaction | `handed[t]`, `delivered[t]`: the deliveries of the request and of its answers, counted beside the steps of `EduSeal` |
| `EduSealInv` | the inductive invariants | checked by TLC before they are proved |
| `EduSeal_proofs`, `Custody_proofs`, `Leases_proofs`, `Service_proofs` | the theorems | |
| `HealthProbe` | both `probe` goroutines, `Status`, `Health`, `Check`, the encoding of the reply | `ppc[d]`: where the probe of a service is between its writes; `hpc[c]`: the next read of a call; `published`: the object behind `PreviousResult`; `held`, `old`: the pointers and the objects a call goes on reading |
| `HealthProbe_proofs` | its theorems | |
| `Lifecycle` | `main`, `New` and `Close` of its services, the NATS connection, the start of the sealers | `gpc[g]`: the next service `main` opens or the next thing it has the server create; `created`: the streams and durable consumers; `conn[g]`: the state of the client library; `consumer[g]`: the goroutine of `newCacheStream` |
| `Lifecycle_proofs` | its theorems | |
| `Configuration` | `Parse`, `Check`, the tags of `model.Cfg` | `Parse(file)` is the configurations that can come of a file, one or none |
| `GinChain` | `Context.Next` and `Abort`, `middlewareCrash`, `renderContent` | `handlers[r]`, `index[r]`: those of the context; `at[r]`: whether a handler runs; `deferred[r]`: the recover on the stack; `replies[r]`: all that was rendered |
| `JWTAuth` | `middlewareJWTAuth` and the key provider | `jpc[r]`: the question it comes to next; `keys[r]`: the key set of this request; `entry[r]`: its loop; `jwks`: what the provider publishes |
| `HttpServer` | routes, `regEndpoint`, the endpoints, binding, `NewErrorFromError`, `PDFRevoke`, the check of `PDFGetSigned` | `epc[r]`: binding, calling, reading the store; `bound[r]`: the transaction id bound so far |
| `HttpServer_proofs` | its theorems | |
| `MCHttpServer` | its instance | the requests TLC tries |
| `Validators` | the validator servers: accept, thread pool, crash | `waiting[v]` is what the executor has queued, `running[v]` what its threads do |
| `Metrics` | `PDFValidate`; counting in all three handlers; the handler `Metrics` | `cpc[c]`: working, at a validator, before the INCR, before the reply; `rpc[r]`: the counter read next |
| `Metrics_proofs` | its theorems | |
| `MCEduSeal`, `MCRedelivery` | the instances | model values and symmetry; all bounds are in the `.cfg` files |

    Faults   WorkQueue
        \     /
      SealRequests -- DocStore -- CacheStream -- Sealer --.
                          \                                EduSeal -- EduSealInv -- *_proofs
                           `----- DocFetch --------------'       \        \
                                                                  \        Redelivery -- MCRedelivery
                                                                  MCEduSeal
    HealthProbe -- HealthProbe_proofs
    Lifecycle -- Lifecycle_proofs
    Validators -- Metrics -- Metrics_proofs
    GinChain --.
    Configuration -- JWTAuth -- HttpServer -- HttpServer_proofs
                                     \
                                      MCHttpServer

Decisions a reader of both texts should know:

- A call of `PDFSign` is named by the id `uuid.NewString()` gives it, so `Tx`
  names calls, ids and messages alike. The id exists only from the publish on,
  but no step before it depends on it.
- What a client sends is one of five kinds. `malformed` (not base64) and `fatal`
  (a PDF whose signature field is filled already) both end the sealer;
  `rejected` (unreadable, encrypted) is answered with an error. A sealer without
  a PKCS#11 session raises on `malformed` only: for everything else the missing
  attribute is caught and answered. A request that
  is malformed is not rejected by the gateway: `bindV2` runs no validator.
- A publish is two steps, `wire` between them: the handler may give up before
  the server stores the message, and the message is stored all the same.
- The pipeline has the signing counter, whose calls it follows from the client
  to the store; `Metrics` has all three, with the work of signing and fetching as
  one step that succeeds or fails.
- `inbox` is a set. The library keeps the messages in order; nothing in the
  properties depends on the order, and a set allows every one.
- The handlers run under the context of the program, not of the request
  (`regEndpoint`), so that a client that goes away cancels nothing. There is
  no action for it.
- `Nak` (`cache_stream.go:119`) is not followed by a return, and `Ack`
  comes next. The library marks a message as answered once a `Nak` was sent
  and refuses the `Ack`; if sending the `Nak` failed and the `Ack` then
  succeeds, the message is gone though it was not saved. The fault `nak` is that
  case, and `NoLostRequest` is stated for systems without it.
- An acknowledgement is handled by the server at the moment it is sent, or
  never (`AckSealLost`, `AckCacheLost`). One that arrives late is a lease that
  ended too early, the fault `overrun`.
- Two gateways are more than the one `docker-compose.yaml` starts: the two
  stand for the old and the new process of a restart as well, which the server
  treats as two clients of one durable consumer.
- `cached` and `answers` are history variables: the steps that save and publish set
  them, and only properties read them. `handed` and `delivered` are, too, in a module
  of their own (`Redelivery`), which adds to each step of the pipeline the conjunct
  that sets them; what is proved of the pipeline holds in it, too (the lemma
  `RedeliveryIsPipeline`). A delivery is a lease that begins, whichever action begins it.

- A probe (`HealthProbe`) is one allocation, published at once, and two writes in
  place. No lock orders them with the reads of `Health`, so every read is a step;
  a string is two words, and one read in the middle of its write is any text
  (`garbled`). The pointer itself is one word. Objects are named from the side of
  the call that holds them: the published one, which the probe may still write,
  or an old one, which nobody writes.
- The three names `fresh`, `settled` and `steady` of `HealthProbe` are history: they say
  what "has lasted for a whole probe" means.

- `Lifecycle`: streams and durable consumers are on the disks of the servers, and
  nothing deletes them. A configuration is valid only with Mongo disabled (the tag
  `required` on a boolean), so that `OpenDb` opens nothing and `CloseDb` always
  panics. `nats.Connect` fails for no server that is away (`RetryOnFailedConnect`).
  The ten attempts to reconnect are one step, `GiveUp`, at any time while the
  servers are away. A server may have created what a gateway asked for although
  the gateway never hears of it (`ServerCreates`).
- A sealer that subscribes before there is a stream raises and is started
  again; one that subscribes before there is a consumer makes it. Its
  client reconnects without a limit; but an outage may cost it the pull it waits
  on (`Outage`, `Forgets`): the server forgets it, the sealer does not ask again,
  and serves nobody although it is up and connected (`deaf`). Only the timeout of the
  fetch ends that, which is a year (`FetchTimesOut`, `run.py:229`).
- `Metrics`: a call of a validator ends with its connection. There is no
  deadline, and a host that vanishes without a word holds its calls for ever; the
  model assumes that it does not. A call may fail to connect at any time
  (`WorkFails`), which includes that no validator is there, and the panic of the
  deferred `Close` of no connection, which the middleware turns into an error.
- The verdict of a validator, one of its four errors included, is a reply like
  any other and counted as a validation. What `Validate` does not catch (it looks
  for signatures outside of its `try`) is an error of the call and is not counted.
- A gateway that crashes forgets its calls; the validators do not hear of it in
  time and work to the end.

- `GinChain`: all calls of `Next` share one index, and a handler that returns goes
  back into the loop of the innermost open call. So "call `Next`" and "return" are
  one step, the next handler, and only `Abort` ends a chain early.
- A panic returns to `middlewareCrash`, which renders a 500 and returns, without
  `Abort`: gin goes on with the handler after the one that panicked. After a panic
  of the token check that is the endpoint; it renders a second body, or panics
  itself, and then there is no recover left. `Panic` does what the code does, and
  `GuardedHandlers` and `AnsweredOnce` name the case; a `c.Abort()` in the recover
  would make both hold without it.
- `JWTAuth`: signature, expiry and algorithm are one value of a token, the key it is
  valid under. `keyfunc.Get` downloads the key set for every request, and once more
  for a key it does not know (`Refreshed`); the provider may change or withdraw its
  keys before each step. Every refusal has the same status and title, and the
  nine of them are those of five questions.
- Binding: `bindRequest` binds body, query and path in this order into the same
  struct and drops the errors of all but the last; `bindRequestQuery` fills only
  fields that are maps, and the requests have none. The errors of `bindV2` are those
  of sonic, which are its own or those of `encoding/json`, depending on how it is built
  (`DecodeErrors`). What the api itself does is in the other modules; `HttpServer`
  has what it may return.
- `Configuration`: the validator takes `false` for a missing value where the tag says
  `required`, so that `Mongo.Disable` is true in every configuration `Parse` returns.
  `PDFRevoke` and `PDFGetSigned` ask for it all the same, as the code does; what Mongo
  would answer is left open (`RevokeResults`, `Revoked`), and no property speaks of it,
  since none could be about more than a configuration nobody can have. An `exporter` is
  what the tracer `Check` starts with needs; without one it fails before it validates.

External are the JetStream server, the redict server and docker; their parts
are modelled from the configuration the code gives them (`WorkQueuePolicy`,
`AckExplicit`, `Duplicates`, `restart: always`) and marked as external in
`PROJECT.json`.

## The properties

- `NoLostRequest`: what the stream accepted, or a client was told ok for, is
  still to be sealed, still to be cached, or has been cached.
- `SigningsAccounted`: the signing counter is between the calls that were told ok
  and the requests accepted plus the faults, over crashes between INCR and reply and
  repeated increments.
- `ExclusiveHandling`: one sealer per request, one callback per message, while
  nothing outlives its lease.
- `NoImmortalDoc`: a document without a time to live always has a message that
  will set one. With the fault `overrun` this is not so: the first delivery
  may be acknowledged between the two commands of the second one, whose EXPIRE
  then fails, and the document stays for ever. With `nak` neither.
- `OnlyPublishedAnswers`: nothing in the store or with a client that no sealer
  published for that transaction, and nothing sealed that could not be.
- `FetchesAgree`: two fetches of one transaction never return different
  documents, although two sealers may have sealed it, as long as the duplicate
  window does not lapse between their publishes.
- `SettledForGood`: once both streams are done with a request and its document has
  gone, no sealer, buffer or callback brings it back. A document that comes back
  would be a fetch that answers "no longer" and then answers again. With
  `overrun` it may: a callback that is slower than its lease saves an answer again.
- `RepeatsArePaid`: work is repeated only for a fault. A request is handed to sealers,
  and its answer delivered to gateways, at most once more than there were faults,
  and that whatever the handlers of earlier deliveries still do. What kills every sealer
  that takes it is excepted; it is handed out for ever.
- `ImplementsService`: the pipeline refines `SealService`. Accepting is the
  moment SEAL stores the request, deciding the moment CACHE stores the answer.
- `EventuallyAnswered`, `EventuallyGone`, `OnlyPoisonRemains`: requests are
  answered, documents disappear, streams drain, although a request may kill
  every sealer that takes it.

- `NatsOutageReported`, `KvHealthReported`: what a reply of `Health` can be trusted
  for. Each probe publishes a first answer before it asks and corrects it in
  place; when the first answer is true, no interleaving of writes and reads makes
  a reply say otherwise. For NATS that is the outage, for the store its health.
- `HealthConverges`: what is shown follows the services, although each probe
  overwrites it: for good when the first answer is the true one, and otherwise again
  and again.

- `WorkersFindStreams`: who can take a request can pass it on, although nobody
  waits for anybody at the start. What makes it so is the order in which a
  gateway creates things.
- `ServingConsumes`, `GatewaysServe`, `SealersServe`: in whatever order processes
  start, stop and lose NATS, they come to serve when it stays up, and a gateway
  that serves consumes answers, too. The exception is part of the property: a
  connection that was given up in an outage is closed for good, and the gateway
  serves on without it until somebody stops it. For sealers, to serve means to hear
  of requests; the way out of deafness may take the year of the fetch.
- `StartsAdvance`: in quiet times (NATS is up, nobody crashes or is told to halt) each
  step of a gateway or a sealer takes it nearer to serving, in particular none fails
  because another gateway has made what it was about to make (they call
  `CreateOrUpdate`, not `Create`).
- `CallsAccounted`: each counter against the calls, between INCR and reply, with
  repeated increments and crashes.
- `RepliesAreCounted`: who was told ok and then asks for the metrics is
  counted, although the three counters are read one after the other.
- `CallsAreHeld`: a call that hangs on a validator is with one that serves, in its
  queue or at a thread, and with one only: crashes of validators and of gateways
  leave no call behind that nobody will end.
- `CallsEnd`: no call waits for ever, with more calls than threads and validators
  that crash.

- `GuardedHandlers`: who reaches a document handler is entitled to it: by a key that
  was published while the request was under way, and by the first entry of
  the requested access that is the granted one, before any that cannot be read. It
  relates the handler that runs to the token, the configuration and the history of
  the key provider, with other requests in between.
- `RefusedLeavesNoTrace`: a request that was told 401 ended there.
- `AnsweredOnce`: on each way through the chain, one body; two, or a broken
  connection, only after a panic of the token check.
- `AddressedByPath`: the document a fetch or a revocation is about, against body and
  query that name another.
- `RequestsEnd`: the chain of each request comes to its end.

## The runs

| Run | Asks | Bounds |
|---|---|---|
| `pipeline_safety` | is any request lost, does the counter add up | one request of any of the five kinds, two sealers, one gateway, three faults of any kind but `nak` |
| `pipeline_exclusive` | are leases exclusive, do documents expire, is what is over over | one request, two gateways, two sealers, three faults without `overrun` and `nak` |
| `pipeline_crossing` | does an answer ever reach another transaction | two requests with different answers, one sealer, one gateway, one client, one fault of five kinds, `lapse` and the unset session among them |
| `pipeline_fetch` | do clients agree, is work repeated without a fault, is the service implemented | one request, two sealers, two clients, two faults with `overrun` and `nak` |
| `pipeline_live` | does everything come to its end | two requests, each sealable, fatal or malformed, one sealer, one gateway, one fault |
| `missing_document` | does a client hear that there is no document | one of each, no fault: violated |
| `health` | what can a reply of `Health` be trusted for, does what is shown follow the services | one call at a time, both services changing at will |
| `kv_outage` | is a lasting outage of the store always reported | one call: violated |
| `lifecycle` | do processes find what they need and come to serve | two gateways, one sealer, two crashes or signals, any number of outages |
| `halt` | are requests at hand finished when a gateway is told to halt | one gateway, one stop: violated |
| `metrics` | do the counters account for the calls, is every call with somebody, do calls end | two calls of any kind, two validators with one thread each, one call of `Metrics`, one repeated increment, any number of crashes |
| `http` | who reaches a handler, what is answered, how often, about which document | two requests: one that is any of about 25 kinds, one a plain fetch; two keys of which the provider has one or none at a time; 20 files, of which two are accepted; two organizations, two documents |

Why these bounds are enough to be interesting: two sealers are needed to seal a
request twice, two gateways to deliver a message to another process than the one
that crashed, two clients to disagree, two requests to mix up answers or to
stand in each other's way. A request is sealed and stored a second time after one
fault and acknowledged wrongly after two; the third leaves room for a crash in
between. Requests do not share state but in the places the run
`pipeline_crossing` has: the sealer, the consumer's buffer and its callback. The
state space is finite since a lost acknowledgement, a second publish and a
repeated increment each cost a fault; so is that of `pipeline_fetch` with its two
counts of deliveries, as long as the property that bounds them holds. TLC does not
check deadlock in the runs of the pipeline: a pipeline that has served all calls of
an instance stops. It does in the other runs, whose processes and services never
stop for good.

One call of `Health` is enough for its properties: calls only read, so that
another one changes nothing for it. Two gateways in `lifecycle` create the same
things at the same time, as the old and the new process of a restart do; two stops
are enough to stop one half-way and again. Two calls are more than the one thread a
validator has in `metrics`, so that one of them waits; and one is enough to be
replied to, or counted, between two reads of `Metrics`. Requests of `http` meet
nowhere but in the keys, so that one which fetches stands for all others; the kinds
are one plain request per route and those that
differ from it in one respect: each way a token can fail, an entry that cannot be
read before and after the one that matches, no header, a body that cannot be decoded,
an id in body or query, a client that accepts no JSON.

### Fairness

`FairSpec` assumes of the code and its environment, and of nothing that fails:

- a process that is up goes on with its handler, and one that is down is
  started (`restart: always`); weak fairness for each sealer and each consumer;
- the server delivers what waits or ends its lease; weak fairness for each
  transaction in CACHE, and for the end of AckWait in SEAL;
- each request in SEAL gets its turn whenever sealers become idle again and
  again; strong fairness. Weak fairness would not do, because a request that kills
  its sealer makes it idle only from time to time. The server justifies it: a
  message that was delivered is not offered for 30 seconds, a restart
  takes less, and the sealer that comes up meanwhile is offered the others;
- the ten seconds of a document end.

`HealthProbe` assumes that the tickers tick and the pings return (go-redis bounds
each by its timeouts, `IsConnected` does not block): weak fairness for each probe, none
for the services.

`Lifecycle` assumes that docker starts what is down (`restart: always`; after a stop by
hand, somebody does), that a start and a shutdown go on, and that the client
library reconnects while the servers answer, and that a fetch times out: weak
fairness for each. NATS itself
may come and go; the liveness properties are about the case that it stays.

`Metrics` assumes that a handler goes on (each command to the store ends, by the
timeouts of go-redis) and that the threads of a validator do: weak fairness. Validators
need not be started again for calls to end.

`HttpServer` assumes that the chain of a request goes on: weak fairness for the steps
of each. `keyfunc.Get` gives up on a provider after ten seconds (`RefreshTimeout`),
and what the api waits for ends as the other modules say. Nothing is
assumed of the provider, nor that a request ever arrives.

No fault is fair, and no client is: calls may never be made. In the
pipeline not even the handlers of the gateway need finish: what follows a publish
is not up to them.

## The proofs

All theorems hold for every set of transactions, gateways, sealers and clients,
every selection of faults and every bound on them. The assumptions are those the
modules state: `FaultsAssumption` and `RequestsAssumption` (kinds are kinds,
`None` is no transaction), `BackendsAssumption` (`None` is no sealer),
`StopsAssumption` (a bound is a number), `MetricsAssumption` (calls are finitely many, bounds
are numbers), `NoneAssumption`, `KeysAssumption` and `InputsAssumption` (`None` is no
service and no document, the provider publishes keys, requests are requests).

- `TypeCorrect`: `Spec => []TypeOK`, one lemma per part of the pipeline. In `Lifecycle` and
  `HealthProbe` `TypeOK` says more than types: that a gateway past its connection has one
  (`ConnectionsMade`), and that a call of `Health` has a pointer to exactly the
  stores it has come to (`PointersInv`).
- `CustodyHolds` and `RequestsAreNotLost`. `NoLostRequest` is not
  inductive: it does not say why a sealer may acknowledge. `Custody` does, stage
  by stage: who is about to acknowledge to SEAL has an answer in CACHE; a publish
  that is taken for a duplicate has an answer in CACHE; who is about to
  acknowledge to CACHE has cached; a call that goes on to count is accepted.
- `SigningsAreAccounted`, from `Custody`. The bounds are on numbers of calls, and no
  single call tells whether they hold. `Accounts` counts: the calls that replied ok
  are at most the counter, the counter is at most the accepted requests whose call
  has ended plus the faults spent. That the accepted are finitely many is part of it: SEAL
  stores them one by one. Three ends of an increment move one call into these
  sets (`AccountsCount`), and every other step keeps the bounds (`AccountsKept`); that
  a call which counts is accepted is in `Custody`.
- `LeasesHold` and `HandlingIsExclusive`. The strengthening relates holders
  to leases: who holds a message or a request has it leased, leased messages
  are stored, and a message is with one holder. Then a delivery, which takes
  what is not leased, cannot make a second one.
- `NoDocumentIsImmortal`. Relative to `Leases`: the step that acknowledges
  a message could take away the only one that will set a time to live. It comes
  after the EXPIRE of that message, and since no other callback handles the
  same message, a document without a time to live was saved by another message.
- `SettledIsFinal`, an action property, from `Leases`. Whoever could bring a
  settled request back holds something: a sealer its request, a callback its
  message, a buffer what it was sent. What is held is leased and what is leased is
  stored (for SEAL the conjunct `SealLeasedIsStored`, which had to be added), so that
  nobody holds anything of a settled request; and SEAL recognises the id of one
  that arrives again.
- `WorkIsRepeatedForFaults`. The bound is not inductive: a delivery may come in any
  state, and the invariant must say that the one before it was paid for. `HandedPaid`
  does: what waits in SEAL, or is leased to nobody who works on it, has all of its
  deliveries covered by faults; only what is worked on, or done, may have one more.
  `DeliveredPaid` says the same of CACHE and adds those callbacks that are about to send
  a `Nak`: they have cost their fault already and end a lease without another
  one. They are many, so that the invariant counts them (`Naking(t)`, a finite set).
  That a sealer or a callback that goes on has the only lease is not needed.
  `RedeliveryIsPipeline` carries `TypeOK` over.
- `ProvenanceHolds`, `DocumentsArePublished`, `FetchesDoAgree`. `Provenance`
  follows an answer through the publish, the stream, the buffer, the callback,
  the store and the read, and states that within the duplicate window a
  transaction has at most one.
- `PipelineImplementsService`: `Spec => Service!Spec`, from `TypeOK` and
  `Provenance`. A stored request is `Accept`, a stored answer `Decide` (its
  uniqueness is `OneAnswer`), HSET `Show`, expiry `Hide`; everything else
  stutters.

- `NatsOutagesAreReported` and `KvHealthIsReported`, for any number of concurrent
  calls. The invariant follows the first answer of a probe: while a service has not
  changed since its probe began and is as the probe says first, the published
  object says so and nothing writes to it (`ProbesInv`); so does the object a call
  holds (`HeldInv`), since an old one was a published one; so does what the call has
  computed from it (`ReplyInv`).
- `ProbesDoTell`, from the same invariant: a service that has not changed since a
  probe of it began is shown as it is when the probe ends (`ProbeEndTells`), and one that
  is in the state its probes begin with is not contradicted by any probe until it
  changes (`SettledIsShown`). No run lists `ProbesTell`; the run `health` asks
  `HealthConverges`, of which it is a part.

- `StreamsAreFound`, for any number of processes, crashes and outages. The
  invariant says what exists from what exists: the SEAL stream only after the CACHE
  stream and its consumer (`CreatedInv`); how far a gateway has come says what it
  found or made (`GatewaysInv`), a sealer likewise (`SealersInv`).
- `ServingGatewaysConsume`: a gateway that is past the cache consumer has its
  goroutine, which fails only on a closed connection, and no closed one opens
  again (`ConsumersInv`).
- `ProcessesAdvance` and `WhoArrivesServes`. In quiet times (NATS is up, nobody crashes
  or is told to halt) the measure `Left(g)` of a gateway only falls. It counts the
  steps of its start twice, since one of them starts the goroutine that has to consume; and
  it adds a whole start (`Detour`) for a gateway that shuts down or may be refused a
  stream, because it waits for a connection from before or has lost it for good: in
  quiet times it may fail once, and not again. The measure is 0 exactly
  where `GatewaysServe` wants the gateway, its consumer having started or
  failed (`ConnectionsMade`, `ConsumersInv`). `SealerLeft(s)`
  falls while some gateway serves: then there is a SEAL stream (`StreamsInv`), and
  a sealer cannot fail to subscribe. The run `lifecycle` asks the
  whole of it, `GatewaysServe` and `SealersServe`, and `StartsAdvance`; it does not list `Arrives`,
  that who is at 0 serves.
- `CallsAreAccounted`: the lower and the upper bound are inductive together;
  three lemmas say how the number of calls at some steps changes when a call goes
  to another step or a gateway crashes.
- `RepliesAreInMetrics`, from it: counters do not fall (`CountersGrow`), so that what had
  been replied to when a call of `Metrics` began is below every counter it reads
  (`ReadsInv`).

- `CallsHaveAHolder`, from `HeldOnce`: nothing that has not gone to a validator is
  with one, and a call goes to one only from there. A gateway that crashes
  leaves its calls with their validators, where they stay, once.

- `DocumentsAreGuarded`, `RefusalsLeaveNoTrace`, `RequestsAreAnsweredOnce`, `PathsAddress`,
  for any number of requests of any content. The invariant says for each request
  where it can be in its chain and how much it has been answered there
  (`PositionInv`), what that means for the verdict on its token (`VerdictInv`), and
  that what the check has been through so far is what an entitled request needs:
  its keys were offered, its organization is known, and the entries before the
  present one can be read and do not match (`TokenInv`). The path is in
  `AddressInv`.

- `EveryStepAdvances`: the measure `Left(r)` counts the handlers that remain, the entries of
  the requested access that have not been looked at and the questions and statements
  left in the handler. Every step of a request that is under way lowers it, also the
  panic that leaves a handler half-way, since the index of the chain is then past it;
  what other requests or the key provider do leaves it alone. No run lists
  `ChainsAdvance`, the property it proves; the run `http` asks the stronger `RequestsEnd`.

Only model-checked: the liveness properties, since fairness and ENABLED
are out of the prover's reach, and the three properties the runs refute. Every
invariant and every action property a passing run checks is a theorem. The part
of the liveness properties that needs no fairness is a theorem as well:
what is accepted is kept (`NoLostRequest`; with `EventuallyAnswered`), what
is done stays done and costs a bounded number of deliveries (`SettledForGood`, `RepeatsArePaid`; with `EventuallyGone` and `OnlyPoisonRemains`), a call always has
somebody to end it (`CallsAreHeld`; with `CallsEnd`), a chain only goes on
(`ChainsAdvance`; with `RequestsEnd`), a probe tells what it was told and no other takes it
back (`ProbesTell`; with `HealthConverges`), and a start only comes nearer to its end
(`StartsAdvance`, `Arrives`; with `GatewaysServe` and `SealersServe`).

## Findings

- `helpers/error.go:18` promises `ErrNoDocumentFound`; a fetch that finds no key
  replies 200 with an empty document (`missing_document`). A client cannot tell
  "not yet" from "no longer", "never" and "could not be sealed".
- `PDFSignRequest.PDF` is tagged `base64`; nothing validates the tag, and a body
  that is not base64 reaches the sealers, ends the one that takes it, and comes back
  after every AckWait. The kind `malformed` is that request; `pipeline_safety` has it
  among three faults, and in `pipeline_live` `OnlyPoisonRemains` says what becomes of it
  and `EventuallyAnswered` that others get past it.
- The probe of the key-value store publishes `OK` before it pings
  (`kvclient/client.go:96`), and the one of the stream `Not connected` before it
  looks. A reply in that window reports a dead store as healthy (`kv_outage`), or a
  connected stream as not connected.
- `main.go:98` waits "until are workers are done": nothing is added to the
  WaitGroup, the http server is not stopped, and before the line is reached `Close`
  of a database that was never opened panics (`halt`). Requests at hand end with
  the process, and what has not been closed before is not closed.

Not a run, but visible in `HealthProbe`: `Check` judges objects the probes still write to,
and the reply carries the objects, so that it may say `STATUS_OK` above an unhealthy
probe or the converse. The comment of `Check` says that it returns the first that fails; it
lists all.

Likewise in `HttpServer`: the recover of `middlewareCrash` (`middleware.go:36`) does not
abort the chain, so that the next handler still runs; `Revoke` and `IsRevoked`
(`methods_eduseal_signing.go:60`, `:71`) name different fields; and the tag `required` on
`Mongo.Disable` (`model/config.go:28`) accepts only `true`, which makes all of `db` dead code.
The fields are read in the source, not shown by a run, for that reason.

## Not modelled

- What is kept in Mongo, and the probe of it (with the inverted test of
  `Mongo.Disable` at `db/service.go:101`): every valid configuration disables them.
- `DelSigned`, `ExistsSigned`, `Save` and the gateway's gRPC client for sealing have no
  caller, and so no action. `DelSigned` deletes fields of names `SaveSigned` does not
  write; whoever calls it first will find out.
- The branch after a failed `Unmarshal` of the cache consumer: its only publisher
  sends JSON of the right shape.
- `middlewareClientCertAuth`, which no route uses; the route of the API documents; TLS.
- The goroutines keyfunc starts with each key set, which nothing ends: there is
  no bound to check them against.
- What NATS being away does to the pipeline, beyond publishes that time out or are
  lost and processes that end (`SealRequests`, `Lifecycle`). Composing the two would multiply
  their states. `pipeline_live` shows that requests are answered when gateways and sealers
  serve, `lifecycle` that they come to serve when NATS stays up; that the two together
  say that requests are answered then is an argument, not a check.
- Logging and tracing write and are never read. The code under
  `internal/gen` and `docs` is generated.
- JSON and base64 where nothing fails in them; the layout of a PDF; the wording of errors.
