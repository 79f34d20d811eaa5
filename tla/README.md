# Specifications of kranix-api

TLA+ modules, TLC models and TLAPS proofs for the HTTP gateway in `src/`. The
gateway keeps all of its own state in memory; each component below has one mutex
or one goroutine, and the interesting behaviour is in what happens between two
critical sections, on full channels, and after a handler has given up.

## The system and its parts

`cmd/api/main.go` builds every service from `config/local.yaml`, registers their
routes on one `http.ServeMux`, wraps it in the middleware chain (logging, CORS,
authentication, rate limit) and serves it; a signal starts `server.Shutdown`. Each
request is a goroutine. The workload handlers (`internal/handlers`) call
kranix-core over HTTP (`internal/coreclient`), then write an audit entry and
broadcast an event.

| Part | State | Operations | Meets | Hard behaviour | What makes it correct |
|---|---|---|---|---|---|
| SSE (`internal/sse`) | client map, three channels, a buffer per client | connect, stream, disconnect, broadcast | every mutating handler publishes | goroutines on channels, full buffers, closed channels | no send on a closed channel, isolation by namespace, order, loss only by overflow, publishers never stuck |
| Approval gate (`internal/approval`, `handlers/approval.go`) | records under a mutex | create, get, list, resolve, validate | resolve writes to the audit log | lazy expiry, two operators, a pointer shared after unlock | one final decision, answers of an eager clock |
| Webhooks (`internal/webhooks`) | registrations, delivery records, retry queue | register, update, delete, test, trigger, retry | changelog publishing triggers them | bounded queue fed by its own consumer, stale snapshots | no delivery lost or doubled, bounded retries, callers return |
| Audit log (`internal/audit`) | bounded slice of entries | log, query, get | all mutating handlers | time stamped before the lock, trimming | order and bound of the log |
| Workload handlers (`internal/handlers`) | none of their own | deploy, list, get, delete, restart, scale, rollback, checkpoint, migrate, drain | core, audit log, SSE | an error after core applied the change, dry run | every mutation audited, a dry run changes nothing |
| API keys and authentication (`internal/apikeys`, `middleware.Auth`) | key map | create, get, list, revoke, delete, authenticate | middleware looks keys up | check after the lookup lock is free | a revoked or expired key is refused |
| Rate limiter (`middleware.RateLimit`) | map of token buckets | allow, refill | every request | map and buckets used without their lock, truncated refill | tokens within the burst, no over-admission |
| Rate-limit service (`internal/ratelimit`) | limiter per client, namespace quotas | allow, set quota, usage | not wired into the chain | check-then-create of a limiter | one limiter per client |
| Changelog (`internal/version`, `internal/changelognotify`) | entries, current version, subscriptions | publish, subscribe, unsubscribe | webhooks, email | unsynchronised slices, ids by the second | every breaking release notified |
| Analytics (`internal/analytics`) | metrics by resource | record, query, four reports | its own routes only | Go map order, offset and limit, ends of the time window, retention | pages that neither lose nor repeat, reports that agree with queries |
| OIDC (`internal/oidc`) | none of its own: states and sessions are kept by a manager in another repository | login, callback, logout | off by default | expiry, a state used twice | a state is good for one login |
| Startup and shutdown (`cmd/api/main.go`, `handlers/server.go`) | the mux, the server | register routes, serve, shut down | everything | patterns registered twice, streams that never end | the process comes up and goes down |
| Suggestions, GraphQL, gRPC, stream, API version, validation, dry run, core client | little or none | request translation | | | |

The state and the operations of every part are listed in `PROJECT.json` with the
modules that model it; its hazards name the line where each bites.

### A note on startup

`RegisterRoutes` in `handlers/server.go` registers `GET` and `POST /api/v1/workloads/`,
`GET /api/v1/pods/` and `POST /api/v1/coordination/tasks/` twice, and
`webhooks/handlers.go` (lines 15 and 18) registers `GET /api/v1/webhooks/` twice;
`http.ServeMux` panics on the second registration of a pattern: `Startup` shows it in
the run `startup`. The other modules take each handler as it runs once it is
registered.

## Modules

| Module | Models | Used by |
|---|---|---|
| `SSE` | the event service | `SSEProofs`, `MCSSE` |
| `ApprovalGate` | abstract: what an approval gate promises | `ApprovalStore` (`INSTANCE`) |
| `ApprovalStore` | the store and its handlers | `ApprovalProofs`, `MCApprovalStore` |
| `DeliveryService` | abstract: what the webhook service promises of a delivery | `Webhooks` (`INSTANCE`) |
| `Webhooks` | triggers, deliveries, retry queue, handlers | `WebhooksProofs`, `MCWebhooks` |
| `WorkloadOps` | eleven mutating handlers, the core client, kranix-core | `WorkloadProofs`, `MCWorkloadOps` |
| `AuditLog` | the audit logger, its sinks, restarts, queries | `AuditLogProofs`, `MCAuditLog` |
| `Changelog` | publishing a release, subscriptions, notification | `ChangelogProofs`, `MCChangelog` |
| `RateLimiter` | the token buckets of the middleware | `MiddlewareProofs`, `MCRateLimiter` |
| `ApiKeys` | keys and authentication | `MiddlewareProofs` |
| `Analytics` | metrics, queries, reports | `AnalyticsProofs`, `MCAnalytics` |
| `Startup` | configuration, services, the routes of every package, listening, shutdown | `MCStartup` |

A history variable, marked so where it is declared, records what happened for a
property to speak of; no guard reads one, except where it counts towards a bound.
A definition under a comment that says "mutant" is a variant with a plausible mistake;
no action of the specification uses it. It is there to show that the properties
notice the mistake.

### SSE

`clients`, `broadcast`, `send` and `subscriptions` are the fields of `Service` and
`Client`; `handler[c]` is the position of `HandleConnection`, `notifier[c]` that of
the goroutine it starts at `sse.go:120`. The `run` goroutine never blocks inside
a case of its select, so each case is one action: `Register`, `Unregister`,
`broadcastMessage`. A send on an unbuffered channel and its receive are one step.
`Connect`, `Greet`, `Stream`, `StreamNil` and `StreamDone` are the steps of the
handler between channel operations; `HandlerOver` is net/http cancelling the
context. Messages are numbered in the order of acceptance. `taken` is what the handler
took from its buffer: all of it is written but an event that cannot be encoded, which is
the last one taken.

`Service.Shutdown` has no caller and is left out.

### ApprovalGate and ApprovalStore

The store's operations are one action each, for they hold one mutex throughout;
`Resolve` reads the clock twice and is two actions with the mutex held between
(`holder`). The create handler encodes the record after the mutex is free
(`AnswerCreate`), the resolve handler audits after `Resolve` returned
(`RecordAudit`). An overdue record is marked only when an operation meets it.

`time.Duration(req.TTLSeconds) * time.Second` wraps: `Wrapped` is the signed word of
the product, with `Second` units in a second and `MaxDuration` the largest duration,
and `Lifetime` is what a request is given. A large request may get a lifetime that is
negative, and is born overdue, or one that is merely shorter.

The gate has no lazy expiry and no two-step decision: its requests expire at the
tick that passes the deadline. The lifetime of a request that asks for at most
`MaxDuration` is the one asked for; beyond it a request may expire earlier, never later. The refinement
mapping (`TrueStatus`) reads an overdue pending record as expired, and one whose
resolver has passed its check as decided.

### DeliveryService and Webhooks

A job is one trigger's obligation to one webhook. `Trigger` takes the snapshot
and starts a delivery per job; a delivery goes through `starting`, `posting` and
`queueing`; `worker` is `retryWorker`, which takes a job, sleeps, looks the webhook
up again and calls `deliver` itself. An update is two critical sections. Time is
left out: a sleep ends, a request ends, nothing more. A delivery
record is the job and the outcome; its id is left out, and so is the attempt
number, which `deliver` sets to 1 for every record it makes, whoever calls it.

The abstract service has the live webhooks and the status of each delivery, and no
goroutines, queue or worker: a delivery that is due stays due until the endpoint
accepts it, no request can be made for it, or the webhook is gone or disabled at that
moment. `JobStatus` maps a job to it: accepted once its record says so, due while it
is with a goroutine, in the queue or with the worker.

### WorkloadOps

The eleven handlers pass the same stages; the set named like the handler says
which ones it has, and `Next` is written once for all of them. `sent`, `applied`
and `refused` are the core's side: how many changes of a request it has made and how
many it has refused. A bulk request asks for at least one and a drain for any number of
them, every other operation for one (`size`); the core decides on each alone. Its answer
to a bulk or a drain is no error whatever it refused, and `reply` is the count in it
(`resp.Succeeded`, `PodsEvicted`), which the handler puts into the audit entry: an entry
*claims* that many changes, and those of other handlers the one change asked for. The
bulk handler writes "success" for every answer that is no error (`server.go:214`), of a
core that has made none of the changes too, and `AuditTruthful` is therefore about what
an entry claims. The core's answers are taken to be true: the counts of a bulk or
a drain are what it has made by then, and an answer without an error to any other
operation is of a change that is made. The handlers look at nothing else.
The client cannot tell a lost answer from a
refusal (`CallLost`), and the core may apply after that. `coreEnabled` is chosen in
`Init` and never changes: one run has the process with and without a core.

### AuditLog

`Log` is `Stamp` (id and time, before the mutex), `Keep` (append and trim under
it) and `Write` or `WriteFails` (after it). `Restart` loses memory and goroutines
and keeps the sink. `Query` is a function of the state: the loop of the code, from the
newest entry back until the limit is reached (`Scan`, by number of turns).

### Changelog

A release has any number of entries (`count`), and each is appended to a slice nobody
locks, in `Load` and `Store`. Two slices of one array have its places in common: what
`Store` writes is in the same place of a longer slice another publisher has read, if it
is of the same array, which the growth of the array decides; `StoreBack` allows both.
When the subscribers have been told, a breaking release goes to the webhook service
(`GoOn`), and the publisher waits in step `triggering` until `Trigger` returns
(`Triggered`). That may never happen: `Trigger` waits for its deliveries
(`webhook.go:137`), these for room in the retry queue (`webhook.go:210`, `webhook.go:230`),
and the run `webhooks_stuck` shows that the queue may be full for good. `Webhooks` has
the inside of that call.

`Subscribe` and
`Unsubscribe` come between any two steps of a publisher, whose snapshot is taken in
`Snapshot` and walked by `Deliver` in the order of a Go map. `eligible` and `steady`
record who was subscribed at some time, and all the time, while a breaking release is on
its way to the subscribers, `notified` which releases have been through that, and
`overlapped` which were recorded while another was: a publisher that is past the loop
over its entries disturbs nobody, however long it waits.

### RateLimiter

`Lock`, `Insert`, `Unlock` are the critical section of the middleware, the read of
the map and `allow` come after it. `Fault` is the Go runtime ending the process on
a read during a write. `credit` is the bucket the documentation describes, run
beside the code's, and `last` the time of a connection's last decision; one token is
`Rate` units of the clock.

### ApiKeys

A request passes `Lookup`, `RecheckRevoked`, `CheckAddress` or `Expired`, and then
its handler. How a token is validated in the other modes and how a key is generated
is code of kranix-packages, external. No run has this module: what it is for, that
mode apikey admits nobody, is proved.

### Analytics

`metrics` is the map of the service; a name is the sequence of its parts between
colons, for keys are built and matched as text with a colon in between. There is no
clock: the time of a metric is whatever the client posts (`Post`). A query is
a function of the state and of the order of the map's keys, and properties quantify
over every order. The loops of queries and reports are recursive functions of the
number of turns. Durations keep their width: the sum of an average wraps
(`Wrapped`), and its quotient is cut off towards zero (`Quotient`).

That reports agree with queries (`ReportsAgree`) has two limits, and TLC finds a
counterexample beyond each. No name may have a colon in it (`PlainNames`): a report
looks up the key `workload:a`, and a query for the id `a` finds those of the id `b:a` as
well (`analytics.go:80`). And only the average of durations
whose sum fits a `time.Duration` (`Fit`) is said to lie between the least and the greatest.
Neither a name with a colon nor a sum that wraps is thus caught by a property. The count
of errors is stated as the code has it, of metrics of every type.

### Startup

`main` is one goroutine, and each thing it can end at is an action: `LoadFails`,
`GraphQLFails`, `HandleFuncPanics`, `ListenFails`, `ShutdownTimesOut`. `Routes` is the
sequence of patterns in the order the packages register them, for the services that
were made; `HandleFunc` registers the next. The mux is external; of its conflicts only
equal patterns occur here.

## Runs

Bounds are CONSTANTS and are named where they are declared. Two of each thing that
can race are there, and capacities are 1 or 2, so that full, empty and wrapped-around
are all reached.

### Runs that pass

| Run | Shows | Bounds and why they do |
|---|---|---|
| `sse_service` | no send on a closed channel, no event across namespaces, no reordering, loss by overflow only; publishers get through and disconnected clients leave | 2 clients of one of 2 namespaces, one of which cannot flush, buffers and queue of 1 so that both fill, 3 messages, one of which cannot be encoded. The wildcard is in `sse_disconnect`, and the proofs hold for all sets of namespaces and all capacities |
| `approval_store` | one decision, final, audited in the end, that no answer contradicts; the store implements the gate | one approval, 2 operators with 2 calls, 2 tools, a clock past the longest lifetime. With durations of 3 bits and 2 units to a second, the seconds asked for are none (the default), one that fits, one that wraps to a negative lifetime and one that wraps to a short one. Approvals share only the mutex; the proof of the refinement is for any number of them |
| `webhooks_safety` | no delivery lost or doubled, honest answers, triggers held up by the worker's own send only; the service implements `DeliveryService` | 2 webhooks, one with a bad URL, 2 callers (interchangeable, by symmetry), a queue of 1, 3 triggers: one delivery with the worker, one in the queue and one that waits |
| `workload_records` | records truthful, answers agree with them, previews pure, every request answered | 2 requests, every one of the 11 handlers, bulks of one or two workloads and drains of up to two pods, so that a part is made and a part refused, with and without a core; handlers share only the logs, in which two are enough to be interleaved |
| `audit_log` | latest entries kept, returned means written once, queries return the newest matches, each once | a memory of 2 and 4 entries, so that it wraps twice; restarts at any time; writers and resources are interchangeable (symmetry) |
| `changelog` | each subscriber told once, the race costs only releases recorded at the same time and doubles no entry, only an e-mail or the webhook service holds a publication up | 2 publishers, 2 releases of no entry or of two, so that appends of one release come between those of the other and meet in a shared array, one subscription whose channels change in between: a webhook that fails before an e-mail, two appends that meet, and two that do not |
| `ratelimit_safety` | never overdrawn, spaced requests pass, buckets kept | 2 connections, capacity 2, 2 units per token, a clock to 5: every remainder a refill can drop, and a full bucket |
| `analytics_safety` | pages follow one another, reports agree | 2 metrics of 2 resource types and 2 ids without colons, at any time up to the bound; every order of keys, offsets and limits from -1 to 2; durations -2, 1 and 4 with 5 the greatest, so that averages are of unlike values and signs and two durations can add up past it. Orders and pages of more metrics are in the proofs |

### Runs that end in a violation

Each checks one statement of a document or comment that the code does not keep;
`PROJECT.json` quotes it and gives the line.

| Run | The code |
|---|---|
| `sse_disconnect` | leaves a client in the map for ever: its handler blocks in the connected event before its disconnect goroutine exists |
| `webhooks_stuck` | deadlocks the retry worker on its own full queue |
| `workload_audit` | makes a change without an audit entry when the answer is lost |
| `startup` | panics at the routes, whichever of the 6 optional services are enabled (all 64 choices) |

### Disagreements seen while modelling

These were met in the code while it was translated. No run checks them; most would
show in the models at once if stated as a property.

| Said | Done |
|---|---|
| `sse.go:108` "Send initial connection event" | the client is registered before (`sse.go:106`), and another event may be in its buffer first |
| `sse.go:231` "Shutdown gracefully shuts down the SSE service" | nothing calls it; it would close channels that `run` still selects on, and `run` dereferences the nil it receives |
| `README.md:125` "Create a pending approval" | the handler encodes the stored record without the mutex (`approval.go:31`): the answer may show a decided or expired one, although never another decision than the one that stands (`DecidedOnce`) |
| `config/local.yaml:33` "max_retries: 3" | the counter the worker raises (`webhook.go:278`) is on a record `deliver` does not look at: a failing endpoint is tried without end |
| `webhooks/handlers.go:80` "handles updating a webhook" | the webhook gets a new id; the one the request named is gone |
| `webhooks/handlers.go:155` "handles testing a webhook" | a test of a webhook that is disabled or not subscribed to the test event delivers nothing and reports success |
| `webhook.go:314` "generateID generates a unique ID" | it is the clock, which two deliveries of a trigger can read at the same instant; one record replaces the other |
| `README.md:172` a dry run "does **not** apply changes (no core calls" | drain, checkpoint, restore and migrate do not look at the flag (`nodes.go:39`) |
| `README.md:546` "Subscribe to specific namespaces" | delete and restart put the namespace of the query string into the event, not the workload's (`workloads_extra.go:62`) |
| `README.md:346` a bulk goes on "after individual failures" | the audit entry's outcome is "success" for every answer of the core that is no error (`server.go:214`), also when it has made none of the changes; only the counts in the entry's details tell |
| `audit.go:81` "newest first" | entries are stamped before the mutex (`audit.go:62`) and may be appended out of the order of their times |
| `README.md:279` sinks "stdout \| file \| kafka" | `Log` has no branch for kafka (`audit.go:71`); the entry stays in memory |
| `publish.go:12` "PublishRelease records changelog entries" | of two releases recorded at the same time entries may be missing (`version.go:42`); those recorded alone are kept (`AloneRecorded`) |
| `version.go:93` "generateID generates a unique ID." | it has a resolution of a second (`version.go:95`) |
| `README.md:516` "rate limiting per client (based on API key or IP address)" | the bucket is chosen by `RemoteAddr`, which has the port (`middleware.go:232`): every connection has its own |
| `middleware.go:250` "a simple token bucket rate limiter." | a refill forgets the part of a token that has accumulated (`middleware.go:284`) |
| `analytics.go:103` "Apply limit and offset" | an offset at or past the end is not applied |
| `analytics.go:78` "Filter by resource ID" | the filter is a suffix of "type:id" (`analytics.go:80`); an id "a:b" passes for "b" |
| `analytics.go:160` "gets error metrics for a workload." | it counts metrics of every type (`analytics.go:187`) |
| `config/local.yaml:39` "How long to retain analytics data" | the retention is stored and never read |
| `README.md:223` "go run ./cmd/api --config ./config/local.yaml" | `retention: 30d` of that file is no `time.Duration` for yaml.v3 (`main.go:75`, `main.go:338`), so that `loadConfig` fails before a route is registered; with a duration it can read, the routes end the process (`ComesUp`) |
| `README.md:180` creates API keys over HTTP | in mode apikey the route needs a key, and the service starts without any (`main.go:193`, `main.go:213`): nobody is ever admitted (theorem `KeysLockedOut`) |

### Deadlock

Every run sets `CHECK_DEADLOCK FALSE`: the models stop when their bounds on
messages, calls or time are used up, and the service may simply have no more
requests. That nothing hangs is stated by the liveness properties instead.

### Fairness

Fairness is asserted of the program's own goroutines only, never of clients, operators
or the core. Weak fairness of a step says that a goroutine that can run does.
Strong fairness is used where the runtime serves waiters in order: a mutex
(`ApprovalStore`: Go's mutex wakes a waiter that starves) and senders on a bounded
channel (`Webhooks`, in `webhooks_stuck` only: they queue up). The end of an HTTP call
is fair because the client has a timeout (`coreclient/client.go:28`, the webhook
client, the client of changelog webhooks); `smtp.SendMail` has none, and nothing is
assumed of it. Nor is anything assumed of `Trigger`, which a publication waits for at its
end. `PublishReturns` allows a publication to wait for these two.
Fairness in `SSE` is per case of a select, which chooses at random among the
cases that are ready. `Startup`, `ApiKeys`, `RateLimiter`,
`AuditLog` and `Analytics` assert no fairness: what is said of them is safety.

## Proofs

TLAPS checks the theorems below for every value of the constants that the named
assumptions allow; the assumptions are on the values a configuration or the code
gives (capacities are positive, names of different kinds differ).

| Theorem | Of | Along |
|---|---|---|
| `SSEProofs!TypeCorrect` | `TypeOK` | inductive by itself |
| `SSEProofs!ChannelsStayOpen` | `ChannelsOpen` | `ProtocolInv`: a channel is closed only after the notifier is done, and the notifier starts after the greeting |
| `SSEProofs!OrderPreserved` | `InOrder` | `QueueInv`: the queue holds the latest messages by number; `OrderInv`: what was sent has been fanned out |
| `SSEProofs!NamespacesIsolated` | `NamespaceIsolation` | subscriptions change only before anything is sent, and the log only grows |
| `SSEProofs!LossOnlyWhenFull` | `LossOnlyByOverflow` | `JoinedInv`, and `GivenStep`: a fan-out gives or skips exactly the matching message |
| `ApprovalProofs!TypeCorrect` | `TypeOK` | inductive by itself |
| `ApprovalProofs!DecisionsAreFinal` | `Final` | `LockInv`: between check and commit the record stays pending, because the mutex is held |
| `ApprovalProofs!DecidedAtMostOnce` | `DecidedOnce` | `AuditInv`: at most one operator is about to audit an approval, and none that is in the log; what a creator was told stays true, because decisions stay |
| `ApprovalProofs!StoreImplementsGate` | `ImplementsGate` | `LifetimeFacts` (a lifetime that fits is the one asked for); expiry is invisible to the mapping; a step of the store is a step of the gate or none |
| `WorkloadProofs!TypeCorrect` | `TypeOK` | inductive by itself |
| `WorkloadProofs!RecordsTruthful` | `AuditTruthful` | `AuditInv`: what a handler past its call has heard of is made, and what is made stays so |
| `WorkloadProofs!DryRunsArePure` | `PreviewsPure` | `PreviewInv` and `PreviewLogsInv`: a preview never passes the first stage |
| `WorkloadProofs!AnswersMatchRecords` | `AnswerMatchesRecords` | `RecordInv`: at each stage of its handler a request has left exactly the entries and events of the stages before |
| `AuditLogProofs!TypeCorrect`, `LatestKept` | `TypeOK`, `KeepsLatest` | what trimming leaves of a sequence (`TrimFacts`) |
| `AuditLogProofs!ReturnedWritten` | `ReturnedIsWritten` | `IdInv`: an id is in use by one writer at most, not in the file before its call has returned, and in the file once |
| `AuditLogProofs!QueriesExact` | `QueryExact` | `EntriesInv`: no two entries in the log have one id. `QueryOrigins`: after n turns the loop has the latest matches among the last n entries, as many as the limit allows |
| `AnalyticsProofs!TypeCorrect` | `TypeOK` | `SerialInv`: the serial number of a metric tells where it is stored |
| `AnalyticsProofs!PagesExact` | `PageExact` | `OrderFacts`: an order has each key once; `GatheredFrom`, `ResultsFacts`: the loop gathers each match once; `PageFacts`: a page is a piece of that |
| `AnalyticsProofs!ReportsCorrect` | `ReportsAgree`, under `PlainNames` | `KeyFacts`: the key looked up is the one that matches; `FilterCounts`: a length is a cardinality; `PartFits`: partial sums lie between n times the least and n times the greatest, and do not wrap if the sum does not |
| `MiddlewareProofs!TypeCorrect` | `TypeOK` | inductive by itself |
| `MiddlewareProofs!NoOverdraft` | `NeverOverdrawn` | `CreditInv`: a bucket, its tokens and the time since its refill, is worth less than a token more than the documented one |
| `MiddlewareProofs!BucketsStay` | `BucketsKept` | `InsertInv`: who inserts has found nothing |
| `MiddlewareProofs!SpacedNeverRefused` | `SpacedRequestsPass` | `SpacedInv`: a bucket is empty only if a request was decided since its last refill |
| `ChangelogProofs!TypeCorrect` | `TypeOK` | `Placed`: a publisher about to store has an entry left to store |
| `ChangelogProofs!NeverTwice` | `NothingTwice` | `ReleaseInv`: one publisher for a release; `SoundInv`: the slices publishers have read have nothing twice either, nor an entry whose turn has not come |
| `ChangelogProofs!AloneKept` | `AloneRecorded` | `RecordInv`: the entries of a release that met no other in its loop are also in every slice about to be stored, at the same places (`Kept`), and while it is being recorded at the end of the changelog (`AtEnd`) |
| `ChangelogProofs!EveryoneToldOnce` | `ToldOnce` | `SentInv`, `EligibleInv`, `SteadyInv`: nothing sent twice nor to a stranger, and who was on a channel all the time is still due or has been sent |
| `WebhooksProofs!TypeCorrect` | `TypeOK` | inductive by itself |
| `WebhooksProofs!NothingLostOrDoubled` | `NoneLostOrDoubled` | `KnownInv`, `WorkerInv`, `PlaceInv`: a job that is not settled is in one place, and each step moves it to one other |
| `WebhooksProofs!HeldUpOnlyByWorker` | `HeldUpByWorkerOnly` | the worker is in `deliver` exactly when a call of it is its own |
| `WebhooksProofs!DeliveryImplemented` | `ImplementsDelivery` | from where a job is to what has become of it (`JobStatus`): each step ends one delivery, makes some due, or is a stutter |
| `WebhooksProofs!AnswersAreHonest` | `AnswersHonest` | `WaitInv` (one caller for a trigger, as long as a goroutine of it runs), `HeardInv`, `AnsweredInv` |
| `MiddlewareProofs!KeysLockedOut` | `NobodyAdmitted` | inductive by itself |

Only model-checked are the five liveness properties (temporal reasoning under fairness
is beyond the prover): `PublisherProceeds`, `DisconnectUnregisters`, `DecisionAudited`,
`Answered` and `PublishReturns`. Every safety property of a run that passes is a theorem.

The loops of `AuditLog` and `Analytics` take an induction over their turns. The library's
induction theorems have an operator as parameter, which the provers cannot use; the
existence of a least number with a given property (`LeastNat`, from `WFMin`) is enough, with
properties written as sets of numbers: `Induction` and `InductionUpTo` follow, and
`LoopRuns`, that a loop has a value after each of its turns. They are in
both proof modules, each of which extends the module it is about.

The instance of `Changelog` has one subscription, for two take longer than a run may;
the proofs are for any number of them, of publishers and of entries. A module with a theorem has recursive functions at
most, and no `RECURSIVE` operator.

## Not modelled

Reading, cost and template handlers keep no state. Validation, suggestions and
API version negotiation are functions of one request. GraphQL, gRPC and log
streaming are stubs. `internal/ratelimit` is wired nowhere. Logging and CORS have
no state. Wording of answers, JSON, signatures of webhooks, percentiles that are
copies of the average, and the `RWMutex` around code that only reads are left out of
modelled parts. A data race is modelled where it decides an outcome (the
changelog's slice and its array, the limiter's map); the torn read of the version string
is not.

## Plan

Done: `SSE`, approvals with wrapped lifetimes, webhooks with their abstract service,
workload handlers, audit log, changelog, rate limiter, API keys, analytics and
startup, with the proofs above.

Each run is the whole of a component on one instance; a composition takes the place
of a run it contains. Next, in this order:

1. A composition of `WorkloadOps` with `AuditLog` and `SSE`: from a core's answer to
   the event in a client's buffer. The filter of a restart's event is "", which only
   clients of all namespaces match, and a delete without a namespace reaches everyone.
2. `Limits` for `internal/ratelimit` (check-then-create of a limiter, namespace quotas
   and their usage), once something in the server calls it.
3. Startup past its routes, when they are registered once each: that it listens, and
   that it ends although event streams are open (`main.go:323`).
