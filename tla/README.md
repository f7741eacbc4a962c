# Verification of the travel-safety services

TLA+ models, TLC runs and TLAPS proofs for the services of this repository.
Paths are relative to the repository root.

## 1. Inventory

| Component | State it keeps | Operations | Talks to |
|---|---|---|---|
| **agent** (`services/agent`) | per run: an asyncio task, the dict of the run, LangGraph's copy of it, a Redis stream of events, the Redis state key, a Redis cancel flag, a Postgres row | `start`, `_execute` (eight graph nodes), `cancel`, `_save`, publish | external-data, data-integration, risk-knowledge, decision-engine and recommendation in turn; the API through the stream and the state key |
| **api** (`services/api`) | Postgres: trips with revisions, travel requests with status, conversations and messages, idempotency keys (also in Redis); in memory: SSE slots | trips (If-Match), submit, poll (`_sync`), cancel, resume, apply-route, SSE bridge, rate limiter, reassessment consumer | agent (HTTP and its Redis stream), recommendation |
| **recommendation** (`services/recommendation`) | recommendations, subscriptions, deliveries (unique event hash), cooldowns; arq worker | build a response, evaluate an alert, claim, deliver, finish, revoke, refresh | api (Redis stream of reassessments), notification channels |
| **external-data** | provider cache with fill lock, one circuit breaker per provider | query context: every provider concurrently, then aggregation | weather, hazard, route and transport providers |
| **data-integration** | snapshots (idempotent by content hash) | normalise, deduplicate, quality gate, build snapshot | |
| **risk-knowledge** | model registry, knowledge index | assess risk, rank routes, retrieve guidance | |
| **decision-engine** | audit of decisions | policy evaluation, explanation by LLM or template | LLM provider |
| **python-common** | | HTTP client with retries, cache and lock helpers | used by all |
| web, infra, ops, training | user interface, deployment, offline scripts | | |

A request travels api -> agent -> external-data -> data-integration ->
risk-knowledge -> decision-engine -> recommendation.  The API learns of the
result by polling the agent's state key (`_sync`) or by following the stream.

### What is hard, and what makes each part correct

* **agent.**  A run's coroutine, its task and any number of cancel handlers
  interleave at every await; publishing and saving are separate; Redis or the
  process may fail between any two of them.  Correct when the stream has one
  outcome, a stored status was announced, a recommendation belongs to the
  request and trip revision it is published for, and every task ends.
* **api.**  Polls, cancels and late submissions write the same request row
  without a lock; idempotency is check-then-act.  Correct when a key starts
  one run, a terminal row stays, and the row agrees with the agent.
* **recommendation alerts.**  Workers, retries and revocations race for one
  delivery row and one cooldown.  Correct when nothing is delivered twice or
  after revocation, and an escalation is never suppressed.
* **external-data.**  Concurrent fills of one key, half-open circuits, stale
  entries of failures.  Correct when the fill lock excludes, a half-open
  circuit is decided, and a provider that works again is used again.
* **snapshot, risk, decision and response.**  Each computes a pure result, whose
  hazards are in their composition: what one service drops, merges or does not
  know must not turn into calm four services later; a repeated call must not
  store twice; a slow language model must not change the action.
* **trips.**  Handlers keep the copy they read across awaits, and a deletion does
  not change the revision.  Correct when every confirmed edit is in the history
  exactly once and a run describes a revision that existed.
* **consents.**  A consent is checked by one statement and relied upon by a later
  one, in another service.  Correct when nothing that needs a consent outlives it
  unnoticed.
* **SSE bridge.**  Connections break, the browser reconnects with its last id and
  the stream is read again from its start.  Correct when every event arrives
  once, in order, the last one included, and slots are given back.

The complete list of hazards, with lines and the properties that cover each,
is `PROJECT.json`, "hazards".

## 2. Plan

In this order; everything listed is built.

1. `AgentRun`: runs, cancellation, events and saves of the agent, with the
   abstract `RunOutcome` (what a follower of the stream is promised) and
   `RunRow` (what a poller of the stored state is promised).
2. `Assessments`: the API's submissions, polls, cancellations and watchers over
   the row of a request, on top of `RunRow`.
3. `AlertDelivery`: reassessment, evaluation, claim, delivery, cooldown and
   revocation, with the abstract `DeliveryOnce`.
4. `ExternalData`: the provider cache's fill lock and negative entries composed
   with the circuit breaker and the HTTP client's retries.
5. `Journey`: what the five services of a request compute (`Contracts`, `Sources`,
   `Snapshot`, `Risk`, `Policy`, `Advice`) and how one request goes through them.
6. `Api`: `Trips`, `Consents` and `EventStream`, the rest of the public API.

How the modules use each other:

    AgentRun  --INSTANCE-->  RunOutcome, RunRow        Assessments --INSTANCE--> RunRow
    AlertDelivery EXTENDS AlertChange --INSTANCE--> DeliveryOnce
    Journey EXTENDS Sources, Snapshot, Risk, Policy, Advice, each EXTENDS Contracts
    Api EXTENDS Trips, Consents, EventStream
    MC<X> EXTENDS <X> (instances for TLC);  <X>Proofs EXTENDS <X>, TLAPS

    PipelineProofs EXTENDS Snapshot, Risk, Policy, Advice, TLAPS
    ContractProofs EXTENDS PipelineProofs;  JourneyProofs EXTENDS Journey, ContractProofs

What would come next: the emergency directory's review cycle; cleanup of old snapshots.

## 3. The agent: `AgentRun`, `RunOutcome`, `RunRow`

### State and steps

A step is the code between two awaits, with the one Redis command it issues.
`pc[r]` names the await where the coroutine of run `r` is parked:

| `pc` | parked in | code |
|---|---|---|
| `accepted`, `registered` | `start()`: publishing run.accepted, first save | `runner.py:101-104` |
| `launched`, `marked_running` | the task before its `try` | `runner.py:133-150` |
| a node's name | the graph; `entered` tells `_enter` from the tool call | `nodes/core.py` |
| `returned`, `announced`, `saving` | end of the `try`: announce, save | `runner.py:156-168` |
| `failing`, `closing` | an `except` handler: publish, save | `runner.py:169-197` |
| `done`, `lost` | ended; died with the process | |

`RunManager.states[rid]` refers first to the dict `start()` built (`state[r]`)
and later to the dict the graph returned (`graph[r]`); `held[r]` tells which,
because `cancel()` marks whichever it finds.  `task.cancel()` sets `cancelReq[r]`;
the next resumption of the task is then `CancelledInTry` (handled: saved as
CANCELLED from the *first* dict) or `CancelledOutsideTry` (nothing handles it:
before the `try`, and inside the `except` handlers).  A cancel handler is three
steps: set the Redis flag; interrupt, mark and publish; save.

Answers of the five downstream services are arbitrary records of the right
shape: of another request, another revision, another action.  The graph's own
comparisons decide.

Faults, each switched on by a run: `"crash"` (the process dies, Redis and
Postgres stay), `"redis"` (reading the flag raises, a published event is lost),
`"save"` (a write of the row is lost).

### Left out

The tool-audit table; LangGraph's checkpointer; several progress events of one
node (one is modelled); reading the row and registering the dict in `start()`
are one step; a total timeout that strikes while a Redis command, not a tool,
is awaited; a second submission of the same request id (the API never sends one).

### Abstract specifications

`RunOutcome` sees the stream: accepted once, at most one outcome, a question may
only be withdrawn by a cancellation.  `RunRow` sees the state key: the status
moves forward, except that a cancellation somebody asked for may overtake
anything, even a stored result, and that a run cancelled before its task exists
is still started.  `RunRow` is weak because the code is; it is what
`Assessments` may rely on, and no more.

### Runs

| Run | Instance | Shows |
|---|---|---|
| `AgentRun_cancel` | 1 run, 2 cancel handlers, all requests, 2 revisions, 2 actions | one outcome on the stream (`ImplementsRunOutcome`) and silence after it, the task ends, a run nobody cancels settles, an announced cancellation is stored, stored statuses were announced, degradation shows |
| `AgentRun_carry` | 2 follow-up runs, 2 revisions | evidence carried from another run never crosses a revision (`RecommendationIsGrounded`) |
| `AgentRun_faults` | 1 run, 1 cancel handler, crashes, lost writes, failing Redis, a budget of 3 steps | the stored row (`ImplementsRunRow`) and the end of the task whatever fails |

Bounds: two cancel handlers are enough for every order of flag, interrupt and
save of two handlers against each other and the task; each handler may be used
again, so a run can be cancelled any number of times.  Two runs are enough for
evidence to be carried, and two revisions for it to be wrong.  The graph takes 6
steps and 5 tool calls, so the budgets 12 and 10 of `settings.py` never bind;
the faults run has 3 steps, so that they do.  `EmergencyIds` stands for the
clock modulo 10^6.

Fairness: a started coroutine and a started cancel handler are weakly fair: the
event loop resumes them when their await returns, and every await is bounded by
a client timeout.  Nobody has to submit or to cancel a run, and a crash need not
happen.  `CHECK_DEADLOCK FALSE` only in `AgentRun_carry`, whose two runs end and
which has nobody to submit another.

Four more behaviours were met while modelling, which no run shows.  A
cancellation that arrives inside the handler of a failure (`runner.py:178`) is
caught by nothing, so that the stored run stays RUNNING, although
`docs/handoffs/M03-travel-agent.md:28` expects CANCELLED; `RunRow` allows it.  A
cancelled task that had not reached its `try` publishes nothing
itself (the cancel handler does); a result announced on the stream may be
overwritten by a cancellation in the stored row; an emergency answer's
event id repeats every 1000 seconds (milliseconds modulo 10^6), so it says nothing of the
order (what such an id does to the follower is in section 8).

## 4. The API's assessments: `Assessments` on `RunRow`

### State and steps

Every endpoint is a coroutine `handler[h]`, parked at the await `pc` names, with
the locals it will use after it: that is where stale values live.

| `pc` | code in `assessments.py` |
|---|---|
| `lookup`, `table`, `replay`, `insert`, `remember` | `start`: Redis, the table, fingerprint, INSERT, SET NX |
| `submit`, `submitted`, `mark_failed`, `mark_queued`, `point_request` | `start`: POST to the agent and what follows |
| `ask`, `sync`, `point_rec` | `state` and `_sync` |
| `say`, `read_count`, `write_count` | `Conversations.add_message` |
| `forward`, `forwarded`, `mark_cancelled` | `cancel` |
| `give_up` | `ReassessmentConsumer._watch` after its last poll |

`set_status` updates by id and looks at nothing: whether a transition is legal
was decided before, from the row the handler read (`seen`).  The unique index on
`(user_id, idempotency_key_hash)` is the guard of `Insert`; `idem` is Redis, whose
entries may expire at any time.  `posted[r]` is the POST in flight, which may be
lost or arrive after the API gave it up.

Left out: validation of the trip (before every effect), audit entries, several
users, the resume endpoint's look at the old row.

### Runs

| Run | Instance | Shows |
|---|---|---|
| `Assessments_races` | 2 requests, 2 handlers of any kind, one key with two payloads, all faults | types; a key names one request and one payload (`ReplaysAgree`); the row invents no success and no cancellation (`RowReflectsAgent`); `SettledStays` |
| `Assessments_settles` | 1 request, 2 handlers, no faults | liveness: `PollSettles`, `ResultReachesConversation` |
| `Assessments_doc_terminal` | 1 request, 2 handlers, no faults | violation: a late write changes a terminal row |

Bounds: a stale value needs a reader and a writer, two handlers.  Handlers are
used again after they return, so any number of calls follow each other.  Two
requests are as many as one key could be given to.

Fairness: every await returns (weak fairness of the handlers' steps and of the
agent's work).  The web client asks every two seconds while a run is open
(`useRun` in `apps/web/features/assessment/hooks.ts`), and one request follows
the next although all handlers may be busy when it fires: strong fairness of
beginning a poll.

## 5. Alerts: `AlertChange`, `AlertDelivery`, `DeliveryOnce`

`AlertChange` is `assess_change` and the cooldown rules of `domain/alerts.py` as
operators over the content of two recommendations.  `AlertDelivery` composes the
worker's refresh, the API's consumer and its watch, and `AlertService.evaluate`.
One watch and the evaluation it calls are one process (the HTTP call between
them is synchronous); watches interleave at every await:

| `pc` | code |
|---|---|
| `watching` | `_watch` polls the run (`alerts_consumer.py:126-135`) |
| `evaluate` | `evaluate` reads subscriptions, cooldowns and the time, once |
| `claim`, `send`, `finish`, `mark` | per subscription: `claim_delivery`, `channel.deliver`, `finish_delivery`, `mark_subscription` |
| `lost` | the process stopped |

`record[s][e]` is the delivery log (unique per subscription and event hash);
`messages[s]`, a history, is what left through the channels: a channel that
answers FAILED may have sent the message.  Time is a count of half hours, which
the cooldowns (`COOLDOWN_MINUTES`) are multiples of.

`DeliveryOnce` is the promise to a subscriber: per event one claim, at most one
message, sent while the claim is pending, and an outcome decided once.

| Run | Instance | Shows |
|---|---|---|
| `AlertDelivery_races` | 1 subscription, 2 watches, 2 recommendations, 2 refreshes, crashes, failing agent and channels | types, `ImplementsDeliveryOnce`, `RevokedStaysSilent`, `PendingIsResolved` |
| `AlertDelivery_doc_escalation` | 1 subscription, 1 watch, 5 refreshes | violation: an escalation to a danger that was already announced once is suppressed for ever |

Bounds: two watches race for a claim; a lost watch is not used again, so each run
has at most two crashes.  Subscriptions share nothing but the recommendation, so
one is enough; the theorems hold for any number.  `MaxRefresh` bounds the
entries, `MaxClock` the time.

Fairness: an evaluation that was asked for goes on (`WF` of its steps).  Nothing
else has to happen.

Left out: the API's half of consents (it is in `Consents`), one consent revoking several
subscriptions in one statement, feedback and its review queue, message formats.

## 6. External data: `ExternalData`

One provider of the external-data service.  A task is a slot of the query
service's semaphore (`provider_max_concurrency`) with the guarded call that has
it, parked at an await:

| `pc` | code |
|---|---|
| `lookup`, `lock`, `wait` | `get_or_fetch`: the entry, SET NX, up to twenty more looks |
| `call` | `BaseAdapter._call`, which begins with `_check_circuit` |
| `http` | `ResilientClient.request` with its retries; the answer is recorded in the circuit |
| `store`, `release` | the entry (records, or a negative one if the error is worth retrying); DELETE of the lock |

The lock has no owner in the code: its value is `"1"` and anybody may delete it.
`held` is `"yes"` from a successful SET NX to the moment the key disappears, and
`"lost"` when it disappeared before the task released it, or when Redis failed
and the task took itself for the holder.  `up` is the outage: while it lasts an
answer may be anything, after it answers are good.  Timers fire at any moment:
the 15 seconds of the lock, the TTLs, `circuit_open_seconds`, the waiter's
patience and the deadlines of the client are choices.

A half-open circuit lets more than one request through until the first is
answered: the status is set before the probe's answer is known, and the comment at
`adapters/base.py:114` ("allow one probe") does not hold for callers in between;
`ProbePending` says what is kept.

Left out: the aggregation of capabilities into a context (it is in `Sources`),
several requests of one fetch (GTFS feeds, OAuth tokens), a service without Redis, the interruption
of a handler at shutdown.

| Run | Instance | Shows |
|---|---|---|
| `ExternalData_outage` | 2 tasks, a covered and an uncovered query, threshold 2, 1 retry, failing Redis, 1 crash | types, `LockExcludes`, `ProbePending`; liveness: `CallsEnd`, `ProviderRecovers` |

Bounds: two tasks race for one lock or one half-open circuit; both are used again,
so any number of calls follow each other.  Threshold 2 has a state between UP and
DOWN; failures beyond it are not counted.

Fairness: awaits return, entries expire and the circuit's open time passes
(`WF`); a covered query is asked again and again although its slots may be
busy (`SF`).  A provider need not recover: `ProviderRecovers` assumes it.

## 7. One request through five services: `Journey`

### Modules and state

| Module | Code | What it computes |
|---|---|---|
| `Contracts` | `packages/contracts` | the records the services exchange, as sets; orders of severity, authority and risk |
| `Sources` | `services/external-data`: adapters, `query_service.py`, `canonical.py`, `dedup.py` | `ContextOf`: routes per mode, weather sampled along the first route, disasters in the box, transport, degraded and unavailable capabilities |
| `Snapshot` | `services/data-integration/app/pipeline`, `domain/quality.py` | `BuildSnapshot`: validation, clusters of reports of one event and which survives, exposure of each route, features, quality gate |
| `Risk` | `services/risk-knowledge/app` | `EvidencePackage`: loading of the model, levels and overrides, insufficient data, ranking, retrieval |
| `Policy` | `services/decision-engine/app` | `CheckConsistency`, `DeriveFacts`, the thirteen rules, `Decision`, what is checked of an explanation |
| `Advice` | `services/recommendation/app/builders`, `directory` | `BuildResponse`: primary and alternatives, limitations, status; contacts that are due |
| `Journey` | the agent's nodes `core.py`, `snapshot_repo.py`, `repositories/repo.py`, `llm/client.py`, `http.py` | the order of the stages and what can go wrong between them |

The first six have no state: they are operators on records, in the units
`Contracts` explains (percent, minutes, kilometres, ranks).  Python's `sorted` is
`Sorted`, by tuples that `Precedes` compares; a list with some records left out is
`Kept`; the events on a route are a set (`Hits`), since nothing reads their order.
Positions are points
and routes are polylines of points with equal steps; an area is a centre with a
radius.  What a probability is for given features is the model's weights and is
left to the instance.  A value that may be missing (None) is a set with at most one
element (`Optional`).  The reasons, limitations and services that the code writes as
strings with details behind them (`SCORE_BELOW_BLOCK_THRESHOLD:0.31<0.4`) are the words
themselves, members of one vocabulary each (`GateReasons`, `PackageLimits`,
`DecisionLimits`, `Services` and the others): a record that invents a word, or puts one
where another service's belongs, is not of its type.  Left out because they cannot
fail here: the checks of a transport's delay and times (`validate.py:89-98`), since a
transport status carries none, and those of the trip revision and the feature schema
(`evaluator.py:52,62`), since a request has one revision and the services one schema.
The DELAYED probe of a route (`AtProbe`, `Improves`) is there, but no snapshot has its
features: the builder never fills `features_delayed`.

`stage` is where the agent's graph is.  Two stages call a service that stores a
row: there `attempt[s]` is the HTTP attempt the agent waits for, `handler[s][a]`
what the service does for attempt `a` (looks, inserts, commits), `table[s]` the
committed rows.  A connection that breaks leaves its handler running beside the
handler of the second attempt.  `llm` is the explanation in progress with the
seconds it took; the agent's read timeout runs beside it.

### Runs

| Run | Instance | Shows |
|---|---|---|
| `Journey` | 4 trips, 17 states of providers and roads, 2 texts, broken connections, timeouts, crashes | the records fit the contracts (`TypeOK`); `NeverOnClosedRoute`, `OfficialAlertNeverNormal`, `UnknownWeatherIsNeverLow`, `FailuresAreVisible`, `ExplanationIsLocked`, `StoredOnce`, `StagesAgree`; no request stops without response or error (deadlock is checked, `Ended` being the only stutter) |
| `Journey_doc_warning` | 1 trip, 1 day, no fault | violation: a red flood warning that is merged into a fresher record of another provider raises no override |

Bounds.  Providers fail or report one at a time and in the combinations that
meet in a rule: two reports of one flood, far apart or close in time (merged or
not), a quake and a red alert, a closure under heavy weather.  Closures are on
the direct road, on the detour, now and later than the trip.  Trips: by car; by
car with a trained model and no index; by train and car with a model that was
altered; a flight beyond the forecast.  Two attempts are all `max_retries` gives,
and the waits 1 and 12 are on both sides of the read timeout after one and after
two attempts.

`ContextsAssumption` says of the instance what the code gives every instance: an
answer that reaches data-integration has passed the contract's validation, and two
candidates of one `route_id` are one road, because `deterministic_id` is a uuid5 of
the provider, the profile or mode, the place in the answer and the content.  TLC
evaluates it on the run's instance.  It also says that a served model has a probability
between 0 and 1 for each candidate (`predict_proba`), which is all that is assumed of
the model.  `InputsAssumption` says that trips, passages and directories fit their
schemas: they have passed pydantic (`TravelRequest`, `DirectoryRecord`) or were made by
the indexer (`KnowledgeIndex._payload`).

`ClosuresStandAlone` is no assumption of the module but the hypothesis of one theorem
(section 9), and `MCJourney` asserts it of its instance.  A closure stands alone when it
is valid, nobody else's record has its id or content, and it shares no cluster with
another.

`UnknownWeatherIsNeverLow` asks for a place with a forecast for every four expected
positions, not two, although LOW needs half of them covered: `match_weather`
(`enrich_geospatial.py:318`) counts a position as covered by a forecast at half a
step or less, so that one forecast exactly midway covers both of its neighbours.

No liveness is stated for `Journey`.  Its steps only go forward, each of them is
bounded by a client timeout, and a request that stands still is a deadlock, which
TLC excludes.

Left out: parsing of the providers' formats, Thai and English wording, the
embedding search behind `Retrieve`, the audits, feedback, geocoding and nearby
places.

### What the model shows of the code

None of the following contradicts a document in so many words, unless one is
named, and no run is about it.

* `features_delayed` is never filled by data-integration, so the DELAY rules
  `HIGH_TIME_DEPENDENT` and `MEDIUM_TIME_DEPENDENT` cannot match; the gate's BLOCK
  for weather and events both unavailable (`quality.py`) cannot either, and no
  adapter of this repository sets `closure`.
* Alternatives are rated with the weather features and coverage of the primary
  route (`inference.py:97`): one may be LOW although nothing is known of its
  weather; `UnknownWeatherIsNeverLow` is about the headline level.
* Under a closure CHANGE_ROUTE may select an alternative that is HIGH, and with
  "materially safer" one that is UNKNOWN.  A HIGH trip without a safer route is
  AVOID; the same trip with a closed original and any usable alternative is
  CHANGE_ROUTE, although `decision-table.yaml:109` says that an official
  restriction can only move the action towards AVOID.
* The policy selects by score, the ranking recommends by cost: the selected
  alternative need not be the RECOMMENDED one.
* The window of the trip is the primary's; a slower alternative is judged
  against it.  Trips of several modes have one ORIGINAL per mode, and weather is
  sampled on the first route only.
* Of two official closures of one authority that two providers report within 50 km and
  three hours of each other, `_resolve` (`deduplicate.py:134`) keeps the place of the one
  that ranks higher; the other is neither an event nor an official alert any more, and
  the road over its place may be offered as clear.  On an instance with such a day, TLC
  finds `NeverOnClosedRoute` violated.
* A merged record may be raised to the severity of an official member; from UNKNOWN to INFO
  that makes its buffer smaller, because `EVENT_BUFFER_KM` is wider for UNKNOWN.
* `response.py:93` says hazards that are not official are still listed; `seen`
  only ever holds official alerts.
* Limitations are cut at twelve with ESCALATION_REQUIRED last.  The validation
  record keeps the flags of the failed text when the template is used.
* The agent's read timeout (12 s) is as long as one attempt of the language
  model, which may make two, and the call is not repeated: a slow model fails the
  run (`DecisionTimesOut`) where the runbook
  (`IMPLEMENTATION_PLANS/09...:254`) expects the template.

## 8. The rest of the public API: `Api`

`Api` extends three modules that share the user and nothing else, no variable and
no guard.  A behaviour exercises one of them (`group`), so that TLC does not
multiply what is independent.

**`Trips`** (`api/v1/trips.py`, `repositories/repo.py`).  `editor[e]` is a handler
with the copy of the trip it read; `pc` is its await:

| `pc` | code |
|---|---|
| `write` | `patch_trip` before `update_revision` |
| `advice`, `apply` | `apply_route`: the recommendation, `update_revision` |
| `soft_delete` | `delete_trip` |
| `insert`, `submit`, `point` | `AssessmentService.start` with the copy: INSERT, POST to the agent, `set_fields` |

`version[n]` is a history of how revision `n` came about.

**`Consents`** (`api/v1/me.py`, `api/v1/facades.py`, `repositories/repo.py`).
`asker[a]` is a handler: a revocation finds, closes, refuses, lists and then tells
the recommendation service consent by consent (`close`, `list`, `tell`) or deletes
the profile (`purge`); `subscribe` and `put` have checked a consent and are about
to rely on it; `erase` closes the account.  `unreached`, `kept` and `sub[s].late`
are histories of what the code gives up, and are exactly what
`NothingOutlivesConsent` excuses.

**`EventStream`** (`application/sse.py`, `api/v1/runs.py`, `useRunEvents.ts`).
`stream[s]` is a response's generator with its cursor, last id and batch; `slots`
is the guard's count; `browser` is the EventSource with the ids it received; `log`
is the run's stream.  `Emit` publishes an event with the next id.  `EmitEmergency`
publishes the end of an emergency answer, whose id `_event` (`runner.py:245`) takes
from the clock modulo 10^6 (`ClockIds`) and which therefore may not be above the ids
before it (`Overtaken`).  A cancellation may be announced twice (`MayFollow`), as
`SilentAfterTerminal` of `AgentRun` shows.

An emergency's end that is overtaken is skipped by `sse.py:75` on this and on every
later connection: `terminal` stays false, the stream runs to its deadline, its
`run.failed` has no id and is dropped by the web client, and the browser reconnects for
ever.  The runbook (`IMPLEMENTATION_PLANS/09_INTEGRATION_ACCEPTANCE_RUNBOOK.md:258`,
"reconnect Last-Event-ID, no missed terminal event") and `publisher.py:3` ("Stream ids
are monotonic so the API can replay with Last-Event-ID") say otherwise.  With
`~Overtaken(i)` taken out of its premise, TLC finds `TerminalReaches` violated by such a
run.  The two properties of the stream name that one event as the one left out:
`ReceivedInOrder` says that it is never received and that nothing else a connection has
read is left out, and `TerminalReaches` promises every other end.

The stream is not trimmed (`maxlen` 500, more events than a run has) and does not expire
(`state_ttl`) while it is followed; and an event's id and its place in the stream are
given in one step, so that a cancellation's event never overtakes one of the task's that
is still on its way to Redis.

| Run | Instance | Shows |
|---|---|---|
| `Api` | 2 editors, 2 places, 3 revisions; 2 handlers, 2 consents, 1 subscription; 2 connections, 3 ids, clock ids 0 and 2, 1 break; failing services, dying handlers, lost events | types; `RevisionsAgree`; `NothingOutlivesConsent`; `ReceivedInOrder`; `SlotsMatchStreams`; liveness: `TerminalReaches` |

Bounds: stale copies and checks need a reader and a writer; both handlers are
used again.  Three revisions let a retry with an old ETag meet a later edit.  Two
consents are one that was given and one that refuses it.  Two connections with one
break have an old generator beside the new one.  The clock ids 0 and 2 come below, at and
above the ids before them.  Places are alike, so `MCApi`
starts with one of them.  `CHECK_DEADLOCK FALSE`: callers may stop calling.

Fairness, for the stream only: the browser reconnects and is served or refused,
and a generator that runs goes on (`WF`).  A read returns within the poll
interval, which is far shorter than the deadline of a stream, so not every stream
can end before it has read (`SF` of `Read`).  Nobody has to edit or to revoke.

What the model shows of the code, beside what the properties say:

* apply-route raises the revision before it starts the assessment.  When the
  start fails or is refused the route stays applied and the retry gets 412, where
  `IMPLEMENTATION_PLANS/02_API_BACKEND_IMPLEMENTATION.md:99` says it always
  starts one.
* A patch that races a deletion writes the deleted row; its status may become
  COMPLETED with `deleted_at` set.
* The comment at `me.py:108` expects a retention job to retry a failed
  revocation; there is none.  A subscription made by a handler that checked
  before a revocation survives it, and an expired consent is enough for one.
* The deadline's run.failed has no id, so the client drops it and reconnects.
  EventSource gives up for good on 429.  A client that reconnects with the id of
  the terminal event is not told again that the run has ended.

Left out: heartbeats, the polling bridge without Redis (it skips in the same
way), several users, `LOCATION_ONCE`, the contents and encryption of the profile,
audits, listings.

## 9. Proofs

All for every value of the constants that satisfy the named assumptions.

| Theorem | Says |
|---|---|
| `AgentRunProofs!TypeCorrect` | `Spec => []TypeOK` |
| `AgentRunProofs!GroundedCorrect` | `Spec => []RecommendationIsGrounded` |
| `AgentRunProofs!AnnouncedFirst` | `"redis" \notin Faults => (Spec => []StoredWasAnnounced)` |
| `AgentRunProofs!DegradationCorrect` | `Spec => []DegradationIsShown` |
| `AgentRunProofs!RowImplemented` | `Spec => ImplementsRunRow` |
| `AgentRunProofs!TerminalIsSilent` | `Reliable => (Spec => SilentAfterTerminal)` |
| `AgentRunProofs!OutcomeImplemented` | `Reliable => (Spec => ImplementsRunOutcome)` |
| `AssessmentsProofs!TypeCorrect` | `Spec => []TypeOK` |
| `AssessmentsProofs!ReplaysCorrect` | `Spec => []ReplaysAgree` |
| `AssessmentsProofs!SettledCorrect` | `Spec => SettledStays` |
| `AssessmentsProofs!ReflectsCorrect` | `Spec => []RowReflectsAgent` |
| `AlertDeliveryProofs!TypeCorrect` | `Spec => []TypeOK` |
| `AlertDeliveryProofs!DeliveredOnce` | `Spec => ImplementsDeliveryOnce` |
| `AlertDeliveryProofs!RevokedIsSilent` | `Spec => RevokedStaysSilent` |
| `ExternalDataProofs!TypeCorrect` | `Spec => []TypeOK` |
| `ExternalDataProofs!LockExcludesCorrect` | `Spec => []LockExcludes` |
| `ExternalDataProofs!ProbePendingCorrect` | `Spec => []ProbePending` |
| `JourneyProofs!JourneyStoredOnce` | `Spec => []StoredOnce` |
| `JourneyProofs!JourneyExplainsTheLocked` | `Spec => []ExplanationIsLocked` |
| `JourneyProofs!JourneyShowsFailures` | `Spec => []FailuresAreVisible` |
| `JourneyProofs!JourneyStagesAgree` | `Spec => []StagesAgree` |
| `JourneyProofs!JourneyHeedsKeptAlerts` | `Spec => []OfficialAlertNeverNormal` |
| `JourneyProofs!JourneyWeatherIsSeen` | `Spec => []UnknownWeatherIsNeverLow` |
| `JourneyProofs!JourneyHeedsTheSnapshot` | `Spec => []NeverOnKeptClosure` |
| `JourneyProofs!JourneyNeverOnLoneClosure` | `Spec => []NeverOnLoneClosure` |
| `JourneyProofs!JourneyNeverOnClosedRoute` | `ClosuresStandAlone => (Spec => []NeverOnClosedRoute)` |
| `JourneyProofs!JourneyTypes` | `Spec => []TypeOK` |
| `ApiProofs!TripsTyped`, `TripsAgree` | `TripsSpec => []TripsTypeOK`, `[]RevisionsAgree` |
| `ApiProofs!ConsentsTyped`, `ConsentsRespected` | `ConsentsSpec => []ConsentsTypeOK`, `[]NothingOutlivesConsent` |
| `ApiProofs!StreamTyped`, `StreamInOrder`, `SlotsCounted` | `StreamSpec => []StreamTypeOK`, `[]ReceivedInOrder`, `[]SlotsMatchStreams` |
| `ApiProofs!ApiTyped`, `ApiSafe` | `Spec => []TypeOK`, and the four properties above for `Api`'s `Spec` |

* `GroundedCorrect`.  The events alone are not inductive.  `GroundedInv` adds what
  the run has collected: the snapshot is of the run's revision, the package of
  that snapshot, the decision of this run and that snapshot, the recommendation
  of that decision; and a node that uses a piece is only reached with it.  Most
  steps are `Harmless`; the nodes that are not are proved one by one.
* `AnnouncedFirst`, `DegradationCorrect`.  `AnnouncedInv`: only the last node makes
  a recommendation, and its status tells whether a service was degraded; what
  either dict or the row says was announced, a success of the graph's dict as soon
  as a cancel handler may see it.  The first theorem needs that no event is lost,
  which is its assumption; the second does not.
* `RowImplemented`.  `OrderlyInv`: where the task is (`Stage`) bounds the statuses
  of the dict, of the graph's dict and of the row, nothing is cancelled unless the
  flag is set, and past the first node a run that is not interrupted has no
  unsaved cancellation.  So every save is a move of `RunRow` (`RowMoves`).  Since
  `Assessments` takes `RunRow` for the agent, what is proved of the API's side
  holds of the agent that `AgentRun` describes.
* `TerminalIsSilent`, `OutcomeImplemented`.  `ToldInv` says what a run's stream tells
  of its task: after a completion or a failure the task is past its announcements,
  with the dict it holds saying the same; after an announced cancellation it is
  interrupted, or has not entered its first node and will find the flag set; after
  a question only the save is left.  `Reliable` is
  `"redis" \notin Faults /\ MaxSteps > 0`, and both halves are needed: `_enter` takes
  a step of the budget (`max_agent_steps`) and then reads the cancel flag from
  Redis, so that with a budget of zero, or with a Redis that fails, a run whose
  cancellation has been announced raises another error in its first node and
  announces `run.failed` after it.  The setting is an integer without bounds whose
  default is 12.
* `ReflectsCorrect`.  `ReflectInv`: what a parked handler has read of the agent
  stays true, unless somebody cancels, because a success stays one (`Grows`).
* `ReplaysCorrect` and `SettledCorrect` share `Inv`.  Its heart is `Sound`: what
  the locals of a parked handler know of the rows (a submission's request has
  its key and, once started, its payload), with the uniqueness of keys and the
  fact that Redis only repeats what the table says.  Every handler step is
  `Moves`: new locals that are sound, and that are about to write a row only if
  the old ones were or if the row was just read open.  `SettledCorrect` follows
  from the second half, `ReplaysCorrect` from the first.
* `DeliveredOnce`.  `ClaimInv`: a watch between claim and outcome holds the only
  pending claim of its subscription and event, and knows from its program
  counter whether the message left.  Steps that hold nothing are `Aside` and
  stutter in `DeliveryOnce`.
* `RevokedIsSilent`.  `DoingInv`: only an evaluation has subscriptions left to do, and
  the one it is at is among them.  A step takes on nothing but active subscriptions
  (`Takes`), so a revoked one is only with evaluations that had read it before.
* `LockExcludesCorrect`, `ProbePendingCorrect`.  `IInv` adds `HeldExists`: a lock
  that a task still holds exists, so that SET NX succeeds only when nobody holds
  it.  Most steps are `Quiet`: one task moves and keeps what it holds or gives
  it up.  An answer never leaves the circuit half open (`AnswerDecides`).
* `Journey`.  What the services compute stays opaque except for the few fields an
  argument follows.  `Rows`: at most one handler of a store holds the key, only
  while nothing is stored, and a handler is done only when something is.  `Locks`:
  whatever is chosen as text, from the first to the last attempt, names the
  action of the package's rule.  `Noted`: a failure that has happened is in what
  the next service was given, stage by stage.
* `JourneyStagesAgree`, `JourneyHeedsKeptAlerts`, `JourneyWeatherIsSeen`,
  `JourneyHeedsTheSnapshot`.  Here what the services compute is followed.
  `PipelineProofs` states, for any context, model, index and text, what each service
  makes of what it is given: `Exposed` (a snapshot's routes are exposed to exactly the
  events that meet them), `WeatherSeen`, `Packed` (the ranked routes are the
  snapshot's, each with an assessment, HIGH under a severe official alert), `FactsFrom`,
  `DecisionFrom`, `SelectedWell`, `ResponseFrom`, and as their sum `Heeds`.  They rest
  on three groups of lemmas.  `SortedIsBijection`: sorting by distinct tuples loses and
  repeats nothing, so that a route survives sorting and ranking.  `FirstRuleIs`: what
  the action of the first matching rule of the thirteen says of the facts, closures
  first.  `CoverageCounts`: a place with a forecast covers at most two expected
  positions, by an injection of the positions into places and parities.
  `Made` carries these relations through the protocol: `Chain` relates the records
  that are there, `Staged` says which are there at each stage and why a request
  failed, `Served` that a store's handler has a context with a route or a decision
  that fits.  TLC checked `Made` and `Heeds` on the instance of the run before they
  were proved.  The proof uses `ContextsAssumption` (section 7).
* `JourneyNeverOnLoneClosure`, `JourneyNeverOnClosedRoute`.  `ComputedNow` is the
  invariant that each record *is* what its service computes of the records before it,
  for some answer of the outside world; `Made` says what those records say of each
  other.  What is left is a fact about deduplication, `SnapshotKeeps`: a valid report
  that is the only one of its id and content and shares a cluster with none is in the
  snapshot as it was reported.  It goes through both folds of `deduplicate`: a report
  that is in the list stays there when another record is versioned or joins a cluster
  (`UniqueEventsKeep`, `DeduplicateKeeps`).  Then the closure is in the snapshot, and
  `JourneyHeedsTheSnapshot` applies.  The first theorem has no hypothesis but says less:
  it is about the closures that stand alone.  The second is the run's property, for
  every instance whose closures all do.
* `JourneyTypes`.  One theorem per service says that its record fits the next one's
  contract: `SnapshotFits`, `PackageFits`, `MadeDecisionFits`, `ResponseFits`, each from the
  type of what it is given and, where the record depends on it, from what the records
  say of each other: a snapshot that fits needs a context with a route, an assessment a
  probability, a decision the assessment of each route it chooses from.  The work is in
  the numbers.  A quality's score is a rounded mean of a mean, so that it has to be shown
  that the mean of percentages is one (`ContractProofs`, "Records, their values and sums");
  a coverage is the share of the expected positions that are covered, which are a subset of
  them; an exposure's score is cut at 100.

How folds are proved about.  The sums, clusters and lists are folds of the community
modules, which are a CHOOSE of a function on sets of positions.  `FoldExists` shows that
such a function exists for a step on any set `T`, and `FoldRuns` that the fold is the last
value of a run with one step per position.  That every value of a run has a property
then follows from `UpTo`, an induction that is proved by a least counterexample, since the
library's induction theorems take an operator.  What a fold preserves is proved in this
way; what it computes is not needed.
* `TripsAgree`.  `Good` is what a handler may rely on after its awaits: its copy is
  of a revision that no later write alters, because a write only makes the next
  revision.  That is what makes a late write with the right ETag a correct one.
* `ConsentsRespected`.  `SubsAnswered` and `ProfileAnswered`, with the fact that
  what a handler closes or tells is of its type, so that a revocation under way
  answers for every subscription made under the consents it closes.
* `StreamInOrder`.  Ids grow in the stream, but for a completion, and nothing follows
  that (`Ordered`); `Last-Event-ID` is the id of the last event received; what the one
  connected generator has read and no longer holds, the browser has, or its id is not
  above those before it (`Delivered`).  It holds for any clock ids.  Old generators may do what they like.
  `SlotsCounted` counts the running ones, one more or one less per step.

* `ApiTyped`, `ApiSafe`.  `Api` takes one of its three groups at a time; the group
  that does not move stutters, so that the parts' invariants hold together.

Only model-checked: every liveness property (`TaskEnds`, `RunSettles`,
`CancellationIsStored`, `PollSettles`, `ResultReachesConversation`, `PendingIsResolved`,
`CallsEnd`, `ProviderRecovers`, `TerminalReaches`), since temporal reasoning from fairness
is out of the prover's reach.  Every other property that a run finds true is also a
theorem, `NeverOnClosedRoute`, `StoredWasAnnounced` and the two properties of the streams
under the hypotheses in the table.

## 10. Findings

Each is a run that TLC must find violated; `PROJECT.json` quotes the documents.

1. A terminal request row changes (`Assessments_doc_terminal`).
2. A repeated escalation is suppressed as a duplicate
   (`AlertDelivery_doc_escalation`).
3. A severe official warning that is merged into a fresher record of the same
   authority raises no override, and the answer is NORMAL on the flooded road
   (`Journey_doc_warning`).

The end of an emergency answer that the bridge skips contradicts the runbook as well; it
has no run of its own, and section 8 says how the properties of the stream deal with it.

## 11. Not modelled

Authentication (token validation, a key cache) and the rate limiter (one counter
nothing else reads) keep no state another part depends on.  The web pages,
deployment descriptions, operations and training scripts have no protocol.  The
numerical cores (the trained model, embeddings, geodesy) are functions whose
values are chosen by the instance.  `PROJECT.json` says for each component what
part of it is left out.
