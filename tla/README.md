# Supply Chain Tracker: TLA+ models, checks and proofs

The system is a set of Python services (FastAPI handlers and asyncio workers
over asyncpg, Redis and Kafka) that follow a shipment from its creation to a
blockchain record. Its hard part is not any single function but what happens
between two `await`s: a handler and a worker that write one row, an event that
is delivered again, a step that raises after half of its effects. This project
models those steps, checks them with TLC on small instances and proves the most
important facts for all instances with TLAPS.

Paths below are relative to the root of the repository.

## The system

| Part | State | Operations | Talks to |
|---|---|---|---|
| Saga coordinator (`services/saga_coordinator`) | table `saga_instances`: status, warehouse, delivery, failed step | create, PATCH of the context, `complete_saga` (no caller), the compensation worker with `trigger_compensation` and `fail_saga` | consumes the failure events, publishes the compensating commands |
| Shipment service | tables `shipments`, `items` | CRUD, status changes, quantities, `shipment.cancel` worker | consumes `shipment.commands`, publishes shipment events |
| Warehouse service | tables `warehouses`, `inventory_records` | CRUD, status changes, `inventory.release` worker | consumes `inventory.commands` |
| Delivery service | tables `couriers`, `deliveries` | CRUD, start, complete, reassign, `courier.unassign` worker | consumes `delivery.commands` |
| Blockchain service | table `blockchain_records`, the nonce counter in Redis, the chain | registration of events, confirmation monitor, nonce resync | consumes shipment events, publishes `BlockchainVerified` |
| Auth service | tables `users`, `refresh_tokens` | register, login, refresh | stateless tokens, no messages |
| Queue adapters (`libs/libs/messaging`) | topics, offsets, the running flags of the in-memory consumers | publish with retries, consume | used by every service |
| Cache adapters (`libs/libs/cache`) | values and expiry times | get, set, delete | used by no service |
| Auth library, health, middlewares, observability, value objects | none that is shared | validation, logging, metrics | |

What makes each part correct, and what is hard about it:

- **Saga coordinator.** A failure ends in a compensation that is complete,
  ordered and done once; a saga recorded as failed was compensated. Every write
  is a read, an `await` and an upsert of the whole row, so handlers, the worker
  and other instances overwrite each other's columns; an event may come again;
  a handler may stop half-way.
- **Command workers** (shipment, warehouse, delivery). A command that arrives
  twice does no more than one that arrives once, and a compensation is not
  undone by a handler that wrote back what it read before.
- **Shipments, items, deliveries, couriers, stock, warehouses.** Rows refer to
  rows that exist, although every handler checks in one statement and writes in
  a later one; what was deleted does not come back from a stale copy; a quantity
  counts every change. Of an order of statuses the code enforces little:
  `shipped` stock changes no more, a delivered delivery is not started or
  reassigned, and a confirmed one may be put on the road again.
- **Blockchain.** Every transaction that was sent is on record, nonces leave no
  gap although several workers and resyncs write one counter, a record says
  `CONFIRMED` only of a transaction deep enough, and is then announced.
- **Auth.** Names are unique although two requests pass the same check; a token
  that was exchanged is revoked, and a login is not lost to its own refreshes.
- **Queue adapters.** What is published reaches every consumer in order; the end
  of one consumer stops only those that share its flag.

`PROJECT.json` lists the hazards at their lines, with the properties that watch
over them. Where the code does fall into a hazard, the property excepts the
window in which it does and says that there is no other; the hazard's note names
the exception.

### What the repository does not wire up

Some of the code cannot run as it stands. The models describe what the code
does once it can, and say here what is in the way:

* `ck_saga_status` and the entity disagree on the case of the statuses, so no
  saga can be stored. The set of admitted statuses is the constant
  `CheckedStatuses`: run `saga_check` gives it the values of the migration and
  shows the refusal, every other run the values the entity writes.
* `EventQueueProvider.startup` creates no adapter when `use_kafka` is set, so
  the coordinator and the command workers would be handed `None`. Their models
  take the Kafka adapter, which the documentation describes and the blockchain
  service uses; the in-memory adapter has a model of its own, `EventQueue`.
* `ck_delivery_status` and `ck_shipment_status` admit upper-case statuses too,
  several of which the entities do not have. `CheckedStatuses` of
  `DeliveryService` and `ShipmentService` takes the place of the constraint.
* `_row_to_entity` of the shipment repository builds a `Shipment` without its
  `departure_date`, for which the table has no column: every get of a stored
  shipment raises. `RowsReadBack` of `ShipmentService` says whether it does not.
* The blockchain worker calls `UUID(event.aggregate_id)` on a value that is a
  `UUID` already, which raises, so every event is logged and skipped.
  `TakesIds` of `Blockchain` says whether it does not. The topics it listens to
  are not the ones the handlers name, and the receipts of the mock gateway have
  no status, so that nothing is settled with it.
* The handlers of the other services call `publish_event(event, topic=...)`,
  which the port does not accept, and nothing in the repository constructs the
  three failure events. Their producers are therefore external to the model:
  any failure may be reported at any time the run allows. A handler that raises
  there has committed its row: the write stands and the event is missing. Nothing
  in the models of these services depends on the event.
* `complete_saga` has no caller. It is modelled as an operation of the service.
* `courier_repository.save` passes `FullName` and `ContactInfo` objects, and
  `shipment_repository.save` passes `Location` objects, where the statement takes
  text, which asyncpg refuses. The models let such a save succeed, as it does once
  the values are unwrapped; that it raises is among the behaviours of
  `RequestAborts`.

## Modules

| Module | What it is |
|---|---|
| `SagaCoordinator` | the coordinator in detail: table, handlers, workers, topics |
| `SagaLifecycle` | what it promises about one saga: an abstract specification |
| `MCSaga` | sets of events for the small instances |
| `SagaCoordinatorProofs` | the theorems about `SagaCoordinator` in any surroundings, and what failed means |
| `DeliveryService` | couriers and deliveries, their handlers, the `courier.unassign` worker |
| `WarehouseService` | warehouses and inventory records, their handlers, the `inventory.release` worker |
| `ShipmentService` | shipments and items, their handlers, the `shipment.cancel` worker |
| `Blockchain` | workers, monitors, the nonce counter and the records, against a node |
| `EventQueue` | the in-memory queue: storages, generators, running flags |
| `TopicLog` | what the queue port promises: an ordered log per topic |
| `MCEventQueue` | topics and generators of the small instance |
| `AuthService` | users, refresh tokens and the requests that change them |
| `MCAuthService` | the symmetry set of the small instance |
| `SagaDisciplineProofs` | the theorems about a coordinator whose surroundings keep its discipline |
| `DeliveryServiceProofs`, `WarehouseServiceProofs`, `ShipmentServiceProofs`, `AuthServiceProofs` | the theorems about these four services |
| `BlockchainProofs`, `EventQueueProofs` | the theorems about the blockchain service and the in-memory queue |

### SagaCoordinator

| Variable | In the code |
|---|---|
| `row` | `saga_instances`, keyed by `saga_id`: the columns that decide something (status, `warehouse_id`, `delivery_id`, `failed_step`) |
| `events` | the three failure topics: is an event absent, queued, or fetched with its offset not yet committed |
| `worker` | the local variables of one `_handle_failure_event` per running instance: where it is, `saga_id`, `event_type`, the entity it holds |
| `request` | the local variables of one HTTP handler: where it is, the DTO, the entity it holds |
| `commands` | the command topics: how many copies of each command were stored |

Each database statement and each publish is one action, because the code awaits
there. `_handle_failure_event` is `Fetch`, `HandleRead`, `TriggerRead`,
`TriggerSave`, the steps of the strategy (`UnassignCourier`, `ReleaseInventory`,
`CancelShipment`), `FailRead`, `FailSave`; a PATCH is `BeginPatch`, `PatchRead`
(the handler's own get), `UpdateContextRead` (the second get, in
`update_context`) and `RequestSave`. `HandlerRaises` is the `except` of `run`,
`Crash` a stop and restart of one instance. Timestamps, error messages,
`saga_type` and the payload of a command beyond its target are left out: nothing
reads them. The indexes of the table are left out as well; the partial unique
one selects upper-case statuses and so never applies to what the code writes.

What the surroundings may do is the constant `Env`, a set of options, so that a
run and a theorem say what they assume:

| Option | Meaning |
|---|---|
| `overlap` | a PATCH may overlap or follow the report of a failure |
| `parallel` | requests that update one saga may overlap each other |
| `repost` | a POST may name a saga that exists (the retry of a client) |
| `error` | a database or broker call may raise |
| `crash` | an instance may stop inside a handler |
| `redeliver` | an uncommitted event may be delivered again, also to another instance |

`redeliver` together with `AutoCommit` is what `enable_auto_commit=True` gives:
an offset is committed in the background, before or after the handler is done.
Without a rebalance a partition has one consumer, which takes events of one
aggregate in order (`MayBeTaken`); failures of different types are in different
topics and may go to different instances. `MaxCopies` bounds the copies one
`publish_command` leaves: the producer is idempotent, but `_send_with_retry`
sends a timed-out message again as a new one.

### SagaLifecycle

The abstract specification has three variables per saga: its `status`, the
`plan` of commands its failure calls for and those `sent`. A saga starts once,
completes or is compensated, sends the planned commands with the courier before
the stock and the stock before the shipment, and fails only when the whole plan
was sent. `SagaCoordinator` reads them off the table and the topics (`Status`,
`PlanOf`, `SentOf`); the plan follows from `failed_step` and the context in the
row.

### DeliveryService, WarehouseService, ShipmentService

The three have one shape. A table is a function from identifiers to rows or
`NoRow`; `issued` holds the identifiers `uuid4` has given out, which are never
given out again. `request[r]` is the local state of one running handler and `pc`
the statement it is about to run: a PATCH of a delivery is `UpdateDelivery` (the
first SELECT and the mapper), `LookupCourier` (only when the courier changes),
`ServiceUpdate` (the SELECT of `DeliveryService.update`) and `SaveDelivery` (the
upsert); between any two of them other handlers, the worker and a stop may run.
Upserts and deletes carry what the database adds: the foreign keys
(`Erasable`, `Storable`, the cascades of `DeleteWarehouseRow` and of
`ShipmentService!DeleteRow`) and the CHECKs. `commands` is the topic of the
service and `worker` its command worker. `PublishUnassign`, `PublishRelease` and
`PublishCancel` stand for the coordinator and may send a command for any
identifier that was ever given out, at any time and again. `WorkerRaises` is the
`except` of `run`; `Restart` loses every handler and either loses the command in
progress or has it delivered again. `dropped` remembers what was lost that way
and `skipped` the records whose release raised, so that the liveness properties
can say what they leave out.

* `DeliveryService`: the events, `estimated_arrival`, contact data and dates are
  left out; `actual_arrival` matters only in that setting it delivers.
* `WarehouseService`: `_handle_release_inventory` is `ListRecords`, then one
  `ReleaseRead` and `ReleaseSave` (or `ReleaseRaises`) per record, then
  `ReleaseDone`.
* `ShipmentService`: `ledger` is a history variable, the account of an item: what
  its quantity should be after the requests served so far. The account is closed
  when two requests have the item open at once, since then the code loses one of
  them. `Quantity` values start at one, which is why a decrease to zero passes
  the check of `decrease_quantity` and is refused all the same.

### Blockchain

`worker[i]` is `BlockchainWorker` of instance `i` inside `register_event`:
`NextNonce` (INCR in Redis), `ExecuteTx` (the node accepts, replaces or refuses),
`SyncCount` and `SyncSet` (`sync_from_chain`, on start and once per refused
transaction), `SaveRecord`. `monitor[i]` is the set of `update_confirmation`
calls `gather` runs: `GetReceipt` and `GetLatest` are the two reads of
`get_receipt`, `ConfirmTransaction` the save, `PublishVerified` the event. The
node (`pool`, `blocks`, `sent`) is outside the repository: it executes nonces in
order, refuses a nonce in use, may let a dearer transaction replace a waiting
one, and may take back blocks less than `Required` deep. `orphans`,
`unannounced` and `stale` remember which transactions an error, a stop or a
reorganisation hit between two steps.

### EventQueue and TopicLog

An asyncio generator runs from one suspension to the next without anybody in
between, so `Start`, `Resume`, `Wake` and `Close` each run to the next `yield` or
`sleep`, or to the `finally`. `running` is the class-wide flag per tuple of
topics; `offsets` are local to a generator, `given` is what it has yielded. The
two storages and the two consume methods are one code over disjoint sets of
topics. `TopicLog` says what a consumer of the port may rely on: each reader is
given the log of each of its topics from the start, in order, without gaps or
repetition. `EventQueue` implements it except for generators that were running
when `clear_all_topics` emptied the lists under them (`astray`): their offsets
point into the past.

### AuthService

A `user_id` and a refresh token are random and fresh, so both are named by the
request that makes them. `request[r].pc` is the statement a request of
`register`, `login` or `refresh` is about to run; each has a connection of its
own, and no transaction spans two of them. `session[r]` is the login a chain of
refreshes goes back to, `lost` the logins of which a request failed after its
revocation: both are history variables.

## Runs

| Run | Instance | Result |
|---|---|---|
| `saga_disciplined` | one instance, three requests of all kinds, every failure and one event without a correlation id; errors, stops, redelivery, two copies per publish | holds: `TypeOK`, `FailedMeansCompensated`, `CompensatedOnce`, `ImplementsLifecycle` |
| `saga_races` | two instances, three requests of all kinds, one kind of failure; overlapping updates, retried POSTs, redelivery | holds: `FailedMeansCancelled`, `ContextSurvives`, and under fairness `FailureIsCompensated` |
| `saga_crash` | one instance that may stop | `CompensationFinishes` is violated |
| `saga_late_patch` | one instance, a PATCH beside a failure | `FailedMeansCompensated` is violated |
| `saga_two_instances` | two instances, two failures of one saga | `CompensatedOnce` is violated |
| `saga_check` | the statuses of the migration | `CreationIsRecorded` is violated |
| `delivery_service` | one delivery, two couriers, two handlers, the worker, one stop | holds: `CourierOfDelivery`, `DeletedStaysDeleted`, `UnassignTakesEffect` |
| `warehouse_service` | two records of one shipment, one warehouse, two handlers, the worker, one stop | holds: `StockHasWarehouse`, `DeletedStaysDeleted`, `ShippedIsFinal`, `ReleaseReachesAll` |
| `shipment_service` | one shipment, one item, two handlers, the worker, one stop | holds: `ItemsHaveShipment`, `QuantityAddsUp`, `DeletedStaysDeleted`, `CancelTakesEffect` |
| `blockchain` | two events, two instances, one monitor, one fault of any kind | holds: `SentIsRecorded`, `NoGap`, `ConfirmedIsDeep`, `PendingIsSettled`, `ConfirmedIsAnnounced` |
| `event_queue` | generators that share topics and a flag, an unreadable message, one clear | holds: `RunsUntilAnotherEnds`, `IsTopicLog`, `AllIsRead` |
| `auth_service` | five requests, two names, two addresses, expiry and failures | holds: `UniqueUsers`, `ExchangedIsRevoked`, `SessionGoesOn`, `SpentIsWorthless` |

**What the passing runs show.** `saga_disciplined` is the coordinator under the
discipline its code relies on without stating it: one instance, and clients that
have finished their requests before a failure of the saga is reported. Then a
saga recorded as failed had every command sent, none by a second run of the
strategy, in the promised order, however often handlers raise, stop or get the
event again. `saga_races` drops the discipline, and three things are left:

* A failed saga had its shipment's cancellation sent (`FailedMeansCancelled`).
* A warehouse or delivery that is on the row, and on every copy of it that is
  about to be saved, stays (`ContextSurvives`). The lost update of two handlers
  that both read before either saves is thereby excepted, for the code does lose
  one of the two; so is another POST of the saga, which starts it afresh. What is
  left is that nobody else takes a value off: a worker whose strategy runs on a
  row from before the PATCH does not, because `fail_saga` reads again.
* A failure that meets a started saga ends in `failed`, or in `completed` if a
  client completes it, whatever begins to overlap from then on
  (`FailureIsCompensated`). The property excepts a moment at which an update of
  the saga is about to save a copy it has read, and has to. Say one handler read
  `compensating` and waits to save it, while the saga, failed by then, is put back
  to `started` by another stale copy or by a retried POST. The next failure meets a
  started saga, the waiting save makes it compensating, the worker ignores the
  event (`compensation_worker.py:58`), and the saga stays compensating with no
  error or stop involved.

Not all of the discipline is needed for all of the promise: the theorems say
which part each property rests on (see Proofs).

The runs of the other services ask what survives when handlers that check in one
statement and write in another overlap with each other and with the worker:

* *References.* `CourierOfDelivery`, `StockHasWarehouse` and `ItemsHaveShipment`
  hold because of the foreign keys alone: the checks of the handlers are too
  early. With `ON DELETE CASCADE` or without the key they are violated.
* *Deletions.* A row whose deletion every handler has seen does not come back
  (`DeletedStaysDeleted`). The exception in the property is real: a handler that
  is past the SELECT of `update` when a command deletes the row upserts it
  again.
* *Compensations.* `UnassignTakesEffect`, `CancelTakesEffect` and
  `ReleaseReachesAll`: a command that reached its topic has its effect whatever
  the status of the row and whoever writes it, once or more often, unless its
  error was logged or a stop lost it. For a release, a record that cannot be
  released does not keep the others from being.
* *Stock.* `ShippedIsFinal`: once no writer is left that read a record before it
  was shipped, no release and no client puts it back.
* *Quantities.* `QuantityAddsUp`: an item no two requests had open at once holds
  what its requests asked for, refused and interrupted ones counting nothing.
* *Nonces.* `NoGap`: as long as nothing fails, two instances that take nonces and
  resync at once, against each other and against their own refused
  transactions, still use `0 .. n - 1`. With a fault they need not: a worker
  that raises after INCR leaves a gap until the next refusal or restart.
* *Records.* `SentIsRecorded`, `ConfirmedIsDeep` and `ConfirmedIsAnnounced` name
  in their exceptions (`orphans`, `stale`, `unannounced`) the only windows in
  which the service loses track: between send and save, between the reads of
  `get_receipt` and the save, between the save and the event.
  `PendingIsSettled` says that the batch of the monitor does not starve a
  record that has reached a block while the batch holds all pending ones
  (`BatchSize` is above what the events can make).
* *Queue.* `IsTopicLog` is the refinement; `RunsUntilAnotherEnds` and `AllIsRead`
  say that the shared flag stops a generator only after another of the same
  topics has ended or the topics were cleared.
* *Tokens.* Two refreshes with one token may both get a new one; what holds is
  that the old one is revoked and, once no request is past its check, never
  exchanged again. A login keeps a token that can be exchanged, or a request is
  about to store one, unless a request failed between revocation and insert.

**What the violations show.** Each is a way to lose that promise:

* *Crash.* `trigger_compensation` stores `compensating`; the instance stops; the
  event comes again and `_handle_failure_event` ignores it because of that very
  status (`compensation_worker.py:58`). The saga stays there. The same happens
  when a publish raises. `list_active` is meant "for recovery after failures"
  but only a GET handler calls it.
* *Late PATCH.* The strategy works on the row `trigger_compensation` returned. A
  PATCH in flight at that moment adds a warehouse or a delivery that nobody
  releases.
* *Two instances.* Both read `started`, both write `compensating`, both publish.
* *Check.* The INSERT of a new saga is refused.

**Bounds.** One saga is enough: no action reads or writes two, and the
properties speak of each saga alone. A warehouse or a delivery
can be absent, given at creation, or given later; `saga_disciplined` has two
warehouses, so that a PATCH may also replace one by another. Three requests
make create, PATCH and complete in one behaviour, or a create and two updates
that hold copies of different age beside the workers; with two requests, one of
them the create, no two updates of one saga would ever overlap. Two instances make
every pair of workers. `saga_races` has one kind of failure, which both instances
may hold by redelivery and which may be reported again once it is committed: the
three kinds differ only in the first call of the strategy, which
`saga_disciplined` covers. Its `Deliveries` is empty, so `UnassignCourier` is the
skip of the code and `ContextSurvives` speaks of the warehouse alone; the code
treats the two fields alike, and the theorem is about both. Requests are served
once.

In the runs of the shipment, warehouse and delivery services one row of each
kind (two couriers, two records) and two handlers beside the worker let every
pair of writers overlap on one row, which is all that the properties relate; a
third handler would repeat one of the two. `QueueLimit = 1` still has a second
command wait while the first is handled, and one stop gives every point of
interruption. `blockchain` has as many nonces as two instances can take for two
events and one redelivery, `Required = 1` tells deep from not deep, and
`MaxFaults = 1` puts one error, stop, redelivery or reorganisation anywhere.
`event_queue` publishes twice, so that a topic gains a message while another is
read, and starts three generators for three consumers, so that one may come
back. One message is readable and one is not, so order shows in the run through
the unreadable one only; the theorem is about any set of messages. Five requests in `auth_service` make a registration, a login and three
refreshes, or colliding registrations.

**Fairness.** `LiveSpec` of `SagaCoordinator` asks weak fairness of each worker
and of each handler that has begun: the event loop runs every task that is
ready, and the database and the broker answer. It asks nothing of clients, of
the producers of events, of commits or of failures. `saga_races` has neither
`error` nor `crash`, since either stops a compensation for good; that is the
content of `saga_crash`, where `CompensationFinishes` assumes that interruptions
cease and still fails.
`LiveSpec` of the three services with a command worker asks weak fairness of that
worker alone. `Blockchain` asks it of the worker and the monitor of each
instance, which `asyncio.gather` runs side by side, and of the chain, which goes
on; not of errors, stops or deliveries. `EventQueue` asks it of each generator
that was started: its worker handles what it got and asks again, and `sleep`
returns. `AuthService` promises nothing in the end and has no fairness.

Every property of a passing run has a mutant: a definition of the model changed
as a plausible slip in the code would change it (the operators marked "A slip").
TLC finds the property violated with it.

## Proofs

`SagaCoordinatorProofs` proves, for every value of the constants that satisfies
`SagaConstants` (any number of sagas, instances, requests and events, every
`Env`, any `CheckedStatuses`):

* `TypeCorrect`: `Spec => []TypeOK`. `TypeOK` is inductive because the states of
  workers and handlers say which local variables are set at which `await`: one
  that reaches a save holds a whole row.
* `FailedSagasAreCancelled`: `Spec => []FailedMeansCancelled`. The property is
  not inductive. A worker about to save `failed`, and a PATCH that read `failed`
  and is about to write it back, would break it in a state where no cancellation
  was sent. `CancelledBeforeFailed` adds those two facts
  (`WorkersCancelFirst`, `HandlersCopyCancelled`): a worker past `CancelShipment`
  has sent the command, and so has whoever wrote the `failed` that a handler
  holds. It also says that a worker at `TriggerSave` holds `compensating`, which
  is what keeps `trigger_compensation` from writing a stale `failed`. Commands
  are never taken off a topic (`CommandsOnlyGrow`), so the facts survive the
  steps of everybody else; there is one lemma for the steps of workers, one for
  those of requests and one for those of events.

* `RegisteredContextStays` (`ContextSurvives`), without a hypothesis. Every copy
  that is saved is made of a row as it was read, and marking or merging keeps what
  the row names (`CopiesKeepNames`). `RegisteredMoves` says what is enough for a
  step; there is one lemma for the steps of requests and one for those of workers,
  and only a POST makes an entity that is no copy.
* `FailedSagasAreCompensated`: `[]FailedMeansCompensated`, under one hypothesis
  about `Env`, `NoLateUpdates`: no client updates a saga beside or after the report
  of its failure (`overlap`) and none posts a saga twice (`repost`). Any number of
  instances may run and serve the same saga, and updates of one saga may overlap
  each other. The invariant is `CopyInv`. Clients update a saga only before its
  failure (`ClientOK`), so from the report on nobody writes its warehouse or
  delivery; every worker's copy then differs from the row at most in what the
  worker itself marks (`HoldsCopy`), the commands each instance has sent are the
  ones the row calls for, and whichever instance saves `failed`, and whichever
  overwrites that with the failure of its own event, has sent all the saved row
  asks for (`FailedOK`).

`SagaDisciplineProofs` proves the rest of what the coordinator promises, each
part under what it needs. The code enforces none of these hypotheses.

| Theorem | Running instances | Excluded of `Env` | Without it |
|---|---|---|---|
| `FailedSagasAreCompensated` | any number | `overlap`, `repost` | `saga_late_patch`; a second post of a saga puts its handler in the place of the late PATCH |
| `SagasAreCompensatedOnce`, `CoordinatorImplementsLifecycle` | one | `overlap`, `parallel`, `repost` | `saga_two_instances` |

Errors, stops and redelivery are allowed everywhere, and so are any number of
sagas, requests, events, warehouses and deliveries.

* `SagasAreCompensatedOnce` (`[]CompensatedOnce`) is stated under `Disciplined`,
  one running instance and `OneAtATime`, and rests on two invariants. `RequestsOK`,
  which needs `OneAtATime` alone, says that whoever is about to update a saga holds
  a copy of the row as it is now: a create finds no row, an update runs before any
  failure of its saga is reported, and alone (`RequestsHoldFreshCopies`). `IInv`
  adds that the worker's copy is the row as it is now, status included,
  between the two statements of every method (`ActsOnRow`); `SentSoFar`, that the
  commands on the topics are exactly those of the calls the worker is past; and
  `SagaOK`, what the status of a row says of the topics when no worker is at it.
  A stop half-way leaves a saga that stays compensating, which the property does
  not forbid.
* `CoordinatorImplementsLifecycle` (`ImplementsLifecycle`): a step that writes the
  row of a saga is `Start`, `Complete`, `Compensate` or `Fail` of `SagaLifecycle`
  or changes nothing of it (`RowStepImplementsLifecycle`, from `StepMovesRow`); a
  publish is `Send` of a command of the plan that no later one has overtaken, or
  another copy of one sent before (`CommandStepImplementsLifecycle`).

The proofs of the three services with a command worker assume only what their
modules assume of the constants: any number of rows, handlers, commands and
stops, any `CheckedStatuses`. They share one layout: `TypeOK`, which is
inductive, then the foreign keys, then the deletions.

* `DeliveriesHaveCouriers`, `StockIsSomewhere`, `ItemsBelongSomewhere`
  (`[]CourierOfDelivery`, `[]StockHasWarehouse`, `[]ItemsHaveShipment`): the
  property is inductive by itself. `TableSteps` lists all a step can do to the
  two tables: store a row whose reference is stored, remove a referring row,
  remove a referred one with what the key says (refuse, or take the rows along),
  or nothing. That the handlers check too early plays no part.
* `DeliveriesStayDeleted`, `StockStaysDeleted`, `ShipmentsStayDeleted`
  (`DeletedStaysDeleted`): a writer is a handler, or a release, that is past its
  last look at a row. `Seen` says that a step makes one only of a handler that
  has just found the row in the table, or has just made its identifier; neither
  is possible for a row that is `Gone`.
* `ShippedStaysShipped` (`ShippedIsFinal`): a new writer of a record holds a
  status the transitions of the entity allow from the stored one, and `shipped`
  allows none but itself (`MayWrite`). A new identifier could be that of a stored
  record as far as `TypeOK` knows; `Known` (what is stored or about to be stored
  was issued) excludes it.
* `QuantitiesAddUp` (`[]QuantityAddsUp`): not inductive, since a handler could
  write any quantity it holds. `Accounts` adds, for an item whose account is
  open, that at most one request has it open (`OneReader`) and that this request
  holds the account and its own change (`ReaderAddsUp`), and that items in use
  were issued (`KnownItem`), so that a new item does not meet an old account.

`AuthServiceProofs` proves for any number of requests, names and addresses:

* `AuthInvariant`: `Spec => []IInv`. `IInv` says of each request what its earlier
  statements have made true: that the token it carries was stored, that the
  login it continues is that of the token it read, that past the revocation this
  token is revoked.
* `RotationRevokes` and `UsersAreUnique` follow, the second by the unique
  constraints alone. `LoginsGoOn` (`[]SessionGoesOn`) adds that the request that
  revokes the last good token of a login is the one about to save the next.
  `SpentStaysWorthless` (`SpentIsWorthless`) is an action property: no step makes
  a request pass `get_valid` with a token that is revoked or has expired.

`BlockchainProofs` proves for any number of events, instances, monitors and
faults, any `Required` and any `BatchSize`:

* `TypeCorrect` (`[]TypeOK`), with `Watched`: what a worker or a monitor holds was
  accepted by the node. That no worker holds a negative nonce needs the node's
  count to exist: `CountIsFirstFree` shows that it does, since finitely many
  transactions leave a nonce free.
* `SentTransactionsAreRecorded` (`[]SentIsRecorded`): the property is inductive
  beside `Typed`. Only two kinds of step can take the record or its worker away,
  and both leave a trace in `orphans`.
* `ConfirmedTransactionsAreDeep` (`[]ConfirmedIsDeep`): not inductive. A call of
  the monitor reads the receipt, then the latest block, and saves later;
  `CallsAreFresh` says that what it read is still true of the chain, or the
  transaction is `stale`. `OnePlace` says that a transaction is in one block or in
  the pool, so that the block found again is the block meant. What is `Required`
  deep is never taken back (`SettleableStays`).
* `NoncesLeaveNoGap` (`[]NoGap`): not inductive. `NoneSkipped` says, as long as
  nothing failed, that below every nonce the node has or a worker holds
  (`GivenOut`) all are given out, that everything up to the counter is given out
  once some instance has finished its first resync, and that what a resync counted
  is with the node. A finite set closed downwards is an interval
  (`DownwardClosed`).

`EventQueueProofs` proves for any topics, messages and generators, also
generators that share topics or name a topic twice:

* `TypeCorrect` (`[]TypeOK`) and `GeneratorsRunUntilAnotherEnds`
  (`[]RunsUntilAnotherEnds`).
* `QueueImplementsTopicLog` (`IsTopicLog`): each stretch of a generator, from one
  suspension to the next, ends it, puts it to sleep or gives one message (`Goes`,
  `GeneratorStepGoes`). The message is the next of the log because what is left of
  a range follows on what was given (`RestFollows`), whatever was published since;
  the steps of a generator that was running at a clear are those of `Stray`.

In both modules the steps are first turned into lemmas that say what each leaves
of the variables (`...Moves`, `...Leaves`); the invariants follow from those.

Every invariant and action property that a passing run checks, and both
refinements, are stated by one of these theorems. Only model-checked is all
liveness (`FailureIsCompensated`, `UnassignTakesEffect`, `ReleaseReachesAll`,
`CancelTakesEffect`, `PendingIsSettled`, `ConfirmedIsAnnounced`, `AllIsRead`),
which is out of the prover's reach.

## Plan

What is left, in the order of its worth:

1. The safety facts the liveness properties rest on: what a command that was
   handled without an error leaves in the tables of the three services, and what
   the coordinator owes while a saga is compensating, for several instances too.
2. `CompensationFlow`: `SagaCoordinator` composed with the three services over
   the topics, to follow a failure to the rows it should undo. The models share
   the shape of their topics for that purpose; today the commands of the services
   come from anywhere, which covers every coordinator, this one included.

## Not modelled

* The read-only handlers, the wording of messages and logs, authentication of
  requests, metrics, health checks, validation of DTOs and value objects beyond
  what decides a write: no shared state.
* The cache adapters: no service uses a cache. `InMemoryCacheAdapter.set` without
  a ttl keeps the expiry of the value it replaces.
* The event queue provider: start-up code with one outcome, described above.
* The mock blockchain gateway, a stub for development.
* The conversion of events and commands (`events.py`, `commands.py`, `base.py`)
  beyond the failure events and compensating commands: plain data.
* The tables of later migrations (saga steps and events, status histories,
  tracking, statistics, the nonce table of the blockchain service) and the
  triggers that fill some of them: nothing in the code reads them.
* `warehouse_service/__init__.py`, a script unrelated to the service.
