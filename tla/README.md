# TLA+ models of the EARS event gateway

This directory has TLA+ models of the EARS event gateway (Go; the code is under
`../src`). Each model is checked with TLC. `PROJECT.json` lists:

- every component and its status;
- every TLC run and what it checks;
- the mutants that show each passing property can fail;
- the source lines that each definition translates;
- the findings and the hazards of the code.

## The system and how its parts interact

EARS receives events through *receiver plugins* (SQS, webhook/HTTP) and passes
them through a chain of *filter plugins* (split, modify, transform, dedup, match,
...). It then hands them to *sender plugins* (Discord, SQS, ...). A *route*
links a receiver, a filter chain and a sender.

- **HTTP control plane** (`src/unnamed/part_000`, package `app`,
  `APIManager`):
  - routes: add, remove and get;
  - tenant configs: set, delete and get;
  - fragments;
  - event injection (`sendEventHandler`, and `webhookHandler`, which forwards to it).

  Each request runs on its own net/http goroutine. These goroutines share:

  - the `APIManager` mutex;
  - a `TenantCache` (TTL 30 s) in front of the tenant storer;
  - the routing table manager;
  - the tenant storer.
- **Routing table manager**:
  - `DefaultRoutingTableManager.AddRoute` (`part_001`) stores the route;
  - `InMemoryRoutingTableManager` (`src/cmd/main.go`, from line 112) keeps an
    index of routes.

  The real manager also keeps live routes, reference-counted shared plugin
  instances and a synchronizer across gateway instances. That code is not under
  `src/`, so this project knows it only from spec 4.2/4.5.
- **SQS receiver** (`src/pkg/plugins/sqs/receiver.go`):
  - `Receive` starts a poll goroutine and blocks on the unbuffered channel `r.done`.
  - The poll goroutine repeats these steps:
    1. receives up to 10 messages;
    2. triggers one event per message into the route;
    3. waits on a `sync.WaitGroup` until every event is acked or nacked;
    4. deletes the batch.
  - `StopReceiving` sends on `r.done` under the receiver lock.
  - The poll goroutine's deferred function also sends on `r.done`.
- **Filters**:
  - `split.go` clones an event per array element, acks the original and nacks
    it on an error.
  - `modify.go` rewrites the payload.
  - The event acknowledgement tree (`pkg/event`) is not under `src/`.
- **Discord sender** (`sender.go`): posts the payload and acks or nacks.
- **Test sender plugin** (`pkg/plugin/manager/testplugins/sender/plugin.go`):
  its `Send` returns without acking or nacking, so only the event deadline
  settles an event it is given.

## Modules

| module | models | state (code) | actions (code) |
|---|---|---|---|
| `SqsReceiver` | `receiver.go` | `rcvPc`: Receive's position; `pollPc`: poll goroutine's position; `stopPc`: StopReceiving's position; `lock`: `r.Mutex`; `doneSet`: `r.done != nil`; `qstate`: queue message states (visible, inflight, deleted); `batch`: `sqsResp.Messages`; `entries`: the `ids` map of the delete batch; `outcome`: each event's ack/nack; `wg`: `batchDone` counter | `ReceiveStart` (37-63); `PollMessages` (72-87); `TriggerMessage` (88-112); `UnmarshalFail` (94-99); `BatchWait` (113); `DeleteBatch` (114-124); `PollerExitLock`/`PollerExitSend` (deferred func 65-71 meeting `<-r.done` 127); `StopCall`/`StopLock`/`StopSend` (131-138); `EventAck`/`EventNack` (callbacks 101-107); `VisibilityExpire` (the queue's 10 s visibility timeout) |
| `ApiManager` | `part_000` handlers and `TenantCache` | `pc`/`req`: one goroutine per in-flight request; `apiLock`: the `APIManager` mutex; `cache`: the `TenantCache` entries (present, OpenEventApi, Ts); `store`: each tenant's config in the tenant storer (none, open, closed); `routes`: the (tenant, route id) pairs in the routing table; `fragments`: the (tenant, fragment name) pairs; `now`: time | `Arrive` (a new request); `SendLock`, `SendCache` (GetTenant, then GetConfig on a miss), `SendSetTenant` (SetTenant stamps the entry, a.Unlock), `SendAuth`, `SendRoute` (`sendEventHandler` 328-405); `AddCheck`/`AddRouteStep` (`addRouteHandler` 407-469); `RemoveRouteStep` (471-496); `SetConfigStep` (830-866); `DelCheck`/`DelConfig` (`deleteTenantConfigHandler` 868-900); `AddFragCheck`/`AddFragmentStep` (`addFragmentHandler` 732-794: the tenant check, then a body may be rejected before `AddFragment`); `RemoveFragmentStep` (705-730); `Tick` |
| `RouteTable` | the abstract routing table of spec 4.5 | `table`: hash → entry; `call`: the last operation and its argument | `Put`, `Delete`, `ReplaceAll` (an invalid or nil input leaves the table unchanged), `Read` |
| `InMemoryRoutingTable` | `InMemoryRoutingTableManager`, `cmd/main.go` 112-215 | `index`: `routingTableIndex`; `call`; `answer`: the slice the last query returned; `expected`: the routes it was asked for | `AddRoute` (133-142), `RemoveRoute` (144-153), `ReplaceAllRoutes` with its loop as the recursive `ReplaceLoop` (155-164), `GetAllRoutes` (183-190), `GetRoutesByPlugin` (by source, by destination, for event; 192-214) |
| `EventPipeline` | building a route [split, modify] → sender, then one event through it over the ack tree | `pc`: the chain goroutine; `sender`: the sender plugin the route was built with (Discord or the test sender); `k`: split's loop index; `self`, `parent`: ack tree nodes; `payload`; `outq`: emitted events not yet sent; `rootState`: the root's settled state | `BuildRoute` (`split.NewFilter` 27-43, `modify.NewFilter` 27-46, Discord `NewSender` 37-105 or the test plugin's `NewSender` 93-95, which never fails: any error rejects the route); `Emit` (the receiver hands one event to the route); `SplitCheck` (`split.go` 46-67), `SplitClone` (68-80, Clone or SetPayload may fail), `SplitEnd` (81), `Modify` (`modify.go` 48-92, via `ModifyPayload`), `DiscordSend` (`sender.go` 107-127), `TestSend` (`plugin.go` 101-103: returns nil, no ack or nack), `ChainDone`, `Deadline` |
| `MC_*` | instantiation for TLC | model values and constant definitions | none |

The ack tree (`Terminate`, `Settled`, `TreeAcked`), the chain executor and
the deadline of `EventPipeline` model `pkg/event` and the route pipeline, which
are not part of the source here; they follow spec 4.1, 4.3 and 4.4 and are
marked `spec_modelled` in the map, as is the whole of `RouteTable`.

`InMemoryRoutingTable` is checked against `RouteTable` with
`Abstract == INSTANCE RouteTable WITH table <- index` and the property
`RouteTableRefined == Abstract!Spec`.  Both modules record the call and its
argument in `call`, so that each concrete step is judged against the abstract
operation with the same input (otherwise an emptied table would pass as a
`ReplaceAll` of the empty list).

The first two modules keep these history variables for their properties:

- `SqsReceiver`: `lost`;
- `ApiManager`: `changedAt`, `staleRead`.

Every action models the whole step of the code, including its error paths:

- **SqsReceiver**
  - A `ReceiveMessage` error or a `DeleteMessageBatch` error returns from the
    goroutine. The goroutine then runs its deferred send.
  - An `Unmarshal` error returns the same way.
- **ApiManager**
  - A failing `GetConfig` in `sendEventHandler` returns without `a.Unlock()`.
  - A tenant that still has routes makes `deleteTenantConfigHandler` refuse the
    delete.
  - An event to a tenant whose `OpenEventApi` is false and that carries no
    valid JWT is refused.

## Runs

| run | result | what it shows |
|---|---|---|
| `sqs_batch_accounting` | pass | A batch may hold duplicate ids, and `batchDone.Add` is sized by `len(Messages)`. Even so, the batch is deleted only once every event of the batch has been acked or nacked (`DeleteAfterAllTerminated`). `batchDone.Wait` always returns (`BatchWaitReturns`). |
| `sqs_nacked_message_deleted` | violation | A nacked message is deleted with its batch. At-least-once delivery is lost (`receiver.go:119`). |
| `sqs_poller_exits_on_error` | violation | `PollerSurvivesErrors`: spec 9 prescribes log-and-continue on a RECEIVER ERROR, but a `ReceiveMessage`, `Unmarshal` or `DeleteMessageBatch` error returns from the poll goroutine for good (`receiver.go:82/98/122`); its deferred send makes `Receive` return nil. |
| `sqs_stop_incomplete` | violation | `StopReceivingStops`: once called, StopReceiving returns, Receive returns and the poll goroutine has ended. The liveness search runs on two workers and its counterexample differs between runs; three occur. (a) A normal stop, after which the poll loop, which never reads `r.done` (`receiver.go:72`), goes on triggering events; when it later exits on an error its deferred send blocks forever (`receiver.go:68`). (b) `Receive` fails on the session or credentials after setting `r.done` (`receiver.go:53-62`); `StopReceiving` then blocks forever in `r.done <- true` holding the lock (`receiver.go:134`). (c) `StopReceiving` runs before `Receive` has set `r.done`; the stop is dropped and `Receive` never returns (`receiver.go:133`). |
| `api_tenant_cache_staleness` | violation | `CachedConfigWithinTtl`: the config an event request takes from the `TenantCache` is the store's, or the store changed at most TTL ago. `sendEventHandler` reads the store (`GetConfig`, `part_000:342`) and only then caches the config, stamped with `time.Now()` (`SetTenant`, 349/106). The config handlers take no lock (856/891), so a change that falls between the read and the stamp is served until TTL after the stamp. TLC: read at 0, config changed at 0, stamp at 1, cache hit at 2, with TTL 1. |
| `api_delete_tenant_race` | violation | `TenantDataHasConfig`: every route and fragment belongs to a tenant with a config, as the add handlers require. TLC shows `deleteTenantConfigHandler`'s route check and its delete interleaved with `addRouteHandler`'s config check and add, leaving a route with no tenant config (`part_000:878/891` against `418/457`). The handler also never checks fragments, so an add-fragment request followed by a delete-config request breaks the property with no interleaving at all (`part_000:891`). |
| `api_send_lock_leak` | violation | `sendEventHandler` returns at `part_000:347` while it still holds `a.Lock()`. Every later event request blocks (`RequestsComplete`). |
| `rt_refines_route_table` | pass | With nil, invalid and same-hash entries, AddRoute, RemoveRoute (including their rejections) and the queries implement the abstract route table (`RouteTableRefined`, under `SpecWithoutReplace`; ReplaceAllRoutes is checked in the next run). |
| `rt_replace_all_empties` | violation | With ReplaceAllRoutes the refinement fails at the first call: the index is reset and entries are deleted instead of stored (`main.go:156/161`). |
| `rt_query_nil_entries` | violation | `GetRoutesBySourcePlugin` on a one-route table returns `<<nil, route>>`; `GetAllRoutes` keeps one route and nils (`main.go:187/193`). |
| `pipeline_ack_tree` | pass | For every route build outcome, both sender plugins, every payload shape, with Clone and SetPayload failures and the deadline at any point: the root is acked only if every clone was acked (`RootAckedOnlyIfAllAcked`, which covers the clones split drops at `split.go:71/76`), and a split that acks its original emitted exactly the array elements in order (`SplitEmitsElements`). |
| `pipeline_discord_panic` | violation | An array of strings, split at the root, reaches the Discord sender as string payloads and the type assertion at `sender.go:109` panics (`NoPanic`). |

The violation runs are the findings in `PROJECT.json`. Each one checks a single
property. That property states what the spec promises.

## Bounds and why they are enough

**SqsReceiver**

- Constants:
  - three messages;
  - one of the messages is not JSON;
  - `MaxBatch = 2` (the code uses 10).

  A batch of two can hold the same message twice, which is the duplicate-id
  case, or a good message and a bad one. With these bounds, a stop can come
  before, during and after every step of the poll loop.
- `VisibilityExpire` returns in-flight messages to the queue. With one poller
  this matters only after the batch: the poller is blocked in `Wait` until
  every event of the batch has terminated, so it cannot receive the message
  again while its event is pending.
- 6 914 distinct states.

**ApiManager**

- Constants:
  - two requests, each of any kind and for any tenant, route and token;
  - one tenant;
  - one route id and one fragment name;
  - `TTL = 1`;
  - time up to 3.
- These bounds cover the following cases:
  - a cached entry that expires;
  - a config that changes twice;
  - every pairwise interleaving of the handlers.
- A finished request goroutine is reused as a new request (`Arrive`). So the
  bounded state space still holds unbounded streams of requests.
- The two requests are symmetric. SYMMETRY is used only in the safety runs.
- All three runs find their violation quickly. The whole space, with every
  handler, has about 5 M states.

**InMemoryRoutingTable**

- Four entries: two with the same hash (the same route, so the idempotent
  add and the overwrite both happen), one other valid route, one invalid
  entry, plus nil; two plugins as source and destination; ReplaceAllRoutes
  with lists of up to two entries.  This is enough for the table to hold two
  routes, for a query to match some but not all of them, and for
  ReplaceAllRoutes to meet an invalid entry after a valid one.
- 785 distinct states without ReplaceAllRoutes (the passing run); ReplaceAllRoutes breaks the refinement at its first call.

**EventPipeline**

- Every payload of the abstraction (64): null, strings, numbers, objects
  with a string, a number or no `content`, and arrays of up to two of these;
  split at the root, modify upper-casing `content`.
- Arrays of two are the smallest in which a Clone or SetPayload failure can
  drop a clone that was already made, and in which the deadline can fall
  between two clones or between two sends.
- Route builds with every combination of valid and invalid filter configs
  and sender configs of both plugins (YAML that does not parse, and for
  Discord a config that fails `Validate`).
- 2 488 distinct states.

## Fairness

**SqsReceiver**

- These steps are weakly fair, because a runnable goroutine in Go eventually
  runs:
  - each step of `Receive`;
  - each step of the poll goroutine after it has received a batch;
  - each step of `StopReceiving` after it is called.
- `EventAck(i) \/ EventNack(i)` is weakly fair. The event context has a 10 s
  timeout, and the route's sender acks or nacks the event, so a pending event
  eventually terminates.
- These are not fair:
  - `PollMessages`: an empty queue may be long-polled forever;
  - `StopCall`: nobody has to stop the route;
  - `VisibilityExpire`.

**ApiManager**

- Each request goroutine's steps are weakly fair.
- Acquiring the mutex is strongly fair. `sync.Mutex` enters starvation mode
  after 1 ms, which hands the lock to the waiters in FIFO order.

**EventPipeline, InMemoryRoutingTable**: only safety is checked, so no
fairness is assumed. In `EventPipeline` the only thing that would settle an
event the test sender never acks is the deadline of the route pipeline,
which is not under `src/`; a liveness property would check that assumption
rather than the code.

**Deadlock checking**

- The cfgs of `SqsReceiver`, `ApiManager` and `EventPipeline` turn off
  deadlock checking. These systems really can stop (the pipeline once its one
  event was sent or the process crashed):
  - Receive has returned and the poller has exited;
  - every request is waiting on a leaked mutex.
- The runs that check liveness are where these stops are looked at.

## Not modelled (yet), and why

- **The webhook and GET handlers of `part_000`.**
  - The GET handlers only read.
  - `webhookHandler` forwards to `sendEventHandler`.
- **`NewReceiver` and `initPlugin`.** They only parse configuration.
- **The test plugin's `NewPluginer`/`new`.** The plugin manager calls it
  when it loads the plugin, and that code is not under `src/`.
- **The demo `main()`, `run.sh` and the golden file.**
  They hold no concurrent or persistent state.
- **`transform/types.go`, the dedup test and the ws test.** These are type
  declarations and tests only.
- **`InMemoryRoutingTableManager.Hash()`.** It only reads the map. It
  concatenates entry hashes in map order, so it is not a function of the
  table; nothing in the source uses it.
- **Discord `initPlugin` and `StopSending`.** `NewSender` is modelled by its
  decode and `Validate` errors. The error of `initPlugin` is ignored, but
  `discordgo.New` does not fail for a single token string, so the session is
  never nil in `Send`; a failed `Open` only makes the API call fail, which
  `DiscordSend` already allows. `StopSending` only unbinds metric counters.
- **transform, dedup, ws, match.** Only `transform`'s Config type and tests
  of the others are in the source.
- **The second SQS consumer.** Only one consumer of the queue is modelled.
  Duplicates across gateway instances are allowed by at-least-once delivery.

## Plan for the next modules

Done: `RouteTable` with the `InMemoryRoutingTable` refinement; the fragment
handlers in `ApiManager`; the ack tree
with route building, split, modify, the Discord and the test sender
(`EventPipeline`).

1. **`PluginRegistry`** (spec 4.2, spec_modelled): shared plugin instances
   keyed by hash with reference counts, composed with the routing table and a
   synchronizer over a small set of gateway instances with lost and duplicated
   notifications.  Properties: a plugin is stopped exactly when its refcount
   drops to 0; instances converge (liveness).
2. **Composition of `SqsReceiver` with `EventPipeline`**: the receiver's
   `EventAck`/`EventNack` replaced by the root callback of the ack tree, so
   that the `batchDone` accounting is checked against split and the senders.
3. **Fragment resolution** as a `RECURSIVE` operator with depth bound and
   cycle detection, checked against a reference definition.
