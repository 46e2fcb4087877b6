# TLA+ models of marketplace-service

This directory holds TLA+ models of the services under `src/`. TLC checks each one. The core is LOMS, which owns orders and stock. Around it are modelled:
* the cart, which calls LOMS, and its parallel fetch of products;
* the in-memory variant of LOMS;
* the notifier, which consumes LOMS's events.

## The system

Three services exchange data:

* **cart** (`src/cart`) keeps each user's cart in a map behind one mutex. Each of these runs on its own HTTP goroutine:
  * `AddItem` asks the product service (`GetProduct`) and LOMS (`StocksInfo`), then adds the item.
  * `Checkout` reads the cart (`GetCart`), calls LOMS `OrderCreate`, then deletes the user's items.
  * `GetCart` reads the cart, then fetches every product in parallel (`GetProducts`, an errgroup).
* **LOMS** (`src/loms`) keeps its state in Postgres:
  * `orders` / `orders_to_items`;
  * the stock rows `items(total_count, reserved)`;
  * the outbox `order_status_changed_events`.

  Each gRPC call runs on its own goroutine:
  * `orderCreate` runs three transactions in a row:
    1. create the order as New, with its event;
    2. `Reserve`, in its own transaction;
    3. set the status to AwaitingPayment or Failed, with its event.
  * `OrderCancel` and `OrderPay` are one ReadCommitted transaction each. Each one reads the order, releases (`ReserveCancel`) or consumes (`ReserveRemove`) its items, sets the status and writes the event.
  * `OrderInfo` and `StocksInfo` are reads.

  One dispatcher goroutine loops over these steps, all in one transaction:
  1. fetch the oldest unsent event;
  2. publish it with the Kafka sync producer;
  3. mark it sent;
  4. commit.

  The service provider has constructors for in-memory stock and order repositories, each with one mutex, but nothing calls them: the services are wired to the Postgres ones.
* **notifier** (`src/notifier`) is a Kafka consumer group (`libs/kafka/consumergroup`). Its `ConsumeClaim` loop handles each message, which means decoding it and logging it. Then it calls `MarkMessage` and `Commit`. Auto-commit is off and `Offsets.Initial` is `OffsetOldest`.

Transactions come from `TxManager.ReadCommitted`. It puts the transaction into the context, and each repository joins it through `CreateTx` or `CheckTx`.

Three places where the wiring matters:
* The gRPC `CreateOrder` handler calls the exported `Service.OrderCreate`. That method returns `(0, nil)` and never calls `orderCreate`.
* There is no gRPC handler for `OrderCancel`.
* `OrderPay` has no service method in `src/`. The gRPC handler and the tests call it.

## Modules

| Module | Models | State |
|---|---|---|
| `StockLedger` | `repository/postgres/stock`, `service/stock` | `total`, `reserved` per SKU; operators for what each statement reads and writes |
| `Outbox` | `repository/postgres/outbox`, `service/order/sendstatus.go`, `libs/kafka/producer` | `outbox` (committed rows), `bus` (the topic), the dispatcher's `dpc`/`devent`, `failures` |
| `Loms` | `service/order`, `repository/postgres/order`, `transaction`, gRPC handlers | composes both modules; adds `status`, `items`, `nextOrder`, the per-goroutine `pc`/`ord`, `requests`, `crashes`, the ghost `replied` (ids returned by create calls) the history variable `holding` (orders whose reservation is committed) and `replica` (`orders.status` as each read replica has replayed it) |
| `OrderLifecycle` | what LOMS promises (spec.md), no code | `status`, `items`, `total`, `reserved`, `holding`; one atomic action per lifecycle step: Place, Reserve, Accept, Reject, Pay, Cancel |
| `InMemoryLoms` | `repository/inmemory/{stock,order}` under `orderCreate` / `orderCancel` | `stock`, `orders` (id → status and item sequence), `counter` (ids from 0), `calls` |
| `Cart` | `cart/internal/service/cart`, `repository/inmemory/cart`, HTTP handlers, product-service and LOMS clients seen through their answers | `store` (user → SKU → count or `NoEntry`), the ghost `expected`, per-client `wpc`/`wsku`/`wcount`/`snap`, `calls`, `failures` |
| `ProductFetch` | `cart/pkg/productservice` (`GetProducts`, `GetProduct`), `cart/pkg/errorgroup`, `cart/pkg/httpclient` | `spawned`, `mpc` (GetProducts), `wg`, per-goroutine `gpc`/`tries`, the group's `err` and `cancelled`, `parentCancelled`, the written slots `filled`, `result` |
| `Notifier` | `libs/kafka/consumergroup`, the notifier's Kafka handler | `produced` (partition length), `owner` of the claim, `pos`, `committed`, per-member `cpc`, the history `handled`, failure counters |
| `MC*` | | model values, small `UInt64` (2^20), symmetry sets |

How the modules correspond to the code:
* **Loms transactions.**
  * A transaction's reads happen in one step.
  * Its writes and the commit happen in a later step. A relative `UPDATE` is applied at commit against the committed row, as Postgres re-reads a row after taking its lock.
  * `TxFail` is any statement error or commit error. The transaction rolls back and the workflow takes the code's error path.
  * `Crash` rolls back everything in flight and resets every goroutine. `NewService` then starts a new dispatcher.
  * `OrderPay` is modelled from the spec, mirroring `OrderCancel` with `ReserveRemove`.
* **Read replicas.** A statement outside a transaction runs on `ReplicaDB()`, a replica chosen by `rand.Intn`, or the master when none is configured (`ReplicaStatuses`). `GetByID` inside the cancel and pay transactions, and the dispatcher's fetch inside its transaction, run on the master. `ReplicaCatchUp(r)` is streaming replication: a replica replays the WAL in commit order, so it always holds some earlier committed state and can jump to the current one.
* **Refinement.** `Loms` instantiates `OrderLifecycle` as `Abstract`. Status, items and the ledger map to themselves; `holding` is a history variable that `ReserveCommit` adds to and the cancel and pay commits remove from. A crash does not touch it, as a committed reservation stays in the database. Reads, failed transactions, the outbox, the dispatcher and crashes are stuttering steps. `ImplementsLifecycle == Abstract!Spec` then says:
  * every committed reservation fits the ledger as committed at that moment, all-or-nothing;
  * an order is accepted only holding its reservation, and failed only holding nothing;
  * payment and cancellation move the ledger by exactly the order's items, so the `GREATEST(..., 0)` floors of `ReserveRemove` never act.
* **InMemoryLoms.** Each repository method holds the mutex for its whole run. The model has one caller, so a whole `orderCreate` or `orderCancel` is one step.
  * The repositories' loops are `RECURSIVE` operators over item sequences.
  * uint64 arithmetic is taken mod `UInt64`.
  * A loop returns at the first failing item, and the items before it keep their updates.
* **Cart.**
  * Each repository method is atomic.
  * A service call is a sequence of repository steps and remote calls, so clients interleave between them.
  * `expected` holds what each cart should contain: the counts added and neither removed nor ordered.
* **ProductFetch.**
  * `Go` is `eg.Go`: `wg.Add(1)` and the goroutine starts, one SKU after another.
  * A goroutine is `LimiterWait`, then one `RoundTrip` step per attempt of `retryTransport`'s loop. Each attempt may give any outcome: 200, 404, 420/429, another status, or a transport error. Once the context is done, the outcome is always the context's error.
  * `Finish` is the goroutine's end: the slot is written, or `errOnce` records the error and cancels the group; then `wg.Done`.
  * `Wait` returns when the counter is zero. `ParentCancel` is the cart's HTTP request going away.
  * Time is not modelled: the limiter's rate, the retry delay and the client timeout only order steps.
* **Notifier.**
  * The partition is an append-only log read through an offset.
  * A claim starts at the committed offset, or at `InitialOffset` if nothing is committed.
  * `MarkCommitFail` is a commit that fails. The mark is carried by the next commit.
  * A `Rebalance` ends the session between two messages. A `Crash` can happen at any point, including between `Handle` and the commit.

## Runs

| Run | Expect | What it shows |
|---|---|---|
| `single_caller` | pass | With one request goroutine, callers that check the status, one DB or broker failure, one crash and one lagging read replica, all of these hold. The ledger stays within capacity. `reserved` matches the orders that hold stock, and `total` matches the payed orders. Each order's latest event is its status. A row is marked sent only after it was published, and per order the events reach the topic in order. |
| `delivery` | pass | Every committed event is eventually published and marked sent (`EveryEventDelivered`), despite a failure and a crash. `Loms` implements `OrderLifecycle` (`ImplementsLifecycle`). Both hold with one request goroutine, so the refinement here does not reach the reserve race. |
| `reserve_race` | violation | Two concurrent `orderCreate` calls both pass Reserve's availability check before either commits, so `reserved > total_count`. `StocksInfo` then computes `TotalCount - Reserved` in uint64, its `count < 0` floor is dead, and it answers about 2^64 instead of 0 (`StocksInfoFloored`). |
| `pay_cancel_race` | violation | Cancel and pay of one order both read it as AwaitingPayment, and the order goes Cancelled → Payed. |
| `stuck_new` | violation | A crash after `orderCreate`'s first transaction leaves the order New forever. |
| `exported_create` | violation | `CreateOrder` returns order id 0 with no error and creates nothing. |
| `inmem_checked` | pass | In memory, `reserved` never exceeds `total`, and every order awaiting payment is backed by the ledger. This holds for batches that repeat a SKU or name an unknown one. |
| `replica_lag` | violation | `OrderInfo` called right after `orderCreate` returned the id (the model's `replied`; the exported `OrderCreate` stub never returns one, see `exported_create`) reads a replica that has not replayed the commits. It answers not found or New, where the spec's testable properties say awaiting payment and never New (`InfoAfterCreateNotNew`). |
| `cart_apart` | pass | With one client per cart, every call keeps each cart equal to what was added and not removed or ordered, including when remote calls fail. |
| `cart_checkout_race` | violation | An `AddItem` between `Checkout`'s `GetCart` and its `DeleteItemsByUserID` is deleted without being ordered. |
| `product_fanout` | pass | With three SKUs, two retries each, every round-trip outcome and a client that may cancel:<br>• `GetProducts` returns only after every goroutine ended, and reports success only with every slot written (`WaitJoinsAll`).<br>• It reports `context canceled` only when the caller cancelled, never the cancellation the group inflicted on a sibling (`ErrorIsCause`).<br>• It always returns (`GetProductsReturns`). |
| `notifier_consumer` | pass | The committed offset never passes an unhandled message, and every message is eventually handled, with two members, a crash, a failed commit and a rebalance. |

Each property of a passing run has a mutant in `PROJECT.json`. A mutant is a plausible bug in the mapped code, and TLC finds it under the run's own configuration. Examples:
* an availability check that ignores `reserved`;
* a `FetchNext` that takes the newest row;
* a mark of offset + 2;
* a cancel that releases with `ReserveRemove`, which the refinement rejects;
* an ErrGroup that records errors without `errOnce`, or that returns at the first error.

## Bounds and why they are enough

* **Loms:** 2 SKUs with stock (2, 1), 2 orders, and counts up to 1.
  * Orders can fit or fail, and two orders compete for the last unit of `s2`.
  * `single_caller` allows 4 calls, which is enough for create, then pay or cancel, for two orders. `delivery` allows 3 calls to keep the liveness check small.
  * One infrastructure failure reaches every error path, and one crash reaches the recovery paths.
  * The race runs use two goroutines and just enough calls for the race.
  * One replica is enough for a read to lag; `single_caller` and `replica_lag` have one, the others none, because a replica multiplies the states by about five.
* **InMemoryLoms:**
  * SKUs: `s1` (2 units) and `s2` (1 unit) are known; `s3` is unknown.
  * Items carry counts of 1 or 2, and a batch holds up to 2 items. That covers a repeated SKU, an unknown SKU, and a batch whose second item fails.
  * 3 calls allow two creates and a cancel.
* **Cart:** 2 users, 2 clients and 3 SKUs.
  * One SKU is unknown to the catalog, and one has no stock.
  * Counts are 1 or 2, with 4 calls and one remote failure.
* **ProductFetch:** 3 SKUs, so that one goroutine can fail while another is still waiting on the limiter and a third is between retries. Two retries (three attempts) reach a first, a middle and a final attempt, so an attempt can be retried after a retry. `CHECK_DEADLOCK FALSE` is set because the call ends: after `Wait` returns, nothing runs.
* **Notifier:** 3 messages, 2 members, 1 crash, 1 failed commit and 1 rebalance. Together these let a member take over from a crashed or rebalanced one with marks not yet committed.

## Fairness

* **Loms.** Each replica's `ReplicaCatchUp` gets weak fairness, because replication keeps replaying the WAL. `DispatcherNext` gets weak fairness, because the dispatcher loop never stops while the process runs. Each goroutine's in-progress steps get weak fairness, because blocking I/O returns. Clients are not obliged to call, so new calls get no fairness.
* **Notifier.**
  * The producer gets weak fairness. That it keeps publishing is what `delivery` shows.
  * Claiming a free partition gets weak fairness, because `ConsumerGroup.Run` re-enters `Consume` after every session.
  * Each member's handle/commit loop gets weak fairness.
* **ProductFetch.**
  * Each goroutine's steps get weak fairness: the runtime schedules runnable goroutines, the limiter's delay is finite, and the HTTP client has a `Timeout`.
  * The spawning loop and `Wait` get weak fairness.
  * The client's cancellation gets none.
* **Failures, crashes and rebalances** are bounded, so they happen only finitely often.

## Not modelled

* Parts that hold no state the properties tell apart:
  * controllers' validation and conversion;
  * metrics, tracing, logging and configuration;
  * the rate limiter.
* Prices and the `GetCart` total. `GetCartCall` keeps no answer.
* The uint32 price overflow. It is listed as a hazard.
* The uint16 wrap of the cart count. `Cart` keeps the modulus, and `CartHoldsWhatWasAdded` fails in two sequential steps (add 65535, then 1). That is what a unit test of `Add` reaches, so no run checks it.
* Response bodies, the connection pool, and what `net/http` does when a request whose body was already read is sent again. These are listed as hazards of the retry transport.
* What `StocksInfo` answers from a lagging replica. `StocksInfoCall` keeps no answer, and `Cart` takes availability from a constant; this is listed as a hazard.
* The in-memory `Reserve` that fails part-way keeps its earlier items reserved, against spec 4.2. `HeldCovered` bounds it, but no run shows the leak: nothing calls the service provider's in-memory repository constructors, so the leak cannot happen in the running service.

* The SQL of `GetItemsAvailability` and `UpdateReservedItems` is not in the repository, so what Reserve does with a batch that repeats a SKU cannot be translated. Batches stay functions SKU → count.
* `OrderLifecycle` states no liveness. The code cannot promise that a New order leaves New (`stuck_new`).
* The ErrGroup fan-out of `GetProducts` is one outcome of `GetCartCall`. Which goroutine's error wins is not told apart.
* Splitting the outbox insert from its commit is not needed for `EarlierEventsPublishedFirst`. Every transaction that writes an order's event first runs `SetStatus` on the order's row, so a second transaction on that order waits for the first one's commit before it inserts.

## Plan

1. Compose cart `AddItem` with the LOMS ledger, for the stale stock check (a cart can hold more than LOMS has).
2. Add passing runs with concurrent LOMS callers, restricted to the operations that cannot race.
