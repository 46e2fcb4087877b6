-------------------------------- MODULE Loms --------------------------------
(***************************************************************************)
(* The order/stock consistency engine of LOMS: the order workflows of      *)
(* service/order (orderCreate, OrderCancel, OrderPay) run by concurrent    *)
(* request goroutines against the Postgres order, stock and outbox         *)
(* repositories, together with the outbox dispatcher goroutine.            *)
(*                                                                         *)
(* Every workflow is a sequence of transactions.  A transaction is split   *)
(* into its reads, taken from committed state (ReadCommitted, no row       *)
(* locks on SELECT), and one step that applies its writes and commits.     *)
(* UPDATEs of the form x = x + c wait for the row lock and re-read the     *)
(* row, so applying them at commit time against the committed value is    *)
(* what Postgres does.  Any statement or the commit may fail; the          *)
(* transaction is then rolled back (TxManager.transaction, CreateTx).      *)
(*                                                                         *)
(* The process may crash: every in-flight transaction is rolled back, the  *)
(* goroutines are gone, committed rows and Kafka messages stay.  NewService *)
(* starts a fresh dispatcher on restart.                                   *)
(***************************************************************************)
EXTENDS Integers, FiniteSets, FiniteSetsExt, StockLedger, Outbox

CONSTANTS
    Handler,            \* request goroutines serving gRPC calls
    MaxOrders,          \* order ids the sequence hands out
    MaxCount,           \* largest count of one SKU in an order
    MaxRequests,        \* gRPC calls the clients make in total
    MaxCrashes,         \* process crashes
    Replica,            \* read replicas (the replica DSNs); with none,
                        \* ReplicaDB returns the master
    CallerChecksStatus  \* TRUE: clients call OrderPay / OrderCancel only on
                        \* an order they see in "awaiting payment" (the
                        \* precondition the service itself does not check)

ASSUME MaxOrders \in Nat /\ MaxCount \in Nat \ {0} /\ MaxRequests \in Nat
ASSUME MaxCrashes \in Nat /\ MaxFailures \in Nat
ASSUME CallerChecksStatus \in BOOLEAN

VARIABLES
    status,     \* orders.status per order id, Absent if not created
    items,      \* orders_to_items per order id
    nextOrder,  \* next value of the order id sequence
    pc,         \* where each request goroutine is in its workflow
    ord,        \* the order a goroutine works on
    requests,   \* gRPC calls accepted so far
    crashes,    \* process crashes so far
    replied,    \* order ids CreateOrder calls returned with no error
    holding,    \* history: orders whose reservation is committed in
                \* `reserved` and not yet released or consumed
    replica     \* orders.status as each read replica has replayed it

vars == <<total, reserved, status, items, nextOrder, outbox, bus, dpc, devent,
          failures, pc, ord, requests, crashes, replied, holding,
          replica>>

(* ordermodels.Status *)
New             == "new"
AwaitingPayment == "awaiting payment"
Failed          == "failed"
Payed           == "payed"
Cancelled       == "cancelled"
Absent          == "absent"

Status == {New, AwaitingPayment, Failed, Payed, Cancelled}

OrderIds == 1..MaxOrders
NoOrder  == 0

ItemSets == {it \in [SKU -> 0..MaxCount] : \E s \in SKU : it[s] > 0}
NoItems  == [s \in SKU |-> 0]

(* Each call writes at most two events (orderCreate: New, then its outcome). *)
MaxEvents == 2 * MaxRequests

Idle == "idle"

-----------------------------------------------------------------------------
(* Helpers shared by the steps.                                            *)

Goto(h, to) == pc' = [pc EXCEPT ![h] = to]

(* SetStatus + CreateOrderStatusChangedEvent in one committed transaction. *)
CommitStatus(o, st) ==
    /\ status' = [status EXCEPT ![o] = st]
    /\ outbox' = CreateOrderStatusChangedEvent(o, st)

(* A statement or the commit of the goroutine's transaction returned an    *)
(* error: the transaction is rolled back and the workflow continues at     *)
(* `to` (the error path of the code).                                       *)
TxFail(h, from, to) ==
    /\ pc[h] = from
    /\ failures < MaxFailures
    /\ failures' = failures + 1
    /\ Goto(h, to)
    /\ UNCHANGED <<replica, holding, total, reserved, status, items, nextOrder, outbox, bus,
                   dpc, devent, ord, requests, crashes, replied>>

(* A client may call OrderPay / OrderCancel with order id o.  Ids not yet   *)
(* created are always possible (they take the ErrOrderNotFound path).      *)
CallerMayTarget(o) ==
    \/ ~CallerChecksStatus
    \/ status[o] \in {Absent, AwaitingPayment}

-----------------------------------------------------------------------------
(* orderCreate (service/order/ordercreate.go).                             *)

(* First transaction: Create the order with status New and write the New   *)
(* event, commit.  The order id comes from the sequence.                   *)
OrderCreateTx(h, it) ==
    /\ pc[h] = Idle
    /\ requests < MaxRequests
    /\ nextOrder \in OrderIds
    /\ requests' = requests + 1
    /\ items' = [items EXCEPT ![nextOrder] = it]
    /\ CommitStatus(nextOrder, New)
    /\ nextOrder' = nextOrder + 1
    /\ ord' = [ord EXCEPT ![h] = nextOrder]
    /\ Goto(h, "reserve")
    /\ UNCHANGED <<replica, holding, total, reserved, bus, dpc, devent, failures, crashes, replied>>

(* The gRPC CreateOrder handler calls the exported Service.OrderCreate,   *)
(* which records a span and returns (orderID, nil) with orderID never      *)
(* assigned: it does not call orderCreate.  The caller gets order id 0.    *)
OrderCreateExported(h) ==
    /\ pc[h] = Idle
    /\ requests < MaxRequests
    /\ requests' = requests + 1
    /\ replied' = replied \cup {NoOrder}
    /\ UNCHANGED <<replica, holding, total, reserved, status, items, nextOrder, outbox, bus,
                   dpc, devent, failures, pc, ord, crashes>>

(* The same call whose first transaction fails: (0, err), nothing created. *)
OrderCreateTxFail(h) ==
    /\ pc[h] = Idle
    /\ requests < MaxRequests
    /\ failures < MaxFailures
    /\ requests' = requests + 1
    /\ failures' = failures + 1
    /\ UNCHANGED <<replica, holding, total, reserved, status, items, nextOrder, outbox, bus,
                   dpc, devent, pc, ord, crashes, replied>>

(* stockService.Reserve -> postgres stock Repository.Reserve, in its own   *)
(* transaction (the caller's ctx carries none): read availability, check.  *)
ReserveCheck(h) ==
    /\ pc[h] = "reserve"
    /\ IF ReserveFits(items[ord[h]])
         THEN Goto(h, "reserve_commit")
         ELSE Goto(h, "mark_failed")           \* ErrInsufficientStock
    /\ UNCHANGED <<replica, holding, total, reserved, status, items, nextOrder, outbox, bus,
                   dpc, devent, failures, ord, requests, crashes, replied>>

(* UpdateReservedItems and commit.                                         *)
ReserveCommit(h) ==
    /\ pc[h] = "reserve_commit"
    /\ reserved' = ReserveApply(items[ord[h]])
    /\ holding' = holding \cup {ord[h]}
    /\ Goto(h, "mark_awaiting")
    /\ UNCHANGED <<replica, total, status, items, nextOrder, outbox, bus, dpc, devent,
                   failures, ord, requests, crashes, replied>>

(* Reserve failed: SetStatus Failed + Failed event in a new transaction.   *)
(* If this transaction fails too, the order stays New.                     *)
(* Mutation: the Failed status is set without its outbox event.           *)
MarkFailedNoEvent(h) ==
    /\ pc[h] = "mark_failed"
    /\ status' = [status EXCEPT ![ord[h]] = Failed]
    /\ Goto(h, Idle)
    /\ UNCHANGED <<replica, holding, total, reserved, items, nextOrder, outbox, bus, dpc, devent,
                   failures, ord, requests, crashes, replied>>

MarkFailed(h) ==
    /\ pc[h] = "mark_failed"
    /\ CommitStatus(ord[h], Failed)
    /\ Goto(h, Idle)
    /\ UNCHANGED <<replica, holding, total, reserved, items, nextOrder, bus, dpc, devent,
                   failures, ord, requests, crashes, replied>>

(* Reserve succeeded: SetStatus AwaitingPayment + event.                   *)
MarkAwaiting(h) ==
    /\ pc[h] = "mark_awaiting"
    /\ CommitStatus(ord[h], AwaitingPayment)
    /\ Goto(h, Idle)
    /\ replied' = replied \cup {ord[h]}
    /\ UNCHANGED <<replica, holding, total, reserved, items, nextOrder, bus, dpc, devent,
                   failures, ord, requests, crashes>>

-----------------------------------------------------------------------------
(* OrderCancel (service/order/ordercancel.go) and OrderPay: one            *)
(* ReadCommitted transaction each.  GetByID reads the order; the status it *)
(* reads is never checked.                                                 *)

(* The call arrives and GetByID runs.  An id that is not committed yet     *)
(* returns ErrOrderNotFound.                                               *)
OrderStart(h, o, next) ==
    /\ pc[h] = Idle
    /\ requests < MaxRequests
    /\ CallerMayTarget(o)
    /\ requests' = requests + 1
    /\ IF status[o] = Absent
         THEN UNCHANGED <<pc, ord>>
         ELSE /\ Goto(h, next)
              /\ ord' = [ord EXCEPT ![h] = o]
    /\ UNCHANGED <<replica, holding, total, reserved, status, items, nextOrder, outbox, bus,
                   dpc, devent, failures, crashes, replied>>

OrderCancelStart(h, o) == OrderStart(h, o, "cancel")

(* Mutation: the cancel releases with ReserveRemove, as OrderPay does, so  *)
(* the units also leave total_count.                                       *)
OrderCancelCommitRemoves(h) ==
    /\ pc[h] = "cancel"
    /\ reserved' = ReserveRemoveReserved(items[ord[h]])
    /\ total' = ReserveRemoveTotal(items[ord[h]])
    /\ CommitStatus(ord[h], Cancelled)
    /\ holding' = holding \ {ord[h]}
    /\ Goto(h, Idle)
    /\ UNCHANGED <<replica, items, nextOrder, bus, dpc, devent, failures, ord,
                   requests, crashes, replied>>

(* ReserveCancel, SetStatus Cancelled, Cancelled event, commit.            *)
OrderCancelCommit(h) ==
    /\ pc[h] = "cancel"
    /\ reserved' = ReserveCancelApply(items[ord[h]])
    /\ CommitStatus(ord[h], Cancelled)
    /\ holding' = holding \ {ord[h]}
    /\ Goto(h, Idle)
    /\ UNCHANGED <<replica, total, items, nextOrder, bus, dpc, devent, failures, ord,
                   requests, crashes, replied>>

OrderPayStart(h, o) == OrderStart(h, o, "pay")

(* ReserveRemove, SetStatus Payed, Payed event, commit.                    *)
OrderPayCommit(h) ==
    /\ pc[h] = "pay"
    /\ reserved' = ReserveRemoveReserved(items[ord[h]])
    /\ total' = ReserveRemoveTotal(items[ord[h]])
    /\ CommitStatus(ord[h], Payed)
    /\ holding' = holding \ {ord[h]}
    /\ Goto(h, Idle)
    /\ UNCHANGED <<replica, items, nextOrder, bus, dpc, devent, failures, ord,
                   requests, crashes, replied>>

-----------------------------------------------------------------------------
(* The read-only calls.  Each reads committed rows in one statement and    *)
(* writes nothing, so it is one step whatever it answers.                  *)

(* pg.Client.ReplicaDB: a statement outside a transaction runs on a       *)
(* replica chosen by rand.Intn, on the master when none is configured.     *)
(* The orders.status such a statement may read:                            *)
ReplicaStatuses ==
    IF Replica = {} THEN {status} ELSE {replica[r] : r \in Replica}

(* OrderInfo: GetByID with no transaction in ctx, so on ReplicaDB;         *)
(* ErrOrderNotFound (codes.NotFound) for an id the replica does not have,  *)
(* else its status, user and items, repacked for gRPC.                     *)
OrderInfoCall(h, o) ==
    /\ pc[h] = Idle
    /\ requests < MaxRequests
    /\ requests' = requests + 1
    /\ UNCHANGED <<replica, holding, total, reserved, status, items, nextOrder, outbox, bus,
                   dpc, devent, failures, pc, ord, crashes, replied>>

(* StocksInfo: GetBySKU on the replica, then TotalCount - Reserved.        *)
StocksInfoCall(h, s) ==
    /\ pc[h] = Idle
    /\ requests < MaxRequests
    /\ requests' = requests + 1
    /\ UNCHANGED <<replica, holding, total, reserved, status, items, nextOrder, outbox, bus,
                   dpc, devent, failures, pc, ord, crashes, replied>>

(* Postgres streaming replication: a replica replays the master's WAL in  *)
(* commit order, so it is always some earlier committed state and catches  *)
(* up to the current one.                                                  *)
ReplicaCatchUp(r) ==
    /\ replica[r] # status
    /\ replica' = [replica EXCEPT ![r] = status]
    /\ UNCHANGED <<holding, total, reserved, status, items, nextOrder, outbox,
                   bus, dpc, devent, failures, pc, ord, requests, crashes,
                   replied>>

-----------------------------------------------------------------------------
(* The process dies: in-flight transactions roll back, goroutines are      *)
(* gone; on restart NewService starts a new dispatcher.                    *)
Crash ==
    /\ crashes < MaxCrashes
    /\ \/ \E h \in Handler : pc[h] # Idle
       \/ dpc # "idle"
    /\ crashes' = crashes + 1
    /\ pc' = [h \in Handler |-> Idle]
    /\ dpc' = "idle"
    /\ UNCHANGED <<replica, holding, total, reserved, status, items, nextOrder, outbox, bus,
                   devent, failures, ord, requests, replied>>

(* All goroutines idle: the server waits for calls.                        *)
Waiting ==
    /\ \A h \in Handler : pc[h] = Idle
    /\ dpc = "idle"
    /\ UNCHANGED vars

DispatcherNext ==
    /\ DispatcherStep
    /\ UNCHANGED <<replica, holding, total, reserved, status, items, nextOrder, pc, ord,
                   requests, crashes, replied>>

(* The steps of a call already in progress.                                *)
HandlerStep(h) ==
    \/ ReserveCheck(h)
    \/ TxFail(h, "reserve", "mark_failed")
    \/ ReserveCommit(h)
    \/ TxFail(h, "reserve_commit", "mark_failed")
    \/ MarkFailed(h)
    \/ TxFail(h, "mark_failed", Idle)
    \/ MarkAwaiting(h)
    \/ TxFail(h, "mark_awaiting", Idle)
    \/ OrderCancelCommit(h)
    \/ TxFail(h, "cancel", Idle)
    \/ OrderPayCommit(h)
    \/ TxFail(h, "pay", Idle)

(* A new call arriving.                                                    *)
HandlerCall(h) ==
    \/ \E it \in ItemSets : OrderCreateTx(h, it)
    \/ OrderCreateTxFail(h)
    \/ OrderCreateExported(h)
    \/ \E o \in OrderIds : OrderCancelStart(h, o)
    \/ \E o \in OrderIds : OrderPayStart(h, o)
    \/ \E o \in OrderIds : OrderInfoCall(h, o)
    \/ \E s \in SKU : StocksInfoCall(h, s)

Init ==
    /\ total = InitTotal
    /\ reserved = [s \in SKU |-> 0]
    /\ status = [o \in OrderIds |-> Absent]
    /\ items = [o \in OrderIds |-> NoItems]
    /\ nextOrder = 1
    /\ outbox = <<>>
    /\ bus = <<>>
    /\ dpc = "idle"
    /\ devent = 0
    /\ failures = 0
    /\ pc = [h \in Handler |-> Idle]
    /\ ord = [h \in Handler |-> NoOrder]
    /\ requests = 0
    /\ crashes = 0
    /\ replied = {}
    /\ holding = {}
    /\ replica = [r \in Replica |-> [o \in OrderIds |-> Absent]]

Next ==
    \/ \E h \in Handler : HandlerCall(h) \/ HandlerStep(h)
    \/ DispatcherNext
    \/ \E r \in Replica : ReplicaCatchUp(r)
    \/ Crash
    \/ Waiting

(* The dispatcher loop never stops while the process runs, and a request   *)
(* goroutine runs its call to the end (blocking I/O returns); clients are  *)
(* not obliged to call.  A replica keeps replaying the WAL.               *)
Fairness ==
    /\ WF_vars(DispatcherNext)
    /\ \A r \in Replica : WF_vars(ReplicaCatchUp(r))
    /\ \A h \in Handler : WF_vars(HandlerStep(h))

Spec == Init /\ [][Next]_vars /\ Fairness

-----------------------------------------------------------------------------
(* Invariants and properties.                                              *)

TypeOK ==
    /\ total \in [SKU -> Int]
    /\ reserved \in [SKU -> Int]
    /\ status \in [OrderIds -> Status \cup {Absent}]
    /\ items \in [OrderIds -> ItemSets \cup {NoItems}]
    /\ nextOrder \in 1..MaxOrders + 1
    /\ outbox \in Seq([order : OrderIds, status : Status, sent : BOOLEAN])
    /\ bus \in Seq(1..Len(outbox))
    /\ dpc \in {"idle", "fetched", "published"}
    /\ devent \in 0..Len(outbox)
    /\ failures \in 0..MaxFailures
    /\ pc \in [Handler -> {Idle, "reserve", "reserve_commit", "mark_failed",
                           "mark_awaiting", "cancel", "pay"}]
    /\ ord \in [Handler -> OrderIds \cup {NoOrder}]
    /\ requests \in 0..MaxRequests
    /\ crashes \in 0..MaxCrashes
    /\ replied \subseteq OrderIds \cup {NoOrder}
    /\ holding \subseteq OrderIds
    /\ replica \in [Replica -> [OrderIds -> Status \cup {Absent}]]

OrdersIn(S) == {o \in OrderIds : status[o] \in S}

(* Units of SKU s held by the orders whose status is in S.                 *)
Held(S, s) == MapThenSumSet(LAMBDA o : items[o][s], OrdersIn(S))

(* The ledger row invariant the spec states for every committed state:     *)
(* 0 <= reserved <= total_count.  Reserve's availability check is what     *)
(* keeps it; ReserveCancel and ReserveRemove must not release more than   *)
(* was reserved.                                                           *)
StockWithinCapacity ==
    \A s \in SKU : 0 <= reserved[s] /\ reserved[s] <= total[s]

(* StocksInfo answers what the spec states, totalCount - reserved floored *)
(* at zero.  The service computes it in uint64, where its `count < 0`     *)
(* floor is dead code: once a race leaves reserved above total_count the  *)
(* answer wraps to nearly 2^64, and the cart's AddItem accepts any count.  *)
StocksInfoFloored ==
    \A s \in SKU : StocksInfo(s) = Floor0(total[s] - reserved[s])

(* reserved is exactly the stock held for orders: at least what every      *)
(* order awaiting payment holds, and nothing beyond what awaiting and New  *)
(* orders (whose reservation may have committed before their status) can   *)
(* hold.  Breaks when a cancel or payment releases twice, releases what an *)
(* order never reserved, or a failed order keeps its reservation.          *)
ReservationsCoverAwaitingOrders ==
    \A s \in SKU :
        /\ Held({AwaitingPayment}, s) <= reserved[s]
        /\ reserved[s] <= Held({AwaitingPayment, New}, s)

(* Stock leaves the ledger only by payment: total_count is the initial     *)
(* stock minus what the payed orders bought (ReserveRemove's decrease of   *)
(* total_count, in the same transaction as SetStatus Payed).               *)
ConsumedMatchesPayed ==
    \A s \in SKU : total[s] = InitTotal[s] - Held({Payed}, s)

(* Outbox written with the status: every created order has events, the     *)
(* first is New and the newest carries the status the order has now, so a  *)
(* consumer that applies them ends where the database is.                  *)
OutboxTracksStatus ==
    \A o \in OrderIds : status[o] # Absent =>
        LET evs == SelectSeq(outbox, LAMBDA e : e.order = o)
        IN  /\ evs # <<>>
            /\ evs[1].status = New
            /\ evs[Len(evs)].status = status[o]

(* The lifecycle: New -> AwaitingPayment | Failed, AwaitingPayment ->      *)
(* Payed | Cancelled; Failed, Payed, Cancelled are terminal.  SetStatus    *)
(* does not check it; the workflows and their callers must.                *)
Lifecycle == {<<Absent, New>>, <<New, AwaitingPayment>>, <<New, Failed>>,
              <<AwaitingPayment, Payed>>, <<AwaitingPayment, Cancelled>>}

TransitionsFollowLifecycle ==
    [][\A o \in OrderIds :
         status'[o] # status[o] => <<status[o], status'[o]>> \in Lifecycle]_vars

(* orderCreate appears atomic: an order does not stay New; the workflow     *)
(* moves it on to AwaitingPayment or Failed even when one of its steps     *)
(* fails or the process dies half-way.                                     *)
NoOrderStuckInNew ==
    \A o \in OrderIds : (status[o] = New) ~> (status[o] # New)

(* At-least-once delivery of the outbox: every committed event is          *)
(* eventually on the Kafka topic and marked sent, whatever publish, mark   *)
(* and commit errors and crashes (finitely many) happen in between.        *)
EveryEventDelivered ==
    \A i \in 1..MaxEvents :
        (Len(outbox) >= i) ~> (Len(outbox) >= i /\ outbox[i].sent)

(* OrderCreate returns the id of the order it created: every id a         *)
(* CreateOrder call returned without error names an order in the orders    *)
(* table (the spec: "OrderCreate(userID, items) -> orderID").  The gRPC    *)
(* handler returns whatever the exported Service.OrderCreate returns.      *)
CreateRepliesNameOrders ==
    \A id \in replied : id \in OrderIds /\ status[id] # Absent

(* The spec's read-your-writes promise: OrderCreate followed by OrderInfo  *)
(* returns awaiting payment (or failed), never New.  Once CreateOrder has  *)
(* returned an id, every status an OrderInfo call may read for it is past  *)
(* New.  GetByID reads whichever replica ReplicaDB picks, which may not    *)
(* have replayed the commits orderCreate just made.                        *)
InfoAfterCreateNotNew ==
    \A o \in replied \cap OrderIds, st \in ReplicaStatuses :
        st[o] \notin {Absent, New}

-----------------------------------------------------------------------------
(* Refinement.  Status, items and the ledger map to themselves, and the    *)
(* history variable holding names the orders whose reservation is in      *)
(* reserved.  Reads, failed transactions, the outbox, the dispatcher and   *)
(* crashes are stuttering steps of the abstract lifecycle.                 *)
Abstract == INSTANCE OrderLifecycle WITH Orders <- OrderIds, Batches <- ItemSets

(* Every committed transaction of orderCreate, OrderCancel and OrderPay is *)
(* one step of the lifecycle of OrderLifecycle: a reservation commits only *)
(* if the batch fits the ledger as committed at that moment, an order is   *)
(* accepted only holding its reservation and failed only holding nothing,  *)
(* and payment and cancellation move the ledger by exactly the order's     *)
(* items.                                                                  *)
ImplementsLifecycle == Abstract!Spec

=============================================================================
