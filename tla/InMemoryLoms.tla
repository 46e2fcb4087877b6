--------------------------- MODULE InMemoryLoms ----------------------------
(***************************************************************************)
(* LOMS over its in-memory repositories: the stock repository              *)
(* (src/loms/internal/repository/inmemory/stock) and the order repository  *)
(* (.../inmemory/order), the alternative to Postgres that the service      *)
(* provider can construct.                                                 *)
(*                                                                         *)
(* Each repository method holds the repository's mutex for its whole run.  *)
(* One request goroutine calls the order workflows, so a whole orderCreate *)
(* (Create, Reserve, SetStatus) or orderCancel (GetByID, ReserveCancel,    *)
(* SetStatus) is one step.  Reserve and ReserveCancel walk the batch item  *)
(* by item and return at the first error, keeping what the earlier items   *)
(* changed.  Counts are uint64.  Batches are sequences, so a batch may     *)
(* name a SKU twice or a SKU the repository does not hold.  Order ids come *)
(* from ordersCounter, which starts at 0.  The outbox stays in Postgres    *)
(* and is left out here (see Outbox).                                      *)
(***************************************************************************)
EXTENDS Integers, Sequences, FiniteSetsExt

CONSTANTS
    Known,              \* SKUs with an entry in the repository's map
    Unknown,            \* SKUs a request may name that have no entry
    InitTotal,          \* TotalCount of each entry, from stock-data.json
    InitReserved,       \* Reserved of each entry, from stock-data.json
    MaxCount,           \* largest count of one item
    BatchLen,           \* longest batch
    UInt64,             \* stands for 2^64 (see StockLedger)
    MaxCalls,           \* workflow calls in total
    CallerChecksStatus  \* TRUE: only orders awaiting payment are cancelled

ASSUME \A s \in Known : InitReserved[s] <= InitTotal[s]
ASSUME \A s \in Known : InitTotal[s] < UInt64
ASSUME Known \cap Unknown = {}

VARIABLES
    stock,      \* stock repository: Known -> [total, reserved]
    orders,     \* order repository: id -> [status, batch]
    counter,    \* the order repository's ordersCounter
    calls       \* workflow calls so far

memVars == <<stock, orders, counter, calls>>

Nil                  == "nil"
ErrSKUNotFound       == "ErrSKUNotFound"
ErrInsufficientStock == "ErrInsufficientStock"

New             == "new"
AwaitingPayment == "awaiting payment"
Failed          == "failed"
Cancelled       == "cancelled"
Absent          == "absent"

Items    == [sku : Known \cup Unknown, count : 1..MaxCount]
Batches  == UNION {[1..n -> Items] : n \in 1..BatchLen}
OrderIds == 0..(MaxCalls - 1)

-----------------------------------------------------------------------------
(* Mutation: the entry is read once before the loop, so a SKU named twice  *)
(* is checked and updated against its value before the batch.              *)
ReserveLoopStale(st, items) ==
    LET RECURSIVE Go(_, _)
        Go(cur, its) ==
          IF its = <<>> THEN [stock |-> cur, err |-> Nil]
          ELSE LET it == Head(its) IN
            IF it.sku \notin DOMAIN st
              THEN [stock |-> cur, err |-> ErrSKUNotFound]
            ELSE IF (st[it.sku].reserved + it.count) % UInt64 > st[it.sku].total
              THEN [stock |-> cur, err |-> ErrInsufficientStock]
            ELSE Go([cur EXCEPT ![it.sku].reserved =
                       (st[it.sku].reserved + it.count) % UInt64], Tail(its))
    IN Go(st, items)

(* Mutation: the check compares the item's count with TotalCount alone,   *)
(* forgetting what is already reserved.                                    *)
RECURSIVE ReserveLoopIgnoresReserved(_, _)
ReserveLoopIgnoresReserved(st, items) ==
    IF items = <<>> THEN [stock |-> st, err |-> Nil]
    ELSE LET it == Head(items) IN
      IF it.sku \notin DOMAIN st
        THEN [stock |-> st, err |-> ErrSKUNotFound]
      ELSE IF it.count > st[it.sku].total
        THEN [stock |-> st, err |-> ErrInsufficientStock]
      ELSE ReserveLoopIgnoresReserved(
             [st EXCEPT ![it.sku].reserved = (@ + it.count) % UInt64], Tail(items))

(* Repository.Reserve: for each item, ErrSKUNotFound if the SKU has no     *)
(* entry, ErrInsufficientStock if Reserved+Count > TotalCount (a uint64    *)
(* sum), else Reserved += Count.  The result is the map after the loop     *)
(* and the error it returned with.                                         *)
RECURSIVE ReserveLoop(_, _)
ReserveLoop(st, items) ==
    IF items = <<>> THEN [stock |-> st, err |-> Nil]
    ELSE LET it == Head(items) IN
      IF it.sku \notin DOMAIN st
        THEN [stock |-> st, err |-> ErrSKUNotFound]
      ELSE IF (st[it.sku].reserved + it.count) % UInt64 > st[it.sku].total
        THEN [stock |-> st, err |-> ErrInsufficientStock]
      ELSE ReserveLoop([st EXCEPT ![it.sku].reserved = (@ + it.count) % UInt64],
                       Tail(items))

(* Repository.ReserveCancel: for each item, ErrSKUNotFound if the SKU has  *)
(* no entry, else Reserved -= Count, a uint64 difference with no check.    *)
RECURSIVE CancelLoop(_, _)
CancelLoop(st, items) ==
    IF items = <<>> THEN [stock |-> st, err |-> Nil]
    ELSE LET it == Head(items) IN
      IF it.sku \notin DOMAIN st
        THEN [stock |-> st, err |-> ErrSKUNotFound]
      ELSE CancelLoop([st EXCEPT ![it.sku].reserved = (@ - it.count) % UInt64],
                      Tail(items))

-----------------------------------------------------------------------------
(* The order repository.                                                   *)

(* Create: orderID = ordersCounter, ordersCounter++, store the order.      *)
Create(os, id, b) == [os EXCEPT ![id] = [status |-> New, batch |-> b]]

(* SetStatus: ErrOrderNotFound for an id never created, else set it.       *)
SetStatus(os, id, st) ==
    IF os[id].status = Absent THEN os ELSE [os EXCEPT ![id].status = st]

(* GetByID: ErrOrderNotFound for an id never created.                      *)
Found(id) == orders[id].status # Absent

-----------------------------------------------------------------------------
(* orderCreate: Create (New), Reserve, then SetStatus Failed on a Reserve  *)
(* error or AwaitingPayment.  The caller gets the id, or 0 with the error. *)
OrderCreate(b) ==
    /\ calls < MaxCalls
    /\ calls' = calls + 1
    /\ counter' = counter + 1
    /\ LET r == ReserveLoop(stock, b)
       IN /\ stock' = r.stock
          /\ orders' = SetStatus(Create(orders, counter, b), counter,
                                 IF r.err = Nil THEN AwaitingPayment ELSE Failed)

(* orderCancel: GetByID, ReserveCancel of its items, SetStatus Cancelled.  *)
(* A ReserveCancel error returns before SetStatus, keeping what the items  *)
(* before the failing one released.  Callers that check the status cancel *)
(* only orders awaiting payment; others may name any id.                   *)
OrderCancel(o) ==
    /\ calls < MaxCalls
    /\ ~CallerChecksStatus \/ orders[o].status = AwaitingPayment
    /\ calls' = calls + 1
    /\ IF ~Found(o)
         THEN UNCHANGED <<stock, orders>>
         ELSE LET r == CancelLoop(stock, orders[o].batch)
              IN /\ stock' = r.stock
                 /\ orders' = IF r.err = Nil THEN SetStatus(orders, o, Cancelled)
                                             ELSE orders
    /\ UNCHANGED counter

Done ==
    /\ calls = MaxCalls
    /\ UNCHANGED memVars

Init ==
    /\ stock = [s \in Known |-> [total |-> InitTotal[s],
                                 reserved |-> InitReserved[s]]]
    /\ orders = [o \in OrderIds |-> [status |-> Absent, batch |-> <<>>]]
    /\ counter = 0
    /\ calls = 0

Next ==
    \/ \E b \in Batches : OrderCreate(b)
    \/ \E o \in OrderIds : OrderCancel(o)
    \/ Done

Spec == Init /\ [][Next]_memVars

-----------------------------------------------------------------------------
(* Units of SKU s that batch b asks for, counting every item naming s.     *)
BatchCount(b, s) ==
    MapThenSumSet(LAMBDA i : b[i].count, {i \in DOMAIN b : b[i].sku = s})

(* Units of s held by the orders awaiting payment.                         *)
HeldCount(s) ==
    MapThenSumSet(LAMBDA o : BatchCount(orders[o].batch, s),
                  {o \in OrderIds : orders[o].status = AwaitingPayment})

(* The ledger row invariant, 0 <= reserved <= total: Reserve's per-item    *)
(* check keeps it, also for a SKU named twice in one batch, as long as no  *)
(* cancel releases more than was reserved.                                 *)
ReservedWithinTotal ==
    \A s \in Known : stock[s].reserved <= stock[s].total

(* Every order awaiting payment is backed by the ledger: reserved is at    *)
(* least the initial value plus what those orders asked for, every unit of *)
(* a repeated SKU included.                                                *)
HeldCovered ==
    \A s \in Known : stock[s].reserved >= InitReserved[s] + HeldCount(s)

=============================================================================
