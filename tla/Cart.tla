-------------------------------- MODULE Cart --------------------------------
(***************************************************************************)
(* The cart service (src/cart/internal/service/cart) over its in-memory    *)
(* repository (src/cart/internal/repository/inmemory/cart).                *)
(*                                                                         *)
(* The repository is map[userID]map[skuID]uint16 behind one mutex: each of *)
(* its methods is one atomic step.  A service call is a sequence of such   *)
(* steps and remote calls (product service, LOMS), so HTTP requests served *)
(* on separate goroutines interleave between them.  LOMS is seen only      *)
(* through its replies: StocksInfo answers the available count of a SKU,   *)
(* and OrderCreate answers an order id or an error.                        *)
(***************************************************************************)
EXTENDS Integers

CONSTANTS
    User,           \* users with a cart
    Product,        \* SKUs a request may name
    Catalog,        \* the SKUs the product service knows
    Worker,         \* HTTP clients, each waiting for its own replies
    Owner,          \* Owner[w]: the user whose cart client w works on
    StockAvailable, \* what LOMS StocksInfo answers for each SKU
    Counts,         \* counts an AddItem request may carry (validated gt=0)
    UInt16,         \* 2^16, the modulus of the cart's uint16 counts
    MaxCalls,       \* HTTP calls in total
    MaxFailures     \* remote calls that fail (transport errors)

ASSUME Catalog \subseteq Product /\ Owner \in [Worker -> User]
ASSUME Counts \subseteq 1..(UInt16 - 1)

VARIABLES
    store,      \* Repository.store: user -> SKU -> count, or NoEntry
    expected,   \* what each cart should hold: the counts added and not yet
                \* removed or ordered, in unbounded arithmetic
    wpc,        \* where each client's current call is
    wsku,       \* the SKU of the current AddItem
    wcount,     \* the count of the current AddItem
    snap,       \* the cart Checkout read with GetCart
    calls,      \* HTTP calls so far
    failures    \* failed remote calls so far

cartVars == <<store, expected, wpc, wsku, wcount, snap, calls, failures>>

NoEntry == -1
Idle    == "idle"

Held(v) == IF v = NoEntry THEN 0 ELSE v

EmptyCart == [p \in Product |-> NoEntry]

-----------------------------------------------------------------------------
(* Repository methods, each under the mutex.                               *)

(* Add: store[userID][skuID] += count, creating the user's map if absent;  *)
(* the sum is a uint16.                                                    *)
Add(u, p, c) == [store EXCEPT ![u][p] = (Held(@) + c) % UInt16]

(* Mutation: the entry is set to zero instead of deleted.                 *)
DeleteItemZeroes(u, p) == [store EXCEPT ![u][p] = 0]

(* DeleteItem: delete(store[userID], skuID); a missing user is a no-op.   *)
DeleteItem(u, p) == [store EXCEPT ![u][p] = NoEntry]

(* Mutation: the user's map is left in place.                             *)
DeleteItemsByUserIDKeeps(u) == store

(* DeleteItemsByUserID: delete(store, userID).                             *)
DeleteItemsByUserID(u) == [store EXCEPT ![u] = EmptyCart]

(* GetCart: ErrCartNotFound / ErrCartEmpty when the user has no entry.     *)
CartEmpty(u) == \A p \in Product : store[u][p] = NoEntry

-----------------------------------------------------------------------------
(* The remote calls, by what they answer when they do not fail.            *)

(* ProductService.GetProduct: 200 with the product for a SKU the catalog   *)
(* knows, 404 (ErrNotFound) otherwise.                                      *)
ProductFound(p) == p \in Catalog

(* LOMS client StocksInfo: the count LOMS reports as available.            *)
StocksInfoCount(p) == StockAvailable[p]

-----------------------------------------------------------------------------
(* Service.AddItem: GetProduct, then StocksInfo, then Add.                 *)

AddItemStart(w, p, c) ==
    /\ wpc[w] = Idle
    /\ calls < MaxCalls
    /\ calls' = calls + 1
    /\ wpc' = [wpc EXCEPT ![w] = "product"]
    /\ wsku' = [wsku EXCEPT ![w] = p]
    /\ wcount' = [wcount EXCEPT ![w] = c]
    /\ UNCHANGED <<store, expected, snap, failures>>

(* GetProduct: an unknown SKU ends the call with ErrProductNotFound.       *)
AddItemGetProduct(w) ==
    /\ wpc[w] = "product"
    /\ wpc' = [wpc EXCEPT ![w] = IF ProductFound(wsku[w]) THEN "stocks" ELSE Idle]
    /\ UNCHANGED <<store, expected, wsku, wcount, snap, calls, failures>>

(* StocksInfo: ErrStocksNotEnough when fewer units are available than this *)
(* one request adds (the count already in the cart is not counted).        *)
AddItemStocksInfo(w) ==
    /\ wpc[w] = "stocks"
    /\ wpc' = [wpc EXCEPT ![w] =
                 IF StocksInfoCount(wsku[w]) < wcount[w] THEN Idle ELSE "add"]
    /\ UNCHANGED <<store, expected, wsku, wcount, snap, calls, failures>>

AddItemAdd(w) ==
    /\ wpc[w] = "add"
    /\ store' = Add(Owner[w], wsku[w], wcount[w])
    /\ expected' = [expected EXCEPT ![Owner[w]][wsku[w]] = @ + wcount[w]]
    /\ wpc' = [wpc EXCEPT ![w] = Idle]
    /\ UNCHANGED <<wsku, wcount, snap, calls, failures>>

(* Service.DeleteItem and Service.DeleteItemsByUserID: one repository call.*)
DeleteItemCall(w, p) ==
    /\ wpc[w] = Idle
    /\ calls < MaxCalls
    /\ calls' = calls + 1
    /\ store' = DeleteItem(Owner[w], p)
    /\ expected' = [expected EXCEPT ![Owner[w]][p] = 0]
    /\ UNCHANGED <<wpc, wsku, wcount, snap, failures>>

DeleteItemsCall(w) ==
    /\ wpc[w] = Idle
    /\ calls < MaxCalls
    /\ calls' = calls + 1
    /\ store' = DeleteItemsByUserID(Owner[w])
    /\ expected' = [expected EXCEPT ![Owner[w]] = [p \in Product |-> 0]]
    /\ UNCHANGED <<wpc, wsku, wcount, snap, failures>>

-----------------------------------------------------------------------------
(* Service.Checkout: GetCart, LOMS OrderCreate with those items, then      *)
(* DeleteItemsByUserID.                                                     *)

CheckoutGetCart(w) ==
    /\ wpc[w] = Idle
    /\ calls < MaxCalls
    /\ calls' = calls + 1
    /\ IF CartEmpty(Owner[w])
         THEN UNCHANGED <<wpc, snap>>                  \* ErrCartNotFound
         ELSE /\ snap' = [snap EXCEPT ![w] = store[Owner[w]]]
              /\ wpc' = [wpc EXCEPT ![w] = "create"]
    /\ UNCHANGED <<store, expected, wsku, wcount, failures>>

(* OrderCreate answered with an order id.                                  *)
CheckoutOrderCreate(w) ==
    /\ wpc[w] = "create"
    /\ wpc' = [wpc EXCEPT ![w] = "delete"]
    /\ UNCHANGED <<store, expected, wsku, wcount, snap, calls, failures>>

(* DeleteItemsByUserID: every item of the user goes.  What the cart       *)
(* should still hold is what it held beyond the ordered counts (nothing of *)
(* an item deleted meanwhile).                                             *)
Ordered(have, sent) == IF have > sent THEN have - sent ELSE 0

CheckoutDelete(w) ==
    /\ wpc[w] = "delete"
    /\ store' = DeleteItemsByUserID(Owner[w])
    /\ expected' = [expected EXCEPT ![Owner[w]] =
                      [p \in Product |-> Ordered(@[p], Held(snap[w][p]))]]
    /\ wpc' = [wpc EXCEPT ![w] = Idle]
    /\ UNCHANGED <<wsku, wcount, snap, calls, failures>>

(* GetProduct, StocksInfo or OrderCreate returns a transport error; the    *)
(* call returns it and the cart is not touched.                            *)
RemoteFail(w) ==
    /\ wpc[w] \in {"product", "stocks", "create"}
    /\ failures < MaxFailures
    /\ failures' = failures + 1
    /\ wpc' = [wpc EXCEPT ![w] = Idle]
    /\ UNCHANGED <<store, expected, wsku, wcount, snap, calls>>

(* Service.GetCart: the repository's GetCart (ErrCartNotFound for an empty *)
(* cart), then GetProducts for its SKUs.  GetProducts runs one GetProduct  *)
(* per SKU in an errgroup; the first error cancels the others and is the   *)
(* call's error.  The answer is not kept, so the call is one step.         *)
GetProductsFail ==
    /\ failures < MaxFailures
    /\ failures' = failures + 1

GetCartCall(w) ==
    /\ wpc[w] = Idle
    /\ calls < MaxCalls
    /\ calls' = calls + 1
    /\ \/ UNCHANGED failures
       \/ ~CartEmpty(Owner[w]) /\ GetProductsFail
    /\ UNCHANGED <<store, expected, wpc, wsku, wcount, snap>>

Waiting ==
    /\ \A w \in Worker : wpc[w] = Idle
    /\ UNCHANGED cartVars

Init ==
    /\ store = [u \in User |-> EmptyCart]
    /\ expected = [u \in User |-> [p \in Product |-> 0]]
    /\ wpc = [w \in Worker |-> Idle]
    /\ wsku = [w \in Worker |-> CHOOSE p \in Catalog : TRUE]
    /\ wcount = [w \in Worker |-> CHOOSE c \in Counts : TRUE]
    /\ snap = [w \in Worker |-> EmptyCart]
    /\ calls = 0
    /\ failures = 0

Next ==
    \/ \E w \in Worker :
          \/ \E p \in Product, c \in Counts : AddItemStart(w, p, c)
          \/ AddItemGetProduct(w)
          \/ AddItemStocksInfo(w)
          \/ AddItemAdd(w)
          \/ \E p \in Product : DeleteItemCall(w, p)
          \/ DeleteItemsCall(w)
          \/ CheckoutGetCart(w)
          \/ CheckoutOrderCreate(w)
          \/ CheckoutDelete(w)
          \/ RemoteFail(w)
          \/ GetCartCall(w)
    \/ Waiting

Spec == Init /\ [][Next]_cartVars

-----------------------------------------------------------------------------
(* Entries exist only with a positive count: Add creates them with a      *)
(* validated count > 0 and the deletes remove them.                        *)
TypeOK ==
    /\ store \in [User -> [Product -> {NoEntry} \cup 1..(UInt16 - 1)]]
    /\ expected \in [User -> [Product -> Nat]]
    /\ wpc \in [Worker -> {Idle, "product", "stocks", "add", "create", "delete"}]
    /\ wsku \in [Worker -> Product]
    /\ wcount \in [Worker -> Counts]
    /\ snap \in [Worker -> [Product -> {NoEntry} \cup 1..(UInt16 - 1)]]
    /\ calls \in 0..MaxCalls
    /\ failures \in 0..MaxFailures

(* A cart holds exactly what its user added and has neither removed nor   *)
(* checked out: Add sums the counts, DeleteItem / DeleteItemsByUserID      *)
(* remove them, and Checkout removes the items it ordered and no others.   *)
(* Breaks when the uint16 sum wraps, or when Checkout deletes items that   *)
(* were added after its GetCart and so were never ordered.                 *)
CartHoldsWhatWasAdded ==
    \A u \in User, p \in Product : Held(store[u][p]) = expected[u][p]

=============================================================================
