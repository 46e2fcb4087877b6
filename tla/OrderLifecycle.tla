--------------------------- MODULE OrderLifecycle ---------------------------
(***************************************************************************)
(* What LOMS promises about orders and stock, with no transactions,        *)
(* goroutines, outbox or failures: each order moves through its lifecycle  *)
(* one atomic step at a time, and every step moves the stock ledger by     *)
(* exactly the order's items.                                              *)
(*                                                                         *)
(*   Place    an order is created New with its items;                      *)
(*   Reserve  a New order takes its items out of what is available, only   *)
(*            if every item fits (all-or-nothing);                         *)
(*   Accept   a New order holding its reservation awaits payment;          *)
(*   Reject   a New order holding nothing fails;                           *)
(*   Pay      an order awaiting payment consumes its reservation: the      *)
(*            units leave both reserved and total_count;                   *)
(*   Cancel   an order awaiting payment returns its reservation.           *)
(*                                                                         *)
(* `holding` is the set of orders whose reservation is in `reserved`.  The *)
(* specification is a safety one: it does not promise that a New order is  *)
(* ever accepted or rejected (Loms's stuck_new run shows the code cannot   *)
(* promise it across a crash).                                             *)
(***************************************************************************)
EXTENDS Integers

CONSTANTS
    Orders,     \* order ids
    SKU,        \* SKUs with a stock row
    Batches,    \* the item batches an order may carry: SKU -> count
    InitTotal   \* total_count of each SKU at start

VARIABLES status, items, total, reserved, holding

vars == <<status, items, total, reserved, holding>>

New             == "new"
AwaitingPayment == "awaiting payment"
Failed          == "failed"
Payed           == "payed"
Cancelled       == "cancelled"
Absent          == "absent"

NoBatch == [s \in SKU |-> 0]

Fits(it) == \A s \in SKU : it[s] <= total[s] - reserved[s]

Place(o, it) ==
    /\ status[o] = Absent
    /\ status' = [status EXCEPT ![o] = New]
    /\ items' = [items EXCEPT ![o] = it]
    /\ UNCHANGED <<total, reserved, holding>>

Reserve(o) ==
    /\ status[o] = New
    /\ o \notin holding
    /\ Fits(items[o])
    /\ reserved' = [s \in SKU |-> reserved[s] + items[o][s]]
    /\ holding' = holding \cup {o}
    /\ UNCHANGED <<status, items, total>>

Accept(o) ==
    /\ status[o] = New
    /\ o \in holding
    /\ status' = [status EXCEPT ![o] = AwaitingPayment]
    /\ UNCHANGED <<items, total, reserved, holding>>

Reject(o) ==
    /\ status[o] = New
    /\ o \notin holding
    /\ status' = [status EXCEPT ![o] = Failed]
    /\ UNCHANGED <<items, total, reserved, holding>>

Pay(o) ==
    /\ status[o] = AwaitingPayment
    /\ status' = [status EXCEPT ![o] = Payed]
    /\ total' = [s \in SKU |-> total[s] - items[o][s]]
    /\ reserved' = [s \in SKU |-> reserved[s] - items[o][s]]
    /\ holding' = holding \ {o}
    /\ UNCHANGED items

Cancel(o) ==
    /\ status[o] = AwaitingPayment
    /\ status' = [status EXCEPT ![o] = Cancelled]
    /\ reserved' = [s \in SKU |-> reserved[s] - items[o][s]]
    /\ holding' = holding \ {o}
    /\ UNCHANGED <<items, total>>

Init ==
    /\ status = [o \in Orders |-> Absent]
    /\ items = [o \in Orders |-> NoBatch]
    /\ total = InitTotal
    /\ reserved = [s \in SKU |-> 0]
    /\ holding = {}

Next ==
    \E o \in Orders :
        \/ \E it \in Batches : Place(o, it)
        \/ Reserve(o)
        \/ Accept(o)
        \/ Reject(o)
        \/ Pay(o)
        \/ Cancel(o)

Spec == Init /\ [][Next]_vars

=============================================================================
