---------------------------- MODULE StockLedger ----------------------------
(***************************************************************************)
(* The stock ledger of LOMS: the `items` table of the Postgres repository  *)
(* (src/loms/internal/repository/postgres/stock), one row per SKU with     *)
(* total_count and reserved.                                               *)
(*                                                                         *)
(* The module holds the ledger's state and the effect of each repository   *)
(* statement on it.  The statements run inside transactions whose steps   *)
(* are interleaved by the composing module (Loms); this module only says   *)
(* what one statement reads and what it writes.                            *)
(*                                                                         *)
(* An order's items are abstracted to a function SKU -> count in which 0   *)
(* means "not in the order"; the code's []ReserveItem batches over         *)
(* distinct SKUs are exactly these functions.                              *)
(***************************************************************************)
EXTENDS Integers

CONSTANTS
    SKU,        \* the SKUs that have a row in `items`
    InitTotal,  \* total_count of each row when the service starts
    UInt64      \* stands for 2^64, the modulus of the service's uint64;
                \* TLC integers are 32-bit, so the MC gives a smaller
                \* modulus that still exceeds every ledger value

ASSUME UInt64 \in Nat /\ \A s \in SKU : InitTotal[s] < UInt64

VARIABLES
    total,      \* total_count per SKU
    reserved    \* reserved per SKU

ledgerVars == <<total, reserved>>

-----------------------------------------------------------------------------
(* GetItemsAvailability + the loop of Reserve: the batch fits when every   *)
(* SKU of it has at least its count available.  The availability is read  *)
(* from the committed ledger, without a row lock.                          *)
Available(s) == total[s] - reserved[s]

(* Mutation: the check passes when any one SKU of the batch fits.         *)
ReserveFitsAny(it) == \E s \in SKU : it[s] > 0 /\ Available(s) >= it[s]

ReserveFits(it) == \A s \in SKU : it[s] > 0 => Available(s) >= it[s]

(* UpdateReservedItems: reserved = reserved + count for every item of the  *)
(* batch, in one statement.                                                *)
ReserveApply(it) == [s \in SKU |-> reserved[s] + it[s]]

(* ReserveCancel: reserved = reserved - count, with no availability check. *)
(* Mutation: the cancel's UPDATE matches no row and releases nothing.     *)
ReserveCancelApplyNoop(it) == reserved

ReserveCancelApply(it) == [s \in SKU |-> reserved[s] - it[s]]

(* ReserveRemove: reserved and total_count both decreased by count, each   *)
(* floored at zero by GREATEST(..., 0).                                    *)
Floor0(n) == IF n < 0 THEN 0 ELSE n

ReserveRemoveReserved(it) == [s \in SKU |-> Floor0(reserved[s] - it[s])]

(* Mutation: the UPDATE's SET list forgets total_count.                   *)
ReserveRemoveTotalKept(it) == total

ReserveRemoveTotal(it) == [s \in SKU |-> Floor0(total[s] - it[s])]

(* StocksInfo: count = item.TotalCount - item.Reserved computed in uint64; *)
(* the following `if count < 0` can never hold for an unsigned value, so   *)
(* a reserved above total_count wraps around.                              *)
StocksInfo(s) == (total[s] - reserved[s]) % UInt64

=============================================================================
