------------------------------- MODULE Outbox -------------------------------
(***************************************************************************)
(* The transactional outbox of LOMS and its dispatcher.                    *)
(*                                                                         *)
(* order_status_changed_events rows are inserted by the order workflows in *)
(* the same transaction as the status change they report                   *)
(* (postgres/outbox/createorderstatus.go).  One goroutine,                 *)
(* StartStatusChangedEventDispatcher (service/order/sendstatus.go), loops  *)
(* forever: in one ReadCommitted transaction it fetches the oldest unsent  *)
(* row, publishes it to Kafka with a synchronous producer, marks it sent   *)
(* and commits.  Any error rolls the transaction back and the loop tries   *)
(* again; the Kafka write itself cannot be rolled back.                    *)
(*                                                                         *)
(* An event's id is its position in `outbox`: ids come from a sequence and *)
(* an event becomes visible when the transaction that inserted it commits, *)
(* which the composing module does in the same step.                       *)
(***************************************************************************)
EXTENDS Integers, Sequences, SequencesExt

CONSTANTS
    MaxFailures     \* how many infrastructure errors (DB or broker) occur

VARIABLES
    outbox,     \* committed rows: [order, status, sent]
    bus,        \* the Kafka topic: ids of the events published, in order
    dpc,        \* dispatcher: "idle", "fetched" or "published"
    devent,     \* id of the event the dispatcher's transaction holds
    failures    \* infrastructure errors so far

outboxVars == <<outbox, bus, dpc, devent>>

-----------------------------------------------------------------------------
(* Mutation: the insert's parameters leave OrderID at its zero value.     *)
CreateOrderStatusChangedEventNoOrder(o, st) ==
    Append(outbox, [order |-> 0, status |-> st, sent |-> FALSE])

(* CreateOrderStatusChangedEvent: insert one unsent row.                   *)
CreateOrderStatusChangedEvent(o, st) ==
    Append(outbox, [order |-> o, status |-> st, sent |-> FALSE])

(* Mutation: the query's range stops one row short of the newest.         *)
UnsentButNewest == {i \in 1..(Len(outbox) - 1) : ~outbox[i].sent}

Unsent == {i \in 1..Len(outbox) : ~outbox[i].sent}

(* FetchNextOrderStatusChangedEvent: the oldest unsent row (the query's    *)
(* text is not in the repository; the spec says "oldest unsent").          *)
(* Mutation: ORDER BY id DESC, the newest unsent row first.               *)
FetchNextNewest == CHOOSE i \in Unsent : \A j \in Unsent : i >= j

FetchNext == CHOOSE i \in Unsent : \A j \in Unsent : i <= j

-----------------------------------------------------------------------------
(* One iteration of the dispatcher loop, split at the points where the     *)
(* transaction talks to another system.  ErrNoElements (nothing unsent)    *)
(* sleeps and commits an empty transaction, which changes nothing.         *)

DispatcherFetch ==
    /\ dpc = "idle"
    /\ Unsent # {}
    /\ devent' = FetchNext
    /\ dpc' = "fetched"
    /\ UNCHANGED <<outbox, bus, failures>>

(* sendStatusChangedEvent: SendMessage on the sync producer.  On success   *)
(* the message is on the topic.  On error the transaction is rolled back;  *)
(* an error can also be a lost acknowledgement of a message the broker     *)
(* did write.                                                              *)
DispatcherSendOk ==
    /\ dpc = "fetched"
    /\ bus' = Append(bus, devent)
    /\ dpc' = "published"
    /\ UNCHANGED <<outbox, devent, failures>>

(* Mutation: the error of SendMessage is dropped and the loop goes on to   *)
(* the mark.                                                               *)
DispatcherSendFailIgnored ==
    /\ dpc = "fetched"
    /\ failures < MaxFailures
    /\ failures' = failures + 1
    /\ dpc' = "published"
    /\ UNCHANGED <<outbox, bus, devent>>

DispatcherSendFail ==
    /\ dpc = "fetched"
    /\ failures < MaxFailures
    /\ failures' = failures + 1
    /\ bus' \in {bus, Append(bus, devent)}
    /\ dpc' = "idle"
    /\ UNCHANGED <<outbox, devent>>

(* MarkOrderStatusChangedEventAsSend, then the commit of the transaction.  *)
(* Either may fail; the row then stays unsent although it was published.  *)
DispatcherMarkSent ==
    /\ dpc = "published"
    /\ outbox' = [outbox EXCEPT ![devent].sent = TRUE]
    /\ dpc' = "idle"
    /\ UNCHANGED <<bus, devent, failures>>

DispatcherMarkFail ==
    /\ dpc = "published"
    /\ failures < MaxFailures
    /\ failures' = failures + 1
    /\ dpc' = "idle"
    /\ UNCHANGED <<outbox, bus, devent>>

DispatcherStep ==
    \/ DispatcherFetch
    \/ DispatcherSendOk
    \/ DispatcherSendFail
    \/ DispatcherMarkSent
    \/ DispatcherMarkFail

-----------------------------------------------------------------------------
(* A row is marked sent only when its message is on the topic: the mark    *)
(* and the publish are in one transaction and the mark is reached only     *)
(* when SendMessage returned no error.                                     *)
SentOnlyAfterPublish ==
    \A i \in 1..Len(outbox) : outbox[i].sent => Contains(bus, i)

(* Per order, the topic carries the status changes in the order they were  *)
(* committed: when an event reaches the topic, every earlier event of the  *)
(* same order is already there (the messages are keyed by order id, so a   *)
(* consumer reads them in this order).                                     *)
EarlierEventsPublishedFirst ==
    \A k \in 1..Len(bus) :
        \A e \in 1..(bus[k] - 1) :
            outbox[e].order = outbox[bus[k]].order =>
                \E j \in 1..(k - 1) : bus[j] = e

=============================================================================
