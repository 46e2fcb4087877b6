------------------------------ MODULE Notifier ------------------------------
(***************************************************************************)
(* The consumer side of the order-status topic: the notifier service's     *)
(* Kafka consumer group (libs/kafka/consumergroup, wired in                *)
(* src/notifier/internal/app) reading the partition the LOMS outbox        *)
(* dispatcher writes to.                                                   *)
(*                                                                         *)
(* The partition is an append-only log, addressed by offset (0, 1, ...).   *)
(* At most one member of the group holds the partition's claim at a time.  *)
(* A claim starts at the group's committed offset, or at                   *)
(* Offsets.Initial when nothing is committed.  ConsumeClaim loops: take    *)
(* the message at the claim's position, Handle it (errors are only         *)
(* logged), MarkMessage (commit offset = message offset + 1), Commit       *)
(* (auto-commit is off).  A Commit may fail; sarama keeps the mark and     *)
(* the next Commit carries it.  A member may crash, and a rebalance may    *)
(* end the session between two messages; in both cases the next claim      *)
(* starts from what was committed.                                         *)
(*                                                                         *)
(* Handle decodes the JSON and ProcessOrderStatus logs it: what a          *)
(* property can tell apart is only which offsets were handled.             *)
(***************************************************************************)
EXTENDS Integers

CONSTANTS
    Member,         \* notifier instances in the consumer group
    NoMember,       \* no member holds the claim
    MaxMessages,    \* messages the producer writes to the partition
    MaxCrashes,     \* member crashes
    MaxCommitFails, \* Commit calls whose offset commit request fails
    MaxRebalances   \* rebalances that end a session

ASSUME NoMember \notin Member

VARIABLES
    produced,   \* messages on the partition: offsets 0..produced-1
    owner,      \* the member whose session holds the claim, or NoMember
    pos,        \* offset of the next message the claim delivers
    committed,  \* the group's committed offset, NoCommit before the first
    cpc,        \* per member: "idle" or "handled" (Handle returned)
    handled,    \* offsets some member has handled (history)
    crashes,
    commitFails,
    rebalances

vars == <<produced, owner, pos, committed, cpc, handled, crashes,
          commitFails, rebalances>>

NoCommit == -1

-----------------------------------------------------------------------------
(* NewConsumerGroup: Consumer.Offsets.Initial = sarama.OffsetOldest.       *)
InitialOffset == 0

(* Where a new session's claim starts.                                     *)
ClaimStart == IF committed = NoCommit THEN InitialOffset ELSE committed

(* The LOMS dispatcher's SendMessage appends one message to the partition. *)
SendMessage ==
    /\ produced < MaxMessages
    /\ produced' = produced + 1
    /\ UNCHANGED <<owner, pos, committed, cpc, handled, crashes,
                   commitFails, rebalances>>

(* ConsumerGroup.Run calls Consume again after every session; the group    *)
(* gives the free partition to member m and ConsumeClaim starts.           *)
Claim(m) ==
    /\ owner = NoMember
    /\ owner' = m
    /\ pos' = ClaimStart
    /\ UNCHANGED <<produced, committed, cpc, handled, crashes, commitFails,
                   rebalances>>

(* Mutation: the loop takes a message only while another one follows it.  *)
HandleBeforeLast(m) ==
    /\ owner = m
    /\ cpc[m] = "idle"
    /\ pos + 1 < produced
    /\ handled' = handled \cup {pos}
    /\ cpc' = [cpc EXCEPT ![m] = "handled"]
    /\ UNCHANGED <<produced, owner, pos, committed, crashes,
                   commitFails, rebalances>>

(* KafkaHandler.Handle: decode the StatusChangedEvent and pass it to       *)
(* ProcessOrderStatus, which logs it.  What remains is that o was handled. *)
HandleMessage(o) == handled \cup {o}

(* ConsumeClaim receives the message at pos and calls the topic handler's  *)
(* Handle (KafkaHandler.Handle: unmarshal, ProcessOrderStatus logs it).    *)
(* A Handle error is logged and the loop goes on to the mark.              *)
Handle(m) ==
    /\ owner = m
    /\ cpc[m] = "idle"
    /\ pos < produced
    /\ handled' = HandleMessage(pos)
    /\ cpc' = [cpc EXCEPT ![m] = "handled"]
    /\ UNCHANGED <<produced, owner, pos, committed, crashes,
                   commitFails, rebalances>>

(* Mutation: the mark is computed as offset + 2, one past the next one.   *)
MarkedOffsetPlusTwo == pos + 2

(* session.MarkMessage(message, ""): the offset to commit is offset + 1.  *)
MarkedOffset == pos + 1

(* MarkMessage, then session.Commit: the marked offset is committed.       *)
MarkCommit(m) ==
    /\ owner = m
    /\ cpc[m] = "handled"
    /\ committed' = MarkedOffset
    /\ pos' = pos + 1
    /\ cpc' = [cpc EXCEPT ![m] = "idle"]
    /\ UNCHANGED <<produced, owner, handled, crashes, commitFails, rebalances>>

(* The same, with the commit request failing: committed does not move     *)
(* until a later Commit of this session carries the mark.                  *)
MarkCommitFail(m) ==
    /\ owner = m
    /\ cpc[m] = "handled"
    /\ commitFails < MaxCommitFails
    /\ commitFails' = commitFails + 1
    /\ pos' = pos + 1
    /\ cpc' = [cpc EXCEPT ![m] = "idle"]
    /\ UNCHANGED <<produced, owner, committed, handled, crashes, rebalances>>

(* Rebalance: the session's context is done between two messages and       *)
(* ConsumeClaim returns.  With auto-commit off, marks not yet committed    *)
(* are dropped with the session.                                           *)
Rebalance(m) ==
    /\ owner = m
    /\ cpc[m] = "idle"
    /\ rebalances < MaxRebalances
    /\ rebalances' = rebalances + 1
    /\ owner' = NoMember
    /\ UNCHANGED <<produced, pos, committed, cpc, handled, crashes, commitFails>>

(* The member's process dies at any point: its session, marks and the      *)
(* message in hand are gone; the group reassigns the partition.            *)
Crash(m) ==
    /\ owner = m
    /\ crashes < MaxCrashes
    /\ crashes' = crashes + 1
    /\ owner' = NoMember
    /\ cpc' = [cpc EXCEPT ![m] = "idle"]
    /\ UNCHANGED <<produced, pos, committed, handled, commitFails,
                   rebalances>>

(* The producer has sent all it will; the consumer loop blocks on the      *)
(* claim's channel once it has caught up.  Progress is the business of the *)
(* fairness conditions, not of this stuttering step.                       *)
Waiting ==
    /\ produced = MaxMessages
    /\ UNCHANGED vars

Init ==
    /\ produced = 0
    /\ owner = NoMember
    /\ pos = 0
    /\ committed = NoCommit
    /\ cpc = [m \in Member |-> "idle"]
    /\ handled = {}
    /\ crashes = 0
    /\ commitFails = 0
    /\ rebalances = 0

Next ==
    \/ SendMessage
    \/ \E m \in Member :
          \/ Claim(m)
          \/ Handle(m)
          \/ MarkCommit(m)
          \/ MarkCommitFail(m)
          \/ Rebalance(m)
          \/ Crash(m)
    \/ Waiting

(* The outbox dispatcher keeps publishing (Outbox's EveryEventDelivered),  *)
(* Run re-enters Consume after every session, and a claim's loop runs      *)
(* while it holds the partition.                                           *)
Fairness ==
    /\ WF_vars(SendMessage)
    /\ WF_vars(\E m \in Member : Claim(m))
    /\ \A m \in Member : WF_vars(Handle(m) \/ MarkCommit(m) \/ MarkCommitFail(m))

Spec == Init /\ [][Next]_vars /\ Fairness

-----------------------------------------------------------------------------
(* At-least-once on the consumer side: the group's committed offset never  *)
(* passes a message no member handled.  A member that takes over the       *)
(* partition after a crash or a rebalance resumes from the committed       *)
(* offset, so a message below it that was not handled would be skipped     *)
(* for good (ConsumeClaim marks only after Handle returns).                *)
CommittedWereHandled ==
    \A o \in 0..(committed - 1) : o \in handled

(* Every message the dispatcher sends is eventually handled by some        *)
(* member, whatever crashes, failed commits and rebalances happen.         *)
EveryMessageHandled ==
    <>(\A o \in 0..(MaxMessages - 1) : o \in handled)

=============================================================================
