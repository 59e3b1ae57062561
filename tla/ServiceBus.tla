------------------------------ MODULE ServiceBus ------------------------------
(***************************************************************************)
(* The job queue on Azure Service Bus.  The broker itself is external and  *)
(* modelled as the adapter uses it (peek-lock: a received message is       *)
(* locked, an expired lock makes it available again, settling needs the    *)
(* lock).  Every attempt is enqueued at most once, so messages are named   *)
(* by run id.  A delivery is named by its delivery count, which serves as  *)
(* the lock token: only the holder of the current delivery can settle.     *)
(* The adapter consults the repository, so this module builds on it.       *)
(***************************************************************************)
EXTENDS PostgresRepository

CONSTANT MaxDelivery  \* deliveries before the adapter dead-letters (5 in the code)

ASSUME MaxDeliveryAssumption == MaxDelivery \in Nat \ {0}

VARIABLE message  \* run id -> the state of its message and its delivery count

MessageState == {"unsent", "available", "locked", "completed", "deadletter"}

Message == [state : MessageState, deliveries : 0 .. MaxDelivery]

QueueTypeOK == message \in [RunId -> Message]

QueueInit == message = [r \in RunId |-> [state |-> "unsent", deliveries |-> 0]]

Enqueue(r) == message' = [message EXCEPT ![r].state = "available"]

\* Seeded fault: deliveries are not counted against the limit.
NeverOverDelivered(r) == FALSE

\* The next delivery of the message is one too many.
OverDelivered(r) == message[r].deliveries + 1 > MaxDelivery

\* receive_messages, when the adapter goes on to hand the job out.
Deliver(r) ==
    /\ message[r].state = "available"
    /\ ~OverDelivered(r)
    /\ message' = [message EXCEPT ![r] =
                     [state |-> "locked", deliveries |-> message[r].deliveries + 1]]

\* Seeded fault: an over-delivered message is skipped but never settled.
SkipOverDelivered(r) ==
    /\ message[r].state = "available"
    /\ OverDelivered(r)
    /\ UNCHANGED message

\* receive_messages, when the adapter dead-letters what it received.
DeadLetter(r) ==
    /\ message[r].state = "available"
    /\ OverDelivered(r)
    /\ message' = [message EXCEPT ![r].state = "deadletter"]

HoldsLock(r, delivery) ==
    message[r].state = "locked" /\ message[r].deliveries = delivery

\* complete_message: the broker refuses it, and the SDK raises, without the lock.
CompleteMessage(r, delivery) ==
    message' = IF HoldsLock(r, delivery)
               THEN [message EXCEPT ![r].state = "completed"]
               ELSE message

ExpireLock(r) ==
    /\ message[r].state = "locked"
    /\ message' = [message EXCEPT ![r].state = "available"]

=============================================================================
