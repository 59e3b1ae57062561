------------------------------ MODULE LockRenewal ------------------------------
(***************************************************************************)
(* The clockwork of a Service Bus delivery: the broker's lock on a message *)
(* runs out unless the LockRenewer thread of the delivery renews it, until *)
(* the worker settles the message or the renewer reaches its maximum       *)
(* lifetime.  Renewals fail, take long or outlive the worker's patience,   *)
(* and processes die.  Time passes in ticks.                               *)
(*                                                                         *)
(* A delivery is named by its delivery count, which is its lock token.     *)
(***************************************************************************)
EXTENDS Integers

CONSTANTS
    Letter, NoLetter,  \* the messages, and none
    Consumer,          \* worker processes
    LockDuration,      \* ticks a lock lasts (PT5M)
    RenewInterval,     \* ticks between renewals (30 s)
    RenewLifetime,     \* ticks a renewer may spend waiting (4 h)
    DeliveryLimit      \* deliveries before the adapter dead-letters

ASSUME LetterAssumption == NoLetter \notin Letter
ASSUME LockAssumption   == /\ LockDuration \in Nat /\ RenewLifetime \in Nat \ {0}
                           /\ RenewInterval \in 1 .. LockDuration - 1
                           /\ DeliveryLimit \in Nat \ {0}

VARIABLES
    lock,      \* letter -> the broker's view: state, delivery count, ticks left
    over,      \* letters whose run has reached a terminal status
    renewer,   \* letter -> delivery -> its renewer thread
    consumer   \* worker -> what it does

lockVars == <<lock, over, renewer, consumer>>

Delivery  == 1 .. DeliveryLimit
NoRenewer == [state |-> "ended", host |-> NoLetter, wait |-> 0, elapsed |-> 0, missed |-> 0,
              slow |-> FALSE, stopped |-> FALSE]
Idle      == [pc |-> "idle", letter |-> NoLetter, delivery |-> 0]

LockInit ==
    /\ lock     = [m \in Letter |-> [state |-> "available", delivery |-> 0, left |-> 0]]
    /\ over     = {}
    /\ renewer  = [m \in Letter |-> [d \in Delivery |-> NoRenewer]]
    /\ consumer = [c \in Consumer |-> Idle]

LockTypeOK ==
    /\ lock \in [Letter -> [state : {"available", "locked", "completed", "deadletter"},
                            delivery : 0 .. DeliveryLimit, left : 0 .. LockDuration]]
    /\ over \subseteq Letter
    /\ \A m \in Letter, d \in Delivery :
          /\ renewer[m][d].state \in {"waiting", "renewing", "ended"}
          /\ renewer[m][d].wait \in 0 .. RenewInterval
          /\ renewer[m][d].elapsed < RenewLifetime + RenewInterval
    /\ \A m \in Letter : lock[m].state = "locked" <=> lock[m].left > 0

Holds(m, d) == lock[m].state = "locked" /\ lock[m].delivery = d

SetRenewer(m, d, thread) == renewer' = [renewer EXCEPT ![m][d] = thread]

----------------------------------------------------------------------------
(* claim.                                                                    *)

Offered(c, m) == consumer[c].pc = "idle" /\ lock[m].state = "available"

ReceiveLetter(c, m) ==
    LET d == lock[m].delivery + 1
    IN  /\ Offered(c, m)
        /\ d <= DeliveryLimit
        /\ m \notin over
        /\ lock' = [lock EXCEPT ![m] = [state |-> "locked", delivery |-> d,
                                        left |-> LockDuration]]
        /\ SetRenewer(m, d, [NoRenewer EXCEPT !.state = "waiting", !.host = c,
                                              !.wait = RenewInterval])
        /\ consumer' = [consumer EXCEPT ![c] =
                           [pc |-> "executing", letter |-> m, delivery |-> d]]
        /\ UNCHANGED over

SettleAs(m, state) == lock' = [lock EXCEPT ![m].state = state, ![m].left = 0]

DrainLetter(c, m) ==
    /\ Offered(c, m)
    /\ lock[m].delivery < DeliveryLimit
    /\ m \in over
    /\ SettleAs(m, "completed")
    /\ UNCHANGED <<over, renewer, consumer>>

DeadLetterLetter(c, m) ==
    /\ Offered(c, m)
    /\ lock[m].delivery = DeliveryLimit
    /\ SettleAs(m, "deadletter")
    /\ UNCHANGED <<over, renewer, consumer>>

----------------------------------------------------------------------------
(* LockRenewer._run: wait, renew, repeat; an exception is logged and passed. *)

\* Seeded fault: the lifetime is not looked at.
WakeForever(m, d) ==
    LET self == renewer[m][d]
    IN  /\ self.state = "waiting"
        /\ self.wait = 0
        /\ SetRenewer(m, d, [self EXCEPT !.state = "renewing"])
        /\ UNCHANGED <<lock, over, consumer>>

WakeRenewer(m, d) ==
    LET self == renewer[m][d]
        elapsed == self.elapsed + RenewInterval
    IN  /\ self.state = "waiting"
        /\ self.wait = 0
        /\ SetRenewer(m, d, [self EXCEPT !.elapsed = elapsed,
                                         !.state = IF elapsed >= RenewLifetime THEN "ended"
                                                                               ELSE "renewing"])
        /\ UNCHANGED <<lock, over, consumer>>

WaitAgain(thread) ==
    [thread EXCEPT !.state = IF thread.stopped THEN "ended" ELSE "waiting",
                   !.wait = RenewInterval]

RenewSucceeds(m, d) ==
    /\ renewer[m][d].state = "renewing"
    /\ Holds(m, d)
    /\ lock' = [lock EXCEPT ![m].left = LockDuration]
    /\ SetRenewer(m, d, [WaitAgain(renewer[m][d]) EXCEPT !.missed = 0, !.slow = FALSE])
    /\ UNCHANGED <<over, consumer>>

\* Seeded fault: the first exception ends the thread.
FailureEndsRenewer(m, d) ==
    /\ renewer[m][d].state = "renewing"
    /\ SetRenewer(m, d, [renewer[m][d] EXCEPT !.state = "ended", !.missed = 1])
    /\ UNCHANGED <<lock, over, consumer>>

\* The broker or the network refuses; failures in a row are counted up to two.
RenewFails(m, d) ==
    LET self == renewer[m][d]
    IN  /\ self.state = "renewing"
        /\ SetRenewer(m, d, [WaitAgain(self) EXCEPT !.missed = IF @ = 2 THEN 2 ELSE @ + 1])
        /\ UNCHANGED <<lock, over, consumer>>

----------------------------------------------------------------------------
(* The end of an execution.                                                  *)

\* A cancelled job is left to the control plane: its renewer goes on.
FinishCancelled(c) ==
    /\ consumer[c].pc = "executing"
    /\ over' = over \cup {consumer[c].letter}
    /\ consumer' = [consumer EXCEPT ![c] = Idle]
    /\ UNCHANGED <<lock, renewer>>

StopRenewer(thread) ==
    [thread EXCEPT !.stopped = TRUE, !.state = IF @ = "waiting" THEN "ended" ELSE @]

\* complete and fail: _settle stops the renewer before it settles the message.
FinishSettled(c) ==
    LET m == consumer[c].letter
        d == consumer[c].delivery
    IN  /\ consumer[c].pc = "executing"
        /\ over' = over \cup {m}
        /\ SetRenewer(m, d, StopRenewer(renewer[m][d]))
        /\ consumer' = [consumer EXCEPT ![c].pc = "settling"]
        /\ UNCHANGED lock

Dies(c) ==
    /\ consumer' = [consumer EXCEPT ![c] = Idle]
    /\ renewer' = [m \in Letter |-> [d \in Delivery |->
                      IF renewer[m][d].host = c THEN NoRenewer ELSE renewer[m][d]]]

\* The join has a limit: a renewal that takes long is left behind.  Without the
\* lock the broker refuses, and the exception ends the worker.
SettleLetter(c) ==
    LET m == consumer[c].letter
        d == consumer[c].delivery
    IN  /\ consumer[c].pc = "settling"
        /\ renewer[m][d].state = "ended" \/ renewer[m][d].slow
        /\ IF Holds(m, d)
           THEN /\ SettleAs(m, "completed")
                /\ consumer' = [consumer EXCEPT ![c] = Idle]
                /\ UNCHANGED renewer
           ELSE Dies(c) /\ UNCHANGED lock
        /\ UNCHANGED over

\* A worker process dies, its threads with it, and is started again.
ConsumerCrashes(c) ==
    /\ \/ consumer[c].pc # "idle"
       \/ \E m \in Letter, d \in Delivery : renewer[m][d].host = c
    /\ Dies(c)
    /\ UNCHANGED <<lock, over>>

----------------------------------------------------------------------------

Ticked(l) ==
    [l EXCEPT !.left  = IF l.left > 0 THEN l.left - 1 ELSE 0,
              !.state = IF l.state = "locked" /\ l.left = 1 THEN "available" ELSE @]

\* A tick: timers are prompt, locks run out, and a pending renewal takes long.
TickLocks ==
    /\ \A m \in Letter, d \in Delivery :
          renewer[m][d].state = "waiting" => renewer[m][d].wait > 0
    /\ \E m \in Letter : lock[m].state = "locked"
    /\ lock' = [m \in Letter |-> Ticked(lock[m])]
    /\ renewer' = [m \in Letter |-> [d \in Delivery |->
          LET self == renewer[m][d]
          IN  CASE self.state = "waiting"  -> [self EXCEPT !.wait = @ - 1]
                [] self.state = "renewing" -> [self EXCEPT !.slow = TRUE]
                [] OTHER                   -> self]]
    /\ UNCHANGED <<over, consumer>>

ClaimLetter(c) ==
    \E m \in Letter : ReceiveLetter(c, m) \/ DrainLetter(c, m) \/ DeadLetterLetter(c, m)

FinishLetter(c) == FinishCancelled(c) \/ FinishSettled(c)

ConsumerStep(c) == ClaimLetter(c) \/ FinishLetter(c) \/ SettleLetter(c)

RenewerStep(m, d) == WakeRenewer(m, d) \/ RenewSucceeds(m, d) \/ RenewFails(m, d)

LockNext ==
    \/ \E c \in Consumer : ConsumerStep(c) \/ ConsumerCrashes(c)
    \/ \E m \in Letter, d \in Delivery : RenewerStep(m, d)
    \/ TickLocks

LockSpec == LockInit /\ [][LockNext]_lockVars

----------------------------------------------------------------------------
(* Properties.                                                               *)

\* A worker loses its lock in the middle of an execution only when its renewer has
\* reached the maximum lifetime, two renewals in a row failed, or one took long: a
\* single failed renewal never costs the lock.
LockLossIsExplained ==
    \A c \in Consumer :
        LET m == consumer[c].letter
            d == consumer[c].delivery
        IN  consumer[c].pc = "executing" /\ ~Holds(m, d) =>
                \/ renewer[m][d].elapsed >= RenewLifetime
                \/ renewer[m][d].missed >= 2
                \/ renewer[m][d].slow

\* Every message is settled in the end: neither a renewer left behind by a
\* cancellation nor a lock lost before complete_message keeps it forever.
LettersSettle ==
    \A m \in Letter : <>(lock[m].state \in {"completed", "deadletter"})

=============================================================================
