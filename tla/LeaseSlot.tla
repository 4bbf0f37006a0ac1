----------------------------- MODULE LeaseSlot -----------------------------
(***************************************************************************)
(* One slot of the test-vms lease pool: the record that the broker keeps   *)
(* for it (LeaseSlot in lease.go) and what every store operation does to   *)
(* that record.  The module has no variables.  LeaseStore applies these    *)
(* operators to a pool in memory, LeasePool to the files that hold it.     *)
(*                                                                         *)
(* In this and the other modules a definition whose name starts with Fault *)
(* is a wrong version of the definition below it.  No specification uses   *)
(* it; it exists to show which property notices the mistake.               *)
(*                                                                         *)
(* Deadlines are kept as countdowns: the number of clock ticks until the   *)
(* absolute time that the code stores, NoTime for Go's zero time.  A       *)
(* deadline that has passed is 0.                                          *)
(***************************************************************************)
EXTENDS Integers, Sequences

CONSTANTS
    LeaseTTL,          \* life of a held lease between two heartbeats, in ticks
    ProvisioningTTL,   \* time a provisioning request may take, in ticks
    RecoveryDelays     \* the table of recoveryDelay, in ticks: the code's is
                       \* <<1, 5, 15, 60>> minutes

ASSUME TTLAssumption ==
    LeaseTTL \in Nat \ {0} /\ ProvisioningTTL \in Nat \ {0}
ASSUME DelayAssumption ==
    RecoveryDelays \in Seq(Nat \ {0}) /\ RecoveryDelays # <<>>

NoTime == -1
Ticks == Nat \cup {NoTime}

\* SlotUnavailable is only ever reported to a client, never stored.
States == {"available", "provisioning", "held", "draining",
           "quarantined", "recovering"}

\* States in which a lease still has authority over its slot.
Live == {"provisioning", "held"}

\* recoveryDelay cannot tell attempts apart beyond the end of its table, so
\* the attempt counter saturates there.
MaxAttempt == Len(RecoveryDelays)

(***************************************************************************)
(* lease stands for the random LeaseID and capability of a lease: 0 is the *)
(* cleared pair, and two leases never share a value.  The environment      *)
(* specification is present exactly when lease # 0.  incident stands for   *)
(* LastFailureEventID and IncidentID; RecoveryStartedAt is set exactly in  *)
(* state recovering.  Of FailureReason only "pool resize" steers control.  *)
(***************************************************************************)
Slot == [state    : States,
         gen      : Nat \ {0},
         epoch    : Nat,
         lease    : Nat,
         owner    : BOOLEAN,
         expires  : Ticks,
         attempt  : 0..MaxAttempt,
         nextRec  : Ticks,
         incident : BOOLEAN,
         reason   : {"other", "pool resize"},
         legacy   : BOOLEAN]

\* The slot that reconcileSlotCount appends to a pool.
FreshSlot ==
    [state |-> "available", gen |-> 1, epoch |-> 0, lease |-> 0,
     owner |-> FALSE, expires |-> NoTime, attempt |-> 0, nextRec |-> NoTime,
     incident |-> FALSE, reason |-> "other", legacy |-> FALSE]

clearLease(slot) ==
    [slot EXCEPT !.lease = 0, !.owner = FALSE, !.expires = NoTime,
                 !.attempt = 0, !.nextRec = NoTime, !.incident = FALSE,
                 !.reason = "other"]

recoveryDelay(attempt) ==
    RecoveryDelays[IF attempt = 0 THEN 1 ELSE attempt]

\* gone is the set of leases whose acquire process no longer exists.
Stale(slot, gone) ==
    /\ slot.state \in Live
    /\ (slot.owner /\ slot.lease \in gone) \/ slot.expires = 0

expireStale(slot, gone) ==
    IF Stale(slot, gone)
    THEN [slot EXCEPT !.state = "draining", !.reason = "other"]
    ELSE slot

\* Fault: the expected counters are taken as lower bounds.
FaultMatchesLaterLease(slot, expected) ==
    slot.gen >= expected.gen /\ slot.epoch >= expected.epoch

slotMatchesLeaseIdentity(slot, expected) ==
    slot.gen = expected.gen /\ slot.epoch = expected.epoch

dueForRecovery(slot) ==
    \/ slot.state = "recovering"
    \/ slot.state = "quarantined" /\ slot.nextRec \in {NoTime, 0}

-----------------------------------------------------------------------------
(* What each operation writes, given that its conditions hold.             *)

\* Fault: a new lease keeps the epoch of the last one.
FaultKeepsEpoch(slot, lease, owner) ==
    [slot EXCEPT !.state = "provisioning", !.gen = @ + 1, !.lease = lease,
                 !.owner = owner, !.expires = ProvisioningTTL, !.attempt = 0,
                 !.nextRec = NoTime, !.incident = FALSE, !.reason = "other"]

acquireSlot(slot, lease, owner) ==
    [slot EXCEPT !.state = "provisioning", !.gen = @ + 1, !.epoch = @ + 1,
                 !.lease = lease, !.owner = owner,
                 !.expires = ProvisioningTTL, !.attempt = 0,
                 !.nextRec = NoTime, !.incident = FALSE, !.reason = "other"]

Freed(slot) == [clearLease(slot) EXCEPT !.state = "available"]

Held(slot) == [slot EXCEPT !.state = "held", !.expires = LeaseTTL]

Renewed(slot) == [slot EXCEPT !.expires = LeaseTTL]

Drained(slot, reason) == [slot EXCEPT !.state = "draining", !.reason = reason]

Quarantined(slot) ==
    [slot EXCEPT !.state = "quarantined", !.nextRec = 0, !.reason = "other"]

WithIncident(slot) ==
    [slot EXCEPT !.incident = TRUE, !.nextRec = IF @ = NoTime THEN 0 ELSE @]

Recovering(slot) ==
    [slot EXCEPT !.state = "recovering", !.nextRec = NoTime,
                 !.attempt = IF @ < MaxAttempt THEN @ + 1 ELSE @]

RecoveryFailed(slot) ==
    [slot EXCEPT !.state = "quarantined", !.reason = "other",
                 !.nextRec = recoveryDelay(slot.attempt)]

\* clearLease with the failure event, the incident and the attempt count put
\* back: they outlive the lease.
Recovered(slot) ==
    [slot EXCEPT !.state = "available", !.gen = @ + 1, !.lease = 0,
                 !.owner = FALSE, !.expires = NoTime, !.nextRec = NoTime,
                 !.reason = "other"]

Countdown(t) == IF t > 0 THEN t - 1 ELSE t

Aged(slot) == [slot EXCEPT !.expires = Countdown(@), !.nextRec = Countdown(@)]
=============================================================================
