------------------------- MODULE LeaseBrokerProofs -------------------------
(***************************************************************************)
(* Proofs about the lease store and about the broker that extends it, for  *)
(* every number of slots, leases and operations and every deadline.        *)
(*                                                                         *)
(* The store.  Apart from an acquisition, whatever an operation does to a  *)
(* slot is one of two things (Keeps): it leaves the lease on the slot and  *)
(* gives it no new authority, or it takes the lease off and makes the slot *)
(* available.  The inductive invariant is then disturbed by acquisitions   *)
(* and inspections only.                                                   *)
(*                                                                         *)
(* The broker.  Its processes reach the pool only through the operations   *)
(* of the store, so every theorem about LeaseStore is one about the broker *)
(* whatever its processes, Incus and the operator do.  BrokerInv then says *)
(* which process may still touch the machines of a slot, which makes them  *)
(* those of its lease, and every slot a DisposableLease.                   *)
(***************************************************************************)
EXTENDS LeaseBroker, FiniteSetTheorems, TLAPS

-----------------------------------------------------------------------------
(* The lease store.                                                        *)

\* What every step but an acquisition does to a slot.
Keeps(old, new) ==
    /\ new \in Slot
    /\ new.epoch = old.epoch
    /\ new.gen >= old.gen
    /\ \/ /\ new.lease = old.lease
          /\ new.gen = old.gen
          /\ (new.state = "available") = (old.state = "available")
          /\ new.state \in Live => old.state \in Live
          /\ new.state = "provisioning" => old.state = "provisioning"
          /\ Stale(old, gone) /\ new # old
                => new.state \notin Live \/ new.expires <= old.expires
       \/ /\ new.lease = 0
          /\ new.state = "available"

\* A slot holds a lease exactly while it is not available.
LeasedUnlessAvailable ==
    \A s \in Slots : (slots[s].lease = 0) = (slots[s].state = "available")

\* Leases are numbered from 1, each grant has its own number, and no grant is
\* ahead of the counters of its slot.
GrantsNumbered ==
    /\ \A g \in grants : /\ g.lease \in 1..Cardinality(grants)
                         /\ g.epoch <= slots[g.slot].epoch
                         /\ g.gen <= slots[g.slot].gen
    /\ \A g, h \in grants : g.lease = h.lease => g = h

\* The lease on a slot was granted, and the slot's counters are still its own.
LeaseWasGranted ==
    \A s \in Slots : slots[s].lease # 0 =>
       \E g \in grants : /\ g.slot = s
                         /\ g.lease = slots[s].lease
                         /\ g.epoch = slots[s].epoch

\* An inspected epoch is never ahead, and an epoch that is still current
\* belongs to the inspected lease.
PlanNotAhead ==
    \A s \in Slots : /\ plan[s].epoch <= slots[s].epoch
                     /\ plan[s].epoch = slots[s].epoch /\ slots[s].lease # 0
                          => \/ plan[s].gen = 0
                             \/ plan[s].lease = slots[s].lease

\* The inductive invariant of the store.
IInv == /\ TypeOK
        /\ LeasedUnlessAvailable
        /\ GrantsNumbered
        /\ LeaseWasGranted
        /\ IdentityNamesOneLease
        /\ PlanNotAhead
        /\ FenceCoversLiveLeases
-----------------------------------------------------------------------------
\* The attempt counter has a bound.
LEMMA MaxAttemptNat == MaxAttempt \in Nat \ {0}
BY DelayAssumption DEF MaxAttempt

\* The delay table has an entry for every attempt count that a slot can hold.
LEMMA DelayIsPositive ==
  ASSUME NEW a \in 0..MaxAttempt
  PROVE  recoveryDelay(a) \in Nat \ {0}
<1>1. /\ Len(RecoveryDelays) \in Nat \ {0}
      /\ \A i \in 1..Len(RecoveryDelays) : RecoveryDelays[i] \in Nat \ {0}
  BY DelayAssumption
<1>2. (IF a = 0 THEN 1 ELSE a) \in 1..Len(RecoveryDelays)
  BY <1>1 DEF MaxAttempt
<1> QED BY <1>1, <1>2 DEF recoveryDelay

\* Expiry changes nothing of a slot but the state of a stale lease, which
\* drains.
LEMMA ExpiredSlot ==
  ASSUME NEW slot \in Slot, NEW dead
  PROVE  LET new == expireStale(slot, dead)
         IN  /\ new \in Slot
             /\ new.epoch = slot.epoch
             /\ new.gen = slot.gen
             /\ new.lease = slot.lease
             /\ (new.state = "available") = (slot.state = "available")
             /\ new.state \in Live => new = slot
             /\ new = slot \/ new.state = "draining"
             /\ Stale(slot, dead) => new.state \notin Live
<1>1. CASE Stale(slot, dead)
  <2> DEFINE new == [slot EXCEPT !.state = "draining", !.reason = "other"]
  <2>1. /\ new \in Slot
        /\ new.epoch = slot.epoch
        /\ new.gen = slot.gen
        /\ new.lease = slot.lease
        /\ new.state = "draining"
    BY DEF Slot, States
  <2>2. slot.state \in Live
    BY <1>1 DEF Stale
  <2>3. expireStale(slot, dead) = new
    BY <1>1 DEF expireStale
  <2> HIDE DEF new
  <2> QED BY <2>1, <2>2, <2>3 DEF Live
<1>2. CASE ~Stale(slot, dead)
  <2>1. expireStale(slot, dead) = slot
    BY <1>2 DEF expireStale
  <2> QED BY <1>2, <2>1
<1> QED BY <1>1, <1>2

\* The pool that an operation sees differs from the stored one only in that
\* stale leases drain (expireStale).
LEMMA CurrentPool ==
  ASSUME TypeOK
  PROVE  /\ Current \in [Slots -> Slot]
         /\ \A s \in Slots :
               /\ Current[s].epoch = slots[s].epoch
               /\ Current[s].gen = slots[s].gen
               /\ Current[s].lease = slots[s].lease
               /\ (Current[s].state = "available") = (slots[s].state = "available")
               /\ Current[s].state \in Live => Current[s] = slots[s]
               /\ Current[s] = slots[s] \/ Current[s].state = "draining"
               /\ Stale(slots[s], gone) => Current[s].state \notin Live
<1>1. slots \in [Slots -> Slot]
  BY DEF TypeOK
<1>2. \A s \in Slots : Current[s] = expireStale(slots[s], gone)
  BY DEF Current
<1>3. \A s \in Slots : expireStale(slots[s], gone) \in Slot
  BY <1>1, ExpiredSlot
<1>4. Current \in [Slots -> Slot]
  BY <1>3 DEF Current
<1>5. ASSUME NEW s \in Slots
      PROVE  /\ Current[s].epoch = slots[s].epoch
             /\ Current[s].gen = slots[s].gen
             /\ Current[s].lease = slots[s].lease
             /\ (Current[s].state = "available") = (slots[s].state = "available")
             /\ Current[s].state \in Live => Current[s] = slots[s]
             /\ Current[s] = slots[s] \/ Current[s].state = "draining"
             /\ Stale(slots[s], gone) => Current[s].state \notin Live
  <2>1. slots[s] \in Slot
    BY <1>1
  <2> QED BY <1>2, <2>1, ExpiredSlot
<1> QED BY <1>4, <1>5

\* What the operations write is again a slot, and each either keeps the lease
\* or takes it off.
LEMMA SlotOperations ==
  ASSUME NEW slot \in Slot
  PROVE  /\ Freed(slot) \in Slot
         /\ Freed(slot).lease = 0
         /\ Freed(slot).state = "available"
         /\ Freed(slot).gen = slot.gen
         /\ Freed(slot).epoch = slot.epoch
         /\ Recovered(slot) \in Slot
         /\ Recovered(slot).lease = 0
         /\ Recovered(slot).state = "available"
         /\ Recovered(slot).gen = slot.gen + 1
         /\ Recovered(slot).epoch = slot.epoch
<1>1. MaxAttempt \in Nat /\ 0 \in 0..MaxAttempt
  BY MaxAttemptNat
<1>2. clearLease(slot) \in Slot
  BY <1>1 DEF clearLease, Slot, States, Ticks, NoTime
<1>3. Recovered(slot) \in Slot
  <2>1. slot.gen \in Nat \ {0}
    BY DEF Slot
  <2>2. slot.gen + 1 \in Nat \ {0} /\ NoTime \in Ticks
    BY <2>1 DEF Ticks
  <2> QED BY <1>1, <2>2 DEF Recovered, Slot, States
<1>4. Freed(slot) \in Slot
  BY <1>1, <1>2 DEF Freed, Slot, States
<1> QED BY <1>3, <1>4 DEF Freed, Recovered, clearLease, Slot

\* The results of the operations that leave the lease on the slot.
Keeping(slot) ==
    {Held(slot), Renewed(slot), Drained(slot, "other"), Quarantined(slot),
     WithIncident(slot), Recovering(slot), RecoveryFailed(slot),
     [slot EXCEPT !.owner = FALSE], [slot EXCEPT !.state = "draining"]}

\* The states that they write.
LEMMA StatesWritten ==
  ASSUME NEW slot \in Slot
  PROVE  /\ Held(slot).state = "held"
         /\ Drained(slot, "other").state = "draining"
         /\ Quarantined(slot).state = "quarantined"
         /\ Recovering(slot).state = "recovering"
         /\ RecoveryFailed(slot).state = "quarantined"
<1>1. Held(slot).state = "held"
  BY DEF Held, Slot
<1>2. Drained(slot, "other").state = "draining"
  BY DEF Drained, Slot
<1>3. Quarantined(slot).state = "quarantined"
  BY DEF Quarantined, Slot
<1>4. Recovering(slot).state = "recovering"
  BY DEF Recovering, Slot
<1>5. RecoveryFailed(slot).state = "quarantined"
  BY DEF RecoveryFailed, Slot
<1> QED BY <1>1, <1>2, <1>3, <1>4, <1>5

\* They are slots, and none but Held gives a lease authority.
LEMMA KeepingOperations ==
  ASSUME NEW slot \in Slot, slot.state # "available", NEW new \in Keeping(slot)
  PROVE  /\ new \in Slot
         /\ new.lease = slot.lease
         /\ new.gen = slot.gen
         /\ new.epoch = slot.epoch
         /\ new.state # "available"
         /\ new.state \in Live => slot.state \in Live \/ new = Held(slot)
         /\ new.state = "provisioning" => slot.state = "provisioning"
<1>1. LeaseTTL \in Nat /\ MaxAttempt \in Nat
  BY TTLAssumption, MaxAttemptNat
<1>2. slot.attempt \in 0..MaxAttempt /\ recoveryDelay(slot.attempt) \in Nat
  BY DelayIsPositive DEF Slot
<1>3. CASE new = Held(slot)
  BY <1>1, <1>3 DEF Held, Slot, States, Ticks, Live
<1>11. CASE new = Renewed(slot)
  BY <1>1, <1>11 DEF Renewed, Slot, Ticks
<1>4. CASE new = Drained(slot, "other")
  BY <1>1, <1>4 DEF Drained, Slot, States, Live
<1>10. CASE new = [slot EXCEPT !.state = "draining"]
  BY <1>1, <1>10 DEF Slot, States, Live
<1>5. CASE new = Quarantined(slot)
  BY <1>1, <1>5 DEF Quarantined, Slot, States, Ticks, Live
<1>6. CASE new = WithIncident(slot)
  BY <1>1, <1>6 DEF WithIncident, Slot, Ticks
<1>7. CASE new = Recovering(slot)
  <2>1. /\ (IF slot.attempt < MaxAttempt THEN slot.attempt + 1 ELSE slot.attempt)
              \in 0..MaxAttempt
        /\ NoTime \in Ticks
    BY <1>1, <1>2 DEF Ticks
  <2> QED BY <1>1, <1>7, <2>1 DEF Recovering, Slot, States, Live
<1>8. CASE new = RecoveryFailed(slot)
  BY <1>1, <1>2, <1>8 DEF RecoveryFailed, Slot, States, Ticks, Live
<1>9. CASE new = [slot EXCEPT !.owner = FALSE]
  BY <1>1, <1>9 DEF Slot
<1> QED BY <1>3, <1>4, <1>5, <1>6, <1>7, <1>8, <1>9, <1>10, <1>11 DEF Keeping

\* A tick of the clock only shortens deadlines.
LEMMA AgedSlot ==
  ASSUME NEW slot \in Slot
  PROVE  /\ Aged(slot) \in Slot
         /\ Aged(slot).lease = slot.lease
         /\ Aged(slot).gen = slot.gen
         /\ Aged(slot).epoch = slot.epoch
         /\ Aged(slot).state = slot.state
         /\ Aged(slot).expires <= slot.expires
<1>1. \A i \in Ticks : Countdown(i) \in Ticks /\ Countdown(i) <= i
  BY DEF Countdown, Ticks, NoTime
<1>2. slot.expires \in Ticks /\ slot.nextRec \in Ticks
  BY DEF Slot
<1> QED BY MaxAttemptNat, <1>1, <1>2 DEF Aged, Slot

-----------------------------------------------------------------------------
\* A step that rewrites one slot of the current pool treats every slot as
\* Keeps says, if it treats that one so.
LEMMA WriteKeeps ==
  ASSUME TypeOK, NEW s \in Slots, NEW new \in Slot, Write(s, new),
         new.epoch = Current[s].epoch,
         new.gen >= Current[s].gen,
         \/ /\ new.lease = Current[s].lease
            /\ new.gen = Current[s].gen
            /\ (new.state = "available") = (Current[s].state = "available")
            /\ new.state \in Live => Current[s].state \in Live
            /\ new.state = "provisioning" => Current[s].state = "provisioning"
         \/ new.lease = 0 /\ new.state = "available"
  PROVE  /\ slots' \in [Slots -> Slot]
         /\ \A r \in Slots : Keeps(slots[r], slots'[r])
<1>1. /\ Current \in [Slots -> Slot]
      /\ slots' \in [Slots -> Slot]
      /\ slots'[s] = new
      /\ \A r \in Slots \ {s} : slots'[r] = Current[r]
  BY CurrentPool DEF Write
<1>2. ASSUME NEW r \in Slots PROVE Keeps(slots[r], slots'[r])
  <2>1. slots[r] \in Slot /\ slots[r].gen \in Nat
    BY DEF TypeOK, Slot
  <2>2. CASE r = s
    BY <1>1, <2>1, <2>2, CurrentPool DEF Keeps
  <2>3. CASE r # s
    BY <1>1, <2>1, <2>3, CurrentPool DEF Keeps
  <2> QED BY <2>2, <2>3
<1> QED BY <1>1, <1>2

\* The pool as every operation finds it is kept in the same sense.
LEMMA CurrentKeeps ==
  ASSUME TypeOK
  PROVE  \A r \in Slots : Keeps(slots[r], Current[r])
<1> SUFFICES ASSUME NEW r \in Slots PROVE Keeps(slots[r], Current[r])
  OBVIOUS
<1>1. slots[r] \in Slot /\ slots[r].gen \in Nat
  BY DEF TypeOK, Slot
<1> QED BY <1>1, CurrentPool DEF Keeps

\* Every write of an operation that leaves the lease on its slot is such a
\* step.
LEMMA KeepingWrites ==
  ASSUME TypeOK, NEW s \in Slots, NEW new \in Keeping(Current[s]), Write(s, new),
         Current[s].state # "available",
         new = Held(Current[s]) => Current[s].state \in Live
  PROVE  /\ slots' \in [Slots -> Slot]
         /\ \A r \in Slots : Keeps(slots[r], slots'[r])
<1>1. Current[s] \in Slot /\ Current[s].gen \in Nat
  BY CurrentPool DEF Slot
<1> QED BY <1>1, KeepingOperations, WriteKeeps

\* Every write that takes the lease off its slot is such a step.
LEMMA FreeingWrites ==
  ASSUME TypeOK, NEW s \in Slots,
         Write(s, Freed(Current[s])) \/ Write(s, Recovered(Current[s]))
  PROVE  /\ slots' \in [Slots -> Slot]
         /\ \A r \in Slots : Keeps(slots[r], slots'[r])
<1>1. Current[s] \in Slot /\ Current[s].gen \in Nat
  BY CurrentPool DEF Slot
<1>2. CASE Write(s, Freed(Current[s]))
  BY <1>1, <1>2, SlotOperations, WriteKeeps
<1>3. CASE Write(s, Recovered(Current[s]))
  BY <1>1, <1>3, SlotOperations, WriteKeeps
<1> QED BY <1>2, <1>3

\* The rewriting operations of lease.go: all but acquireSlot.
Rewriting ==
    \/ \E g \in grants :
          \/ AbortProvisioning(g)
          \/ MarkHeld(g)
          \/ Renew(g)
          \/ Handoff(g)
          \/ BeginDrain(g)
          \/ Quarantine(g)
    \/ \E s \in Slots :
          \/ \E ok \in BOOLEAN : FinishDrain(s, ok) \/ FinishRecovery(s, ok)
          \/ \E force \in BOOLEAN : BeginScheduledRecovery(s, force)
          \/ SetQuarantineIncident(s)
          \/ InterruptRecovery(s)
          \/ BeginExpectedDrain(s, plan[s])
          \/ BeginExpectedRecovery(s, plan[s])
          \/ BeginDrainSlot(s)
    \/ BeginDrainAll
    \/ Status
    \/ Tick

\* No operation but an acquisition puts a lease on a slot or gives one new
\* authority.
LEMMA RewritingKeeps ==
  ASSUME TypeOK, LeasedUnlessAvailable, GrantsNumbered, Rewriting
  PROVE  /\ \A r \in Slots : Keeps(slots[r], slots'[r])
         /\ slots' \in [Slots -> Slot]
         /\ UNCHANGED <<grants, gone, closed, plan, scope>>
<1>1. ASSUME NEW g \in grants,
             AbortProvisioning(g) \/ MarkHeld(g) \/ Renew(g) \/ Handoff(g)
                \/ BeginDrain(g) \/ Quarantine(g)
      PROVE  /\ \A r \in Slots : Keeps(slots[r], slots'[r])
             /\ slots' \in [Slots -> Slot]
             /\ UNCHANGED <<grants, gone, closed, plan, scope>>
  <2> DEFINE slot == Current[g.slot]
  <2>1. g.slot \in Slots
    BY DEF TypeOK, Grant
  <2>2. slot.state # "available"
    <3>1. slot.lease = g.lease
      BY <1>1 DEF AbortProvisioning, MarkHeld, Renew, Handoff, BeginDrain,
                  Quarantine, Owns
    <3>2. g.lease # 0
      <4>1. Cardinality(grants) \in Nat
        BY FS_CardinalityType DEF TypeOK
      <4> QED BY <4>1 DEF GrantsNumbered
    <3> QED BY <2>1, <3>1, <3>2, CurrentPool DEF LeasedUnlessAvailable
  <2>3. CASE AbortProvisioning(g)
    BY <2>1, <2>3, FreeingWrites DEF AbortProvisioning, Rest
  <2>4. CASE MarkHeld(g)
    BY <2>1, <2>2, <2>4, KeepingWrites DEF MarkHeld, Rest, Keeping, Live
  <2>5. CASE Renew(g)
    BY <2>1, <2>2, <2>5, KeepingWrites DEF Renew, Rest, Keeping
  <2>6. CASE Handoff(g)
    BY <2>1, <2>2, <2>6, KeepingWrites DEF Handoff, Rest, Keeping, Live
  <2>7. CASE BeginDrain(g)
    BY <2>1, <2>2, <2>7, KeepingWrites DEF BeginDrain, Rest, Keeping
  <2>8. CASE Quarantine(g)
    <3>1. Quarantined(slot) # Held(slot)
      BY <2>1, CurrentPool, StatesWritten
    <3> QED BY <2>1, <2>2, <2>8, <3>1, KeepingWrites DEF Quarantine, Rest, Keeping
  <2> QED BY <1>1, <2>3, <2>4, <2>5, <2>6, <2>7, <2>8
<1>2. ASSUME NEW s \in Slots,
             \/ \E ok \in BOOLEAN : FinishDrain(s, ok) \/ FinishRecovery(s, ok)
             \/ \E force \in BOOLEAN : BeginScheduledRecovery(s, force)
             \/ SetQuarantineIncident(s)
             \/ InterruptRecovery(s)
             \/ BeginExpectedDrain(s, plan[s])
             \/ BeginExpectedRecovery(s, plan[s])
             \/ BeginDrainSlot(s)
      PROVE  /\ \A r \in Slots : Keeps(slots[r], slots'[r])
             /\ slots' \in [Slots -> Slot]
             /\ UNCHANGED <<grants, gone, closed, plan, scope>>
  <2> DEFINE slot == Current[s]
  <2>1. slot \in Slot
    BY CurrentPool
  <2>2. /\ Quarantined(slot) # Held(slot)
        /\ Recovering(slot) # Held(slot)
        /\ RecoveryFailed(slot) # Held(slot)
    BY <2>1, StatesWritten
  <2>3. CASE \E ok \in BOOLEAN : FinishDrain(s, ok)
    <3>1. CASE FinishDrain(s, TRUE)
      BY <3>1, FreeingWrites DEF FinishDrain, Rest
    <3>2. CASE FinishDrain(s, FALSE)
      BY <2>2, <3>2, KeepingWrites DEF FinishDrain, Rest, Keeping
    <3> QED BY <2>3, <3>1, <3>2
  <2>4. CASE \E ok \in BOOLEAN : FinishRecovery(s, ok)
    <3>1. CASE FinishRecovery(s, TRUE)
      BY <3>1, FreeingWrites DEF FinishRecovery, Rest
    <3>2. CASE FinishRecovery(s, FALSE)
      BY <2>2, <3>2, KeepingWrites DEF FinishRecovery, Rest, Keeping
    <3> QED BY <2>4, <3>1, <3>2
  <2>5. CASE \/ BeginExpectedRecovery(s, plan[s])
             \/ \E force \in BOOLEAN : BeginScheduledRecovery(s, force)
    BY <2>2, <2>5, KeepingWrites
    DEF BeginExpectedRecovery, BeginScheduledRecovery, Rest, Keeping
  <2>6. CASE SetQuarantineIncident(s)
    <3>1. WithIncident(slot) # Held(slot)
      BY <2>1, <2>6 DEF SetQuarantineIncident, WithIncident, Held, Slot
    <3> QED BY <2>6, <3>1, KeepingWrites DEF SetQuarantineIncident, Rest, Keeping
  <2>7. CASE InterruptRecovery(s)
    BY <2>2, <2>7, KeepingWrites DEF InterruptRecovery, Rest, Keeping
  <2>8. CASE BeginExpectedDrain(s, plan[s]) \/ BeginDrainSlot(s)
    BY <2>8, KeepingWrites
    DEF BeginExpectedDrain, BeginDrainSlot, Rest, Keeping, Live
  <2> QED BY <1>2, <2>3, <2>4, <2>5, <2>6, <2>7, <2>8
<1>3. CASE BeginDrainAll
  <2>1. ASSUME NEW r \in Slots
        PROVE  slots'[r] \in Slot /\ Keeps(slots[r], slots'[r])
    <3>1. /\ slots[r] \in Slot /\ slots[r].gen \in Nat
          /\ Current[r] \in Slot
          /\ slots'[r] = IF Current[r].state \in Live
                         THEN Drained(Current[r], "other") ELSE Current[r]
      BY <1>3, CurrentPool DEF BeginDrainAll, TypeOK, Slot
    <3>2. CASE Current[r].state \in Live
      <4>1. LET new == Drained(Current[r], "other")
            IN  /\ new \in Slot
                /\ new.lease = Current[r].lease
                /\ new.gen = Current[r].gen
                /\ new.epoch = Current[r].epoch
                /\ new.state = "draining"
        BY <3>1, <3>2, KeepingOperations, StatesWritten DEF Keeping, Live
      <4>2. Current[r] = slots[r]
        BY <3>2, CurrentPool
      <4> QED BY <3>1, <3>2, <4>1, <4>2 DEF Keeps, Live
    <3>3. CASE Current[r].state \notin Live
      BY <3>1, <3>3, CurrentKeeps
    <3> QED BY <3>2, <3>3
  <2> QED BY <1>3, <2>1 DEF BeginDrainAll, Rest
<1>4. CASE Status
  BY <1>4, CurrentPool, CurrentKeeps DEF Status, Rest
<1>5. CASE Tick
  <2>1. ASSUME NEW r \in Slots
        PROVE  slots'[r] \in Slot /\ Keeps(slots[r], slots'[r])
    <3>1. slots[r] \in Slot /\ slots[r].gen \in Nat /\ slots'[r] = Aged(slots[r])
      BY <1>5 DEF Tick, TypeOK, Slot
    <3> QED BY <3>1, AgedSlot DEF Keeps
  <2> QED BY <1>5, <2>1 DEF Tick, Rest
<1> QED BY <1>1, <1>2, <1>3, <1>4, <1>5 DEF Rewriting
-----------------------------------------------------------------------------
\* The invariant holds of an empty pool.
LEMMA InitIInv == Init => IInv
<1> SUFFICES ASSUME Init PROVE IInv
  OBVIOUS
<1>1. FreshSlot \in Slot
  BY MaxAttemptNat DEF FreshSlot, Slot, States, Ticks
<1>2. TypeOK
  <2>1. NoPlan \in [Slots -> Binding]
    BY DEF NoPlan, Binding, States
  <2> QED BY <1>1, <2>1, FS_EmptySet DEF Init, TypeOK
<1>3. LeasedUnlessAvailable /\ LeaseWasGranted
  BY DEF Init, LeasedUnlessAvailable, LeaseWasGranted, FreshSlot
<1>4. GrantsNumbered /\ IdentityNamesOneLease /\ FenceCoversLiveLeases
  BY DEF Init, GrantsNumbered, IdentityNamesOneLease, FenceCoversLiveLeases
<1>5. PlanNotAhead
  BY DEF Init, PlanNotAhead, NoPlan, FreshSlot
<1> QED BY <1>2, <1>3, <1>4, <1>5 DEF IInv

\* A step that keeps every slot and changes nothing else preserves it.
LEMMA KeepingPreservesIInv ==
  ASSUME IInv, slots' \in [Slots -> Slot],
         \A r \in Slots : Keeps(slots[r], slots'[r]),
         UNCHANGED <<grants, gone, closed, plan, scope>>
  PROVE  IInv'
<1>1. TypeOK'
  BY DEF IInv, TypeOK
<1>2. \A r \in Slots : /\ slots[r].gen \in Nat /\ slots'[r].gen \in Nat
                       /\ slots[r].epoch \in Nat /\ slots'[r].epoch \in Nat
  BY DEF IInv, TypeOK, Slot
<1>3. LeasedUnlessAvailable'
  BY DEF IInv, LeasedUnlessAvailable, Keeps
<1>4. \A g \in grants : g.slot \in Slots /\ g.gen \in Nat /\ g.epoch \in Nat
  BY DEF IInv, TypeOK, Grant
<1>5. GrantsNumbered'
  BY <1>2, <1>4 DEF IInv, GrantsNumbered, Keeps
<1>6. LeaseWasGranted'
  BY DEF IInv, LeaseWasGranted, Keeps
<1>7. IdentityNamesOneLease'
  BY DEF IInv, IdentityNamesOneLease
<1>8. PlanNotAhead'
  BY DEF IInv, PlanNotAhead, Keeps
<1>9. FenceCoversLiveLeases'
  BY DEF IInv, FenceCoversLiveLeases, Keeps, Live
<1> QED BY <1>1, <1>3, <1>5, <1>6, <1>7, <1>8, <1>9 DEF IInv

\* What acquireSlot writes.
LEMMA AcquiredSlot ==
  ASSUME NEW slot \in Slot, NEW lease \in Nat, NEW owner \in BOOLEAN
  PROVE  /\ acquireSlot(slot, lease, owner) \in Slot
         /\ acquireSlot(slot, lease, owner).state = "provisioning"
         /\ acquireSlot(slot, lease, owner).lease = lease
         /\ acquireSlot(slot, lease, owner).gen = slot.gen + 1
         /\ acquireSlot(slot, lease, owner).epoch = slot.epoch + 1
<1>1. /\ slot.gen + 1 \in Nat \ {0}
      /\ slot.epoch + 1 \in Nat
      /\ 0 \in 0..MaxAttempt
      /\ ProvisioningTTL \in Ticks
      /\ NoTime \in Ticks
  <2>1. slot.gen \in Nat /\ slot.epoch \in Nat
    BY DEF Slot
  <2> QED BY <2>1, MaxAttemptNat, TTLAssumption DEF Ticks
<1> QED BY <1>1 DEF acquireSlot, Slot, States

\* An acquisition takes a number and counters that no grant has had, and it is
\* refused while admission is fenced.
LEMMA AcquirePreservesIInv ==
  ASSUME IInv, NEW s \in Slots, NEW owner \in BOOLEAN, AcquireV3Slot(s, owner)
  PROVE  /\ IInv'
         /\ Current[s].state = "available"
         /\ slots'[s].lease = NextLease
         /\ \A r \in Slots \ {s} : slots'[r] = Current[r]
<1> DEFINE n == NextLease
           slot == acquireSlot(Current[s], n, owner)
           new == [slot |-> s, gen |-> slot.gen, epoch |-> slot.epoch,
                   lease |-> slot.lease]
<1>1. TypeOK /\ LeasedUnlessAvailable
  BY DEF IInv
<1>2. /\ Cardinality(grants) \in Nat
      /\ n = Cardinality(grants) + 1
      /\ n \in Nat \ {0}
  BY <1>1, FS_CardinalityType DEF TypeOK, NextLease
<1>3. /\ Current \in [Slots -> Slot]
      /\ Current[s] \in Slot
      /\ slots[s].gen \in Nat /\ slots[s].epoch \in Nat
      /\ Current[s].gen = slots[s].gen /\ Current[s].epoch = slots[s].epoch
  <2>1. slots[s] \in Slot
    BY <1>1 DEF TypeOK
  <2>2. slots[s].gen \in Nat /\ slots[s].epoch \in Nat
    BY <2>1 DEF Slot
  <2> QED BY <1>1, <2>2, CurrentPool
<1>4. /\ slot \in Slot
      /\ slot.state = "provisioning"
      /\ slot.lease = n
      /\ slot.gen = slots[s].gen + 1
      /\ slot.epoch = slots[s].epoch + 1
  <2>1. n \in Nat
    BY <1>2
  <2> HIDE DEF n
  <2>2. /\ slot \in Slot
        /\ slot.state = "provisioning"
        /\ slot.lease = n
        /\ slot.gen = Current[s].gen + 1
        /\ slot.epoch = Current[s].epoch + 1
    BY <1>3, <2>1, AcquiredSlot
  <2> QED BY <1>3, <2>2
<1>5. /\ slots' = [Current EXCEPT ![s] = slot]
      /\ grants' = grants \cup {new}
      /\ ~closed
      /\ Current[s].state = "available"
      /\ UNCHANGED <<gone, closed, plan, scope>>
  BY DEF AcquireV3Slot, Write
<1> HIDE DEF n, slot
<1>6. /\ slots' \in [Slots -> Slot]
      /\ slots'[s] = slot
      /\ \A r \in Slots \ {s} : slots'[r] = Current[r]
  BY <1>3, <1>4, <1>5
<1>7. new \in Grant /\ new.slot = s /\ new.gen = slots[s].gen + 1
      /\ new.epoch = slots[s].epoch + 1 /\ new.lease = n
  BY <1>2, <1>3, <1>4 DEF Grant
<1> HIDE DEF new
<1>8. \A g \in grants : /\ g.slot \in Slots
                        /\ g.lease \in Nat /\ g.gen \in Nat /\ g.epoch \in Nat
                        /\ g.lease < n
                        /\ g.epoch <= slots[g.slot].epoch
                        /\ g.gen <= slots[g.slot].gen
  <2>1. \A g \in grants : /\ g.slot \in Slots
                          /\ g.lease \in Nat /\ g.gen \in Nat /\ g.epoch \in Nat
    BY <1>1 DEF TypeOK, Grant
  <2> QED BY <1>2, <2>1 DEF IInv, GrantsNumbered
<1>9. new \notin grants
  BY <1>2, <1>7, <1>8
<1>10. IsFiniteSet(grants') /\ Cardinality(grants') = n
  BY <1>1, <1>2, <1>5, <1>9, FS_AddElement DEF TypeOK
<1>11. TypeOK'
  BY <1>1, <1>5, <1>6, <1>7, <1>10 DEF TypeOK
<1>12. \A r \in Slots : /\ slots[r].gen \in Nat /\ slots[r].epoch \in Nat
                        /\ slots'[r].gen >= slots[r].gen
                        /\ slots'[r].epoch >= slots[r].epoch
                        /\ r # s => /\ slots'[r].epoch = slots[r].epoch
                                    /\ slots'[r].lease = slots[r].lease
  <2> SUFFICES ASSUME NEW r \in Slots
               PROVE  /\ slots[r].gen \in Nat /\ slots[r].epoch \in Nat
                      /\ slots'[r].gen >= slots[r].gen
                      /\ slots'[r].epoch >= slots[r].epoch
                      /\ r # s => /\ slots'[r].epoch = slots[r].epoch
                                  /\ slots'[r].lease = slots[r].lease
    OBVIOUS
  <2>1. slots[r].gen \in Nat /\ slots[r].epoch \in Nat
    BY <1>1 DEF TypeOK, Slot
  <2>2. CASE r = s
    BY <1>4, <1>6, <2>1, <2>2
  <2>3. CASE r # s
    BY <1>1, <1>6, <2>1, <2>3, CurrentPool
  <2> QED BY <2>2, <2>3
<1>13. LeasedUnlessAvailable'
  BY <1>1, <1>2, <1>4, <1>6, CurrentPool DEF LeasedUnlessAvailable
<1>14. GrantsNumbered'
  <2>1. ASSUME NEW g \in grants'
        PROVE  /\ g.lease \in 1..Cardinality(grants')
               /\ g.epoch <= slots'[g.slot].epoch
               /\ g.gen <= slots'[g.slot].gen
    <3>1. CASE g = new
      BY <1>2, <1>3, <1>4, <1>6, <1>7, <1>10, <3>1
    <3>2. CASE g \in grants
      <4>1. g.lease \in 1..Cardinality(grants)
        BY <3>2 DEF IInv, GrantsNumbered
      <4>2. slots'[g.slot].gen \in Nat /\ slots'[g.slot].epoch \in Nat
        BY <1>6, <1>8, <3>2 DEF Slot
      <4> QED BY <1>2, <1>8, <1>10, <1>12, <3>2, <4>1, <4>2
    <3> QED BY <1>5, <3>1, <3>2
  <2>2. \A g, h \in grants' : g.lease = h.lease => g = h
    BY <1>2, <1>5, <1>7, <1>8 DEF IInv, GrantsNumbered
  <2> QED BY <2>1, <2>2 DEF GrantsNumbered
<1>15. LeaseWasGranted'
  <2> SUFFICES ASSUME NEW r \in Slots, slots'[r].lease # 0
               PROVE  \E g \in grants' : /\ g.slot = r
                                         /\ g.lease = slots'[r].lease
                                         /\ g.epoch = slots'[r].epoch
    BY DEF LeaseWasGranted
  <2>1. CASE r = s
    BY <1>4, <1>5, <1>6, <1>7, <2>1
  <2>2. CASE r # s
    BY <1>5, <1>12, <2>2 DEF IInv, LeaseWasGranted
  <2> QED BY <2>1, <2>2
<1>16. IdentityNamesOneLease'
  <2>1. \A g \in grants : g.slot = s => g.epoch # new.epoch /\ g.gen # new.gen
    BY <1>3, <1>7, <1>8
  <2> QED BY <1>5, <1>7, <2>1 DEF IInv, IdentityNamesOneLease
<1>17. PlanNotAhead'
  <2> SUFFICES ASSUME NEW r \in Slots
               PROVE  /\ plan[r].epoch <= slots'[r].epoch
                      /\ plan[r].epoch = slots'[r].epoch /\ slots'[r].lease # 0
                           => \/ plan[r].gen = 0
                              \/ plan[r].lease = slots'[r].lease
    BY <1>5 DEF PlanNotAhead
  <2>1. plan[r].epoch \in Nat /\ plan[r].epoch <= slots[r].epoch
    BY <1>1 DEF IInv, PlanNotAhead, TypeOK, Binding
  <2>2. CASE r = s
    BY <1>3, <1>4, <1>6, <2>1, <2>2
  <2>3. CASE r # s
    BY <1>12, <2>1, <2>3 DEF IInv, PlanNotAhead
  <2> QED BY <2>2, <2>3
<1>18. FenceCoversLiveLeases'
  BY <1>5 DEF FenceCoversLiveLeases
<1> QED
  BY <1>4, <1>5, <1>6, <1>11, <1>13, <1>14, <1>15, <1>16, <1>17, <1>18
  DEF IInv, n, slot

\* Reading the pool, fencing and reopening admission, and the exit of an
\* acquire process preserve it.
LEMMA OperatorPreservesIInv ==
  ASSUME IInv,
         \/ Inspect \/ FenceExpectedPool \/ OpenAdmission
         \/ \E g \in grants : RequesterGone(g)
  PROVE  /\ IInv'
         /\ slots' \in {slots, Current}
         /\ grants' = grants
<1>1. TypeOK
  BY DEF IInv
<1>2. CASE Inspect
  <2>1. PoolOperationBinding \in [Slots -> Binding]
    BY <1>1, CurrentPool DEF PoolOperationBinding, Binding, Slot
  <2>2. PlanNotAhead'
    <3>1. \A s \in Slots : /\ plan'[s].epoch = slots[s].epoch
                           /\ plan'[s].lease = slots[s].lease
                           /\ slots[s].epoch \in Nat
      BY <1>1, <1>2, CurrentPool DEF Inspect, PoolOperationBinding, TypeOK, Slot
    <3> QED BY <1>2, <3>1 DEF Inspect, PlanNotAhead
  <2>3. TypeOK'
    BY <1>1, <1>2, <2>1 DEF Inspect, TypeOK
  <2>4. (GrantsNumbered /\ LeaseWasGranted /\ LeasedUnlessAvailable)'
    BY <1>2 DEF Inspect, IInv, GrantsNumbered, LeaseWasGranted, LeasedUnlessAvailable
  <2>5. (IdentityNamesOneLease /\ FenceCoversLiveLeases)'
    BY <1>2 DEF Inspect, IInv, IdentityNamesOneLease, FenceCoversLiveLeases
  <2> QED BY <1>2, <2>2, <2>3, <2>4, <2>5 DEF Inspect, IInv
<1>3. ASSUME NEW g \in grants, RequesterGone(g) PROVE IInv' /\ slots' = slots
  <2>1. g.lease \in Nat
    BY <1>1 DEF TypeOK, Grant
  <2>2. TypeOK'
    BY <1>1, <1>3, <2>1 DEF RequesterGone, TypeOK
  <2>3. (GrantsNumbered /\ LeaseWasGranted /\ LeasedUnlessAvailable)'
    BY <1>3 DEF RequesterGone, IInv, GrantsNumbered, LeaseWasGranted,
                LeasedUnlessAvailable
  <2>4. (IdentityNamesOneLease /\ FenceCoversLiveLeases /\ PlanNotAhead)'
    BY <1>3 DEF RequesterGone, IInv, IdentityNamesOneLease,
                FenceCoversLiveLeases, PlanNotAhead
  <2> QED BY <1>3, <2>2, <2>3, <2>4 DEF RequesterGone, IInv
<1>4. CASE FenceExpectedPool \/ OpenAdmission
  <2>1. slots' = Current /\ UNCHANGED <<grants, gone, plan>>
    BY <1>4 DEF FenceExpectedPool, OpenAdmission
  <2>2. slots' \in [Slots -> Slot] /\ \A r \in Slots : Keeps(slots[r], slots'[r])
    BY <1>1, <2>1, CurrentPool, CurrentKeeps
  <2>3. closed' \in BOOLEAN /\ scope' \in [Slots -> Binding]
    <3>1. NoPlan \in [Slots -> Binding]
      BY DEF NoPlan, Binding, States
    <3> QED BY <1>1, <1>4, <3>1 DEF FenceExpectedPool, OpenAdmission, TypeOK
  <2>4. TypeOK'
    BY <1>1, <2>1, <2>2, <2>3 DEF TypeOK
  <2>5. \A r \in Slots : /\ slots[r].gen \in Nat
                         /\ slots'[r].gen = slots[r].gen
                         /\ slots'[r].epoch = slots[r].epoch
                         /\ slots'[r].lease = slots[r].lease
                         /\ (slots'[r].state = "available")
                               = (slots[r].state = "available")
    BY <1>1, <2>1, CurrentPool DEF TypeOK, Slot
  <2>6. \A g \in grants : g.slot \in Slots
    BY <1>1 DEF TypeOK, Grant
  <2>7. /\ LeasedUnlessAvailable' /\ LeaseWasGranted'
        /\ IdentityNamesOneLease' /\ PlanNotAhead'
    BY <2>1, <2>5 DEF IInv, LeasedUnlessAvailable, LeaseWasGranted,
                      IdentityNamesOneLease, PlanNotAhead
  <2>8. GrantsNumbered'
    BY <2>1, <2>5, <2>6 DEF IInv, GrantsNumbered
  <2>9. FenceCoversLiveLeases'
    <3>1. CASE OpenAdmission
      BY <3>1 DEF OpenAdmission, FenceCoversLiveLeases
    <3>2. CASE FenceExpectedPool
      <4>1. \A r \in Slots : scope'[r].lease = Current[r].lease
        BY <3>2 DEF FenceExpectedPool, PoolOperationBinding
      <4> QED BY <2>1, <4>1 DEF FenceCoversLiveLeases
    <3> QED BY <1>4, <3>1, <3>2
  <2> QED BY <2>1, <2>4, <2>7, <2>8, <2>9 DEF IInv
<1> QED
  BY <1>2, <1>3, <1>4 DEF Inspect, FenceExpectedPool, OpenAdmission, RequesterGone

\* Every step preserves the invariant.
LEMMA NextIInv == IInv /\ [Next]_storeVars => IInv'
<1> SUFFICES ASSUME IInv, [Next]_storeVars PROVE IInv'
  OBVIOUS
<1>1. CASE \E s \in Slots, owner \in BOOLEAN : AcquireV3Slot(s, owner)
  BY <1>1, AcquirePreservesIInv
<1>2. CASE Rewriting
  BY <1>2, RewritingKeeps, KeepingPreservesIInv DEF IInv
<1>3. CASE \/ Inspect \/ FenceExpectedPool \/ OpenAdmission
           \/ \E g \in grants : RequesterGone(g)
  BY <1>3, OperatorPreservesIInv
<1>4. CASE UNCHANGED storeVars
  BY <1>4
  DEF storeVars, IInv, TypeOK, LeasedUnlessAvailable, GrantsNumbered,
      LeaseWasGranted, IdentityNamesOneLease, FenceCoversLiveLeases, PlanNotAhead
<1> QED BY <1>1, <1>2, <1>3, <1>4 DEF Next, Rewriting

\* The inductive invariant holds in every state of the store.
THEOREM StoreInvariant == Spec => []IInv
<1> QED BY InitIInv, NextIInv, PTL DEF Spec

\* Every value that the store keeps has its type.
THEOREM StoreTypeCorrect == Spec => []TypeOK
<1>1. IInv => TypeOK
  BY DEF IInv
<1> QED BY <1>1, StoreInvariant, PTL

\* A generation or an epoch of a slot names one lease for ever: the counters of
\* LeaseIdentity are never reissued.
THEOREM IdentitiesAreUnique == Spec => []IdentityNamesOneLease
<1>1. IInv => IdentityNamesOneLease
  BY DEF IInv
<1> QED BY <1>1, StoreInvariant, PTL

\* An operator's drain or recovery by expected counters can only reach the
\* lease that the operator inspected.
THEOREM ExpectedTargetsArePlanned == Spec => []ExpectedHitsPlannedLease
<1>1. IInv => ExpectedHitsPlannedLease
  <2> SUFFICES ASSUME IInv, NEW s \in Slots, Expected(s, plan[s]), Current[s].lease # 0
               PROVE  Current[s].lease = plan[s].lease
    BY DEF ExpectedHitsPlannedLease
  <2>1. Current[s].gen # 0
    BY CurrentPool DEF IInv, Slot
  <2> QED
    BY <2>1, CurrentPool
    DEF IInv, PlanNotAhead, Expected, slotMatchesLeaseIdentity
<1> QED BY <1>1, StoreInvariant, PTL

\* No lease outside the approved scope has authority while admission is fenced.
THEOREM FenceIsTight == Spec => []FenceCoversLiveLeases
<1>1. IInv => FenceCoversLiveLeases
  BY DEF IInv
<1> QED BY <1>1, StoreInvariant, PTL

-----------------------------------------------------------------------------
(* What no step may do.                                                    *)

\* Whatever a step does, a slot is kept in the sense of Keeps, or it was
\* available and has got the next lease.
LEMMA StepKeepsOrGrants ==
  ASSUME IInv, [Next]_storeVars, NEW r \in Slots
  PROVE  \/ Keeps(slots[r], slots'[r])
         \/ slots[r].state = "available" /\ slots'[r].lease = NextLease
<1>1. TypeOK /\ LeasedUnlessAvailable /\ GrantsNumbered
  BY DEF IInv
<1>2. Keeps(slots[r], Current[r]) /\ Keeps(slots[r], slots[r])
  <2>1. slots[r] \in Slot /\ slots[r].gen \in Nat
    BY <1>1 DEF TypeOK, Slot
  <2> QED BY <1>1, <2>1, CurrentKeeps DEF Keeps
<1>3. CASE \E s \in Slots, owner \in BOOLEAN : AcquireV3Slot(s, owner)
  <2>1. PICK s \in Slots, owner \in BOOLEAN : AcquireV3Slot(s, owner)
    BY <1>3
  <2>2. /\ Current[s].state = "available"
        /\ slots'[s].lease = NextLease
        /\ \A q \in Slots \ {s} : slots'[q] = Current[q]
    BY <2>1, AcquirePreservesIInv
  <2>3. CASE r = s
    BY <1>1, <2>2, <2>3, CurrentPool
  <2>4. CASE r # s
    BY <1>2, <2>2, <2>4
  <2> QED BY <2>3, <2>4
<1>4. CASE Rewriting
  BY <1>1, <1>4, RewritingKeeps
<1>5. CASE \/ Inspect \/ FenceExpectedPool \/ OpenAdmission
           \/ \E g \in grants : RequesterGone(g)
  BY <1>2, <1>5, OperatorPreservesIInv
<1>6. CASE UNCHANGED storeVars
  BY <1>2, <1>6 DEF storeVars
<1> QED BY <1>3, <1>4, <1>5, <1>6 DEF Next, Rewriting

\* A lease that lost its authority over its slot, by expiry, release,
\* revocation or quarantine, never gets it back, however late a heartbeat or a
\* MarkHeld of its client arrives.
THEOREM LeasesAreNeverRevived == Spec => NoRevival
<1>1. ASSUME IInv, [Next]_storeVars
      PROVE  [\A g \in grants : ~HasAuthority(g) => ~HasAuthority(g)']_storeVars
  <2> SUFFICES ASSUME NEW g \in grants, ~HasAuthority(g)
               PROVE  ~HasAuthority(g)'
    OBVIOUS
  <2>1. g.slot \in Slots /\ g.lease \in Nat
    BY <1>1 DEF IInv, TypeOK, Grant
  <2>2. CASE Keeps(slots[g.slot], slots'[g.slot])
    BY <2>2 DEF Keeps, HasAuthority, Live
  <2>3. CASE slots'[g.slot].lease = NextLease
    <3>1. Cardinality(grants) \in Nat
      BY <1>1, FS_CardinalityType DEF IInv, TypeOK
    <3>2. g.lease # NextLease
      BY <1>1, <2>1, <3>1 DEF IInv, GrantsNumbered, NextLease
    <3> QED BY <2>3, <3>2 DEF HasAuthority
  <2> QED BY <1>1, <2>1, <2>2, <2>3, StepKeepsOrGrants
<1> QED BY <1>1, StoreInvariant, PTL DEF Spec, NoRevival

\* A lease whose deadline has passed, or whose acquire process died, is not
\* extended by any operation: all of them expire it first.
THEOREM StaleLeasesDrain == Spec => StaleLeaseOnlyDrains
<1>1. ASSUME IInv, [Next]_storeVars
      PROVE  [\A s \in Slots :
                 Stale(slots[s], gone) /\ slots'[s] # slots[s]
                    => slots'[s].lease # slots[s].lease
                       \/ slots'[s].state \notin Live
                       \/ slots'[s].expires <= slots[s].expires]_storeVars
  <2> SUFFICES ASSUME NEW s \in Slots, Stale(slots[s], gone), slots'[s] # slots[s]
               PROVE  \/ slots'[s].lease # slots[s].lease
                      \/ slots'[s].state \notin Live
                      \/ slots'[s].expires <= slots[s].expires
    OBVIOUS
  <2>1. slots[s].state # "available"
    BY DEF Stale, Live
  <2>2. Keeps(slots[s], slots'[s])
    BY <1>1, <2>1, StepKeepsOrGrants
  <2> QED BY <2>2 DEF Keeps, Live
<1> QED BY <1>1, StoreInvariant, PTL DEF Spec, StaleLeaseOnlyDrains

\* A slot that becomes available was draining, recovering or provisioning when
\* the operation that frees it looked at it: FinishDrain, FinishRecovery and
\* AbortProvisioning are the only ways out of a lease.
LEMMA FreedFrom ==
  ASSUME IInv, [Next]_storeVars, NEW r \in Slots,
         slots'[r].state = "available", slots[r].state # "available"
  PROVE  Current[r].state \in {"draining", "recovering", "provisioning"}
<1>1. TypeOK /\ LeasedUnlessAvailable /\ GrantsNumbered
  BY DEF IInv
<1>2. /\ Current \in [Slots -> Slot]
      /\ slots[r] \in Slot
      /\ Current[r].state # "available"
  BY <1>1, CurrentPool DEF TypeOK
<1>3. ASSUME NEW s \in Slots, NEW new, Write(s, new),
             new \in Keeping(Current[s])
      PROVE  FALSE
  <2>1. slots'[r] = IF r = s THEN new ELSE Current[r]
    BY <1>2, <1>3 DEF Write
  <2>2. r = s
    BY <1>2, <2>1
  <2> QED BY <1>2, <1>3, <2>1, <2>2, KeepingOperations
<1>4. ASSUME NEW s \in Slots, NEW new, Write(s, new),
             Current[s].state \in {"draining", "recovering", "provisioning"}
      PROVE  Current[r].state \in {"draining", "recovering", "provisioning"}
  BY <1>2, <1>4 DEF Write
<1>5. slots' # Current /\ slots' # slots
  BY <1>2
<1>6. CASE \E s \in Slots, owner \in BOOLEAN : AcquireV3Slot(s, owner)
  <2>1. PICK s \in Slots, owner \in BOOLEAN : AcquireV3Slot(s, owner)
    BY <1>6
  <2>2. Current[s].state = "available" /\ \A q \in Slots \ {s} : slots'[q] = Current[q]
    BY <2>1, AcquirePreservesIInv
  <2> QED BY <1>2, <2>2
<1>7. CASE \E g \in grants : \/ AbortProvisioning(g) \/ MarkHeld(g) \/ Renew(g)
                             \/ Handoff(g) \/ BeginDrain(g) \/ Quarantine(g)
  <2>1. PICK g \in grants : \/ AbortProvisioning(g) \/ MarkHeld(g) \/ Renew(g)
                            \/ Handoff(g) \/ BeginDrain(g) \/ Quarantine(g)
    BY <1>7
  <2>2. g.slot \in Slots
    BY <1>1 DEF TypeOK, Grant
  <2>3. CASE AbortProvisioning(g)
    BY <1>4, <2>2, <2>3 DEF AbortProvisioning
  <2>4. CASE MarkHeld(g)
    BY <1>3, <2>2, <2>4 DEF MarkHeld, Keeping
  <2>5. CASE Renew(g)
    BY <1>3, <2>2, <2>5 DEF Renew, Keeping
  <2>6. CASE Handoff(g)
    BY <1>3, <2>2, <2>6 DEF Handoff, Keeping
  <2>7. CASE BeginDrain(g)
    BY <1>3, <2>2, <2>7 DEF BeginDrain, Keeping
  <2>8. CASE Quarantine(g)
    BY <1>3, <2>2, <2>8 DEF Quarantine, Keeping
  <2> QED BY <2>1, <2>3, <2>4, <2>5, <2>6, <2>7, <2>8
<1>8. CASE \E s \in Slots :
              \/ \E ok \in BOOLEAN : FinishDrain(s, ok) \/ FinishRecovery(s, ok)
              \/ \E force \in BOOLEAN : BeginScheduledRecovery(s, force)
              \/ SetQuarantineIncident(s)
              \/ InterruptRecovery(s)
              \/ BeginExpectedDrain(s, plan[s])
              \/ BeginExpectedRecovery(s, plan[s])
              \/ BeginDrainSlot(s)
  <2>1. PICK s \in Slots :
              \/ \E ok \in BOOLEAN : FinishDrain(s, ok) \/ FinishRecovery(s, ok)
              \/ \E force \in BOOLEAN : BeginScheduledRecovery(s, force)
              \/ SetQuarantineIncident(s)
              \/ InterruptRecovery(s)
              \/ BeginExpectedDrain(s, plan[s])
              \/ BeginExpectedRecovery(s, plan[s])
              \/ BeginDrainSlot(s)
    BY <1>8
  <2>2. CASE \E ok \in BOOLEAN : FinishDrain(s, ok) \/ FinishRecovery(s, ok)
    BY <1>4, <2>2 DEF FinishDrain, FinishRecovery
  <2>3. CASE \/ \E force \in BOOLEAN : BeginScheduledRecovery(s, force)
             \/ BeginExpectedRecovery(s, plan[s])
    BY <1>3, <2>3 DEF BeginScheduledRecovery, BeginExpectedRecovery, Keeping
  <2>4. CASE SetQuarantineIncident(s)
    BY <1>3, <2>4 DEF SetQuarantineIncident, Keeping
  <2>5. CASE InterruptRecovery(s)
    BY <1>3, <2>5 DEF InterruptRecovery, Keeping
  <2>6. CASE BeginExpectedDrain(s, plan[s]) \/ BeginDrainSlot(s)
    BY <1>3, <2>6 DEF BeginExpectedDrain, BeginDrainSlot, Keeping
  <2> QED BY <2>1, <2>2, <2>3, <2>4, <2>5, <2>6
<1>9. CASE BeginDrainAll
  <2>1. Drained(Current[r], "other").state = "draining"
    BY <1>2, StatesWritten
  <2> QED BY <1>2, <1>9, <2>1 DEF BeginDrainAll
<1>10. CASE Tick
  <2>1. slots'[r] = Aged(slots[r])
    BY <1>10 DEF Tick
  <2> QED BY <1>2, <2>1, AgedSlot
<1>11. CASE \/ Inspect \/ FenceExpectedPool \/ OpenAdmission \/ Status
            \/ UNCHANGED storeVars \/ \E g \in grants : RequesterGone(g)
  BY <1>5, <1>11
  DEF Inspect, FenceExpectedPool, OpenAdmission, Status, storeVars, RequesterGone
<1> QED BY <1>6, <1>7, <1>8, <1>9, <1>10, <1>11 DEF Next

\* A slot is never taken from one lease and given to another in one step, and
\* it comes back to admission only out of a drain, a recovery or a rejected
\* admission.
THEOREM SlotsChangeHandsSafely == Spec => HandsOverThroughAvailable
<1>1. ASSUME IInv, [Next]_storeVars
      PROVE  [\A s \in Slots :
                /\ slots[s].lease # slots'[s].lease
                      => "available" \in {slots[s].state, slots'[s].state}
                /\ slots'[s].state = "available" /\ slots[s].state # "available"
                      => Current[s].state \in {"draining", "recovering", "provisioning"}
             ]_storeVars
  <2>1. ASSUME NEW s \in Slots, slots[s].lease # slots'[s].lease
        PROVE  "available" \in {slots[s].state, slots'[s].state}
    BY <1>1, <2>1, StepKeepsOrGrants DEF Keeps
  <2>2. ASSUME NEW s \in Slots,
               slots'[s].state = "available", slots[s].state # "available"
        PROVE  Current[s].state \in {"draining", "recovering", "provisioning"}
    BY <1>1, <2>2, FreedFrom
  <2> QED BY <2>1, <2>2
<1> QED BY <1>1, StoreInvariant, PTL DEF Spec, HandsOverThroughAvailable

-----------------------------------------------------------------------------
(* The broker's processes use the store.                                   *)

\* An operator's request for a lease by its counters is one of the store's
\* requests for a slot, with a further condition.
LEMMA ExpectedIsAddressedBySlot ==
  ASSUME NEW s \in Slots, NEW g
  PROVE  /\ BeginExpectedDrain(s, g) => BeginDrainSlot(s)
         /\ BeginExpectedRecovery(s, g) => BeginScheduledRecovery(s, TRUE)
BY DEF BeginExpectedDrain, BeginDrainSlot, BeginExpectedRecovery,
       BeginScheduledRecovery

\* The acquire process and its session change the pool by store operations.
LEMMA SessionUsesStore ==
  ASSUME NEW g \in grants,
         \/ SessionStep(g) \/ SessionDies(g) \/ EnterAcquire(g) \/ AcquireStep(g)
         \/ EnterQuarantine(g) \/ Heartbeat(g)
  PROVE  [Next]_storeVars
<1>1. CASE SessionStep(g)
  <2>1. CASE \E ok \in BOOLEAN : RecordAcquire(g, ok) \/ RecordHeld(g, ok)
    BY <2>1 DEF RecordAcquire, RecordHeld
  <2>2. CASE AdmissionRejected(g)
    BY <2>2 DEF AdmissionRejected, Next
  <2>3. CASE \E cancelled \in BOOLEAN : ProvisioningFailed(g, cancelled)
    BY <2>3 DEF ProvisioningFailed, Next
  <2>4. CASE \E acked \in BOOLEAN : Acknowledge(g, acked)
    BY <2>4 DEF Acknowledge, Next
  <2>5. CASE CloseSession(g)
    BY <2>5 DEF CloseSession, PublishDrain, Exit, Next
  <2>6. CASE ReservationNotTold(g)
    BY <2>6 DEF ReservationNotTold
  <2> QED BY <1>1, <2>1, <2>2, <2>3, <2>4, <2>5, <2>6 DEF SessionStep
<1>2. CASE SessionDies(g)
  BY <1>2 DEF SessionDies, Exit, Next
<1>3. CASE EnterAcquire(g)
  BY <1>3 DEF EnterAcquire, Next
<1>4. CASE AcquireStep(g)
  <2>1. CASE ReserveEnvironment(g) \/ PinBase(g)
    BY <2>1 DEF ReserveEnvironment, PinBase, Next
  <2>2. CASE Hold(g)
    BY <2>2 DEF Hold, Next
  <2>3. CASE \/ RejectAdmission(g) \/ RestrictAccess(g) \/ OperationReturns(g)
             \/ EnvironmentCreated(g) \/ EnvironmentStarted(g) \/ HoldFails(g)
             \/ AcquireFails(g) \/ UndoAcquire(g)
             \/ \E v \in Guests : CreateVM(g, v) \/ StartVM(g, v)
             \/ \E ok \in BOOLEAN : EnableAgentAccess(g, ok)
    <3>1. UNCHANGED storeVars
      BY <2>3
      DEF RejectAdmission, RestrictAccess, OperationReturns, EnvironmentCreated,
          EnvironmentStarted, HoldFails, AcquireFails, UndoAcquire, CreateVM,
          StartVM, EnableAgentAccess
    <3> QED BY <3>1
  <2> QED BY <1>4, <2>1, <2>2, <2>3 DEF AcquireStep
<1>5. CASE EnterQuarantine(g)
  BY <1>5 DEF EnterQuarantine, Next
<1>6. CASE Heartbeat(g)
  BY <1>6 DEF Heartbeat, Next
<1> QED BY <1>1, <1>2, <1>3, <1>4, <1>5, <1>6

\* So do the jobs under a lifecycle lock.
LEMMA JobUsesStore ==
  ASSUME NEW s \in Slots,
         \/ ReapDraining(s) \/ JobStep(s) \/ JobDies(s)
         \/ \E force \in BOOLEAN : RecoverScheduled(s, force)
         \/ \E op \in ops[s], ok \in BOOLEAN : OperationEnds(s, op, ok)
         \/ \E v \in Guests : GuestPowersOff(s, v)
  PROVE  [Next]_storeVars
<1>1. CASE ReapDraining(s)
  BY <1>1 DEF ReapDraining, Next
<1>2. CASE JobStep(s)
  <2>1. CASE CleanStep(s) \/ CleanupFails(s)
    BY <2>1 DEF CleanStep, CleanupFails, RestrictRetained, StopRetained,
                AllocationIdle, DeleteInstances, NoneRemain
  <2>2. CASE BeginRecovery(s)
    <3>1. PICK force \in BOOLEAN : BeginScheduledRecovery(s, force)
      <4>1. (job[s].kind = "forced") \in BOOLEAN
        OBVIOUS
      <4> QED BY <2>2, <4>1 DEF BeginRecovery
    <3> QED BY <3>1 DEF Next
  <2>3. CASE \E ok \in BOOLEAN : CompleteDrain(s, ok)
    BY <2>3 DEF CompleteDrain, Next
  <2>4. CASE \E ok \in BOOLEAN : RecordRecoveryStart(s, ok)
    BY <2>4 DEF RecordRecoveryStart
  <2>5. CASE \E ok, fenced \in BOOLEAN : handleQuarantineLocked(s, fenced, ok)
    BY <2>5 DEF handleQuarantineLocked, Next
  <2>6. CASE \E ok \in BOOLEAN : CompleteRecovery(s, ok)
    BY <2>6 DEF CompleteRecovery, Next
  <2> QED BY <1>2, <2>1, <2>2, <2>3, <2>4, <2>5, <2>6 DEF JobStep
<1>3. CASE JobDies(s)
  BY <1>3 DEF JobDies
<1>4. CASE \E force \in BOOLEAN : RecoverScheduled(s, force)
  BY <1>4 DEF RecoverScheduled, Next
<1>5. CASE \E op \in ops[s], ok \in BOOLEAN : OperationEnds(s, op, ok)
  BY <1>5 DEF OperationEnds
<1>6. CASE \E v \in Guests : GuestPowersOff(s, v)
  BY <1>6 DEF GuestPowersOff
<1> QED BY <1>1, <1>2, <1>3, <1>4, <1>5, <1>6

\* And the requests that drain or recover a slot.
LEMMA RequestUsesStore ==
  ASSUME TypeOK, NEW g \in grants,
         \/ ReleaseSlot(g) \/ RevokeExpectedSlot(g) \/ RecoverExpectedSlot(g)
         \/ \E request \in {"release", "revoke"} : EnterDrain(request, g)
  PROVE  [Next]_storeVars
<1>1. g.slot \in Slots
  BY DEF TypeOK, Grant
<1>2. CASE ReleaseSlot(g)
  BY <1>2 DEF ReleaseSlot, PublishDrain, Next
<1>3. CASE RevokeExpectedSlot(g)
  BY <1>1, <1>3, ExpectedIsAddressedBySlot DEF RevokeExpectedSlot, Next
<1>4. CASE RecoverExpectedSlot(g)
  <2>1. BeginScheduledRecovery(g.slot, TRUE)
    BY <1>1, <1>4, ExpectedIsAddressedBySlot DEF RecoverExpectedSlot
  <2> QED BY <1>1, <2>1 DEF Next
<1>5. CASE \E request \in {"release", "revoke"} : EnterDrain(request, g)
  BY <1>5 DEF EnterDrain, Next
<1> QED BY <1>2, <1>3, <1>4, <1>5

\* Every step of the broker is a step of the store or leaves the pool alone.
LEMMA BrokerStepIsStoreStep ==
  ASSUME TypeOK, [BrokerNext]_brokerVars
  PROVE  [Next]_storeVars
<1>1. CASE \E s \in Slots, v4 \in BOOLEAN : Acquire(s, v4)
  BY <1>1 DEF Acquire, Next
<1>2. CASE DrainAll \/ TimePasses
  BY <1>2 DEF DrainAll, TimePasses, Next
<1>3. CASE UNCHANGED brokerVars
  BY <1>3 DEF brokerVars, storeVars
<1> QED
  BY <1>1, <1>2, <1>3, SessionUsesStore, JobUsesStore, RequestUsesStore
  DEF BrokerNext

\* The inductive invariant of the store holds in every state of the broker.
THEOREM BrokerKeepsStoreInvariant == BrokerSpec => []IInv
<1>1. BrokerInit => IInv
  BY InitIInv DEF BrokerInit
<1>2. IInv /\ [BrokerNext]_brokerVars => IInv'
  <2>1. IInv => TypeOK
    BY DEF IInv
  <2> QED BY <2>1, BrokerStepIsStoreStep, NextIInv
<1> QED BY <1>1, <1>2, PTL DEF BrokerSpec

\* The broker implements the lease store.
THEOREM BrokerImplementsStore == BrokerSpec => Spec
<1>1. BrokerInit => Init
  BY DEF BrokerInit
<1>2. IInv /\ [BrokerNext]_brokerVars => [Next]_storeVars
  <2>1. IInv => TypeOK
    BY DEF IInv
  <2> QED BY <2>1, BrokerStepIsStoreStep
<1> QED BY <1>1, <1>2, BrokerKeepsStoreInvariant, PTL DEF BrokerSpec, Spec

\* In the whole broker, with processes that die in the middle of a job and
\* clients that heartbeat late, no lease regains its authority.
THEOREM BrokerNeverRevives == BrokerSpec => NoRevival
<1> QED BY BrokerImplementsStore, LeasesAreNeverRevived, PTL

-----------------------------------------------------------------------------
(* The machines.  What holds of a slot depends on how far the holder of    *)
(* its lifecycle lock and the process that acquired it have got: SlotInv   *)
(* ties the three together.  Only the holder of the lock of a slot, Incus  *)
(* and the guests touch its machines; what everybody else can do to the    *)
(* slot is to expire or drain its lease (Settles).                         *)

VMs == [st : {"none", "stopped", "running"}, gen : Nat, epoch : Nat]

Operations == [kind : {"create", "start"}, vm : Guests, gen : Nat, epoch : Nat]

\* The types of the processes and of the machines.
BrokerTypeOK ==
    /\ job \in [Slots -> Jobs]
    /\ session \in [Leases -> Sessions]
    /\ vms \in [Slots -> [Guests -> VMs]]
    /\ ops \in [Slots -> SUBSET Operations]
    /\ access \in [Slots -> Nat]

\* A grant is of a lease in the range of the sessions, and while its lease is
\* on the slot the slot's generation is still its own.
GrantsCurrent ==
    \A g \in grants :
       /\ g.lease \in Leases
       /\ slots[g.slot].lease = g.lease => slots[g.slot].gen = g.gen

\* Which kind of job can be where.
JobShape(s) ==
    /\ job[s].kind = "none" => job[s] = NoJob
    /\ job[s].kind = "acquire" <=> job[s].pc \in Provisioning \cup {"hold", "undo"}
    /\ job[s].pc \in Cleaning \cup {"fence", "finish", "giveup"}
          => job[s].kind \in {"drain", "recovery"}
    /\ job[s].pc = "started" => job[s].kind = "recovery"
    /\ job[s].pc = "begin" => job[s].kind \in {"scheduled", "forced"}

\* An acquire job belongs to a session that is at work.  Once its admission is
\* written it works on its own lease, which nobody can have marked held.
AcquireJobOK(s) ==
    job[s].kind = "acquire" =>
       /\ \E g \in grants : /\ g.slot = s
                            /\ slotMatchesLeaseIdentity(job[s], g)
                            /\ job[s].lease = g.lease
                            /\ session[g.lease].pc = "working"
       /\ job[s].pc \notin {"reserve", "pin"} => slots[s].lease = job[s].lease
       /\ slots[s].lease = job[s].lease => slots[s].state # "held"
       /\ job[s].pc \in {"start", "starting", "open", "hold"} => Present(s) = Guests
       /\ job[s].pc = "hold" => access[s] = job[s].lease

\* Any other job works on the lease that it saw when it took the lock, and
\* that lease is without authority.
RevokedJobOK(s) ==
    job[s].kind \notin {"none", "acquire"} =>
       /\ slots[s].lease = job[s].lease
       /\ slotMatchesLeaseIdentity(slots[s], job[s])
       /\ slots[s].state \in {"draining", "quarantined", "recovering"}
       /\ job[s].kind = "recovery" => slots[s].state = "recovering"
       /\ job[s].kind = "drain" /\ job[s].pc # "quarantine"
             => slots[s].state = "draining"

\* What a cleanup has achieved stays so while it holds the lock: no access, then
\* no operations, then no machines.
CleaningProgress(s) ==
    /\ job[s].pc \in Cleaning \cup {"finish"} => access[s] = 0
    /\ job[s].pc \in {"delete", "verify", "inventory", "finish"} => ops[s] = {}
    /\ job[s].pc \in {"verify", "inventory", "finish"} => Present(s) = {}

\* The job of the slot is the one of the process of g.
Acquires(g) == job[g.slot].kind = "acquire" /\ job[g.slot].lease = g.lease

\* The process of g has not touched a machine: it is not yet at work, or its
\* admission is not yet written, or was refused.
NotBegun(g) ==
    \/ session[g.lease].pc \in {"granted", "rejected"}
    \/ /\ session[g.lease].pc = "working"
       /\ ~(Acquires(g) /\ job[g.slot].pc \notin {"reserve", "pin"})

\* The slot of such a lease is as clean as it was when it was acquired.
UntouchedIsClean(s) ==
    \A g \in grants :
       g.slot = s /\ slots[s].lease = g.lease /\ NotBegun(g)
          => Clean(s) /\ slots[s].state # "held"

\* The machines of a slot are those of its lease: none while it is available,
\* all of them while it is held.
MachinesOK(s) ==
    /\ slots[s].state = "available" => Clean(s)
    /\ slots[s].state = "held" => access[s] = slots[s].lease /\ Present(s) = Guests
    /\ access[s] \in {0, slots[s].lease}
    /\ \A v \in Present(s) : slotMatchesLeaseIdentity(vms[s][v], slots[s])
    /\ \A op \in ops[s] : slotMatchesLeaseIdentity(op, slots[s])

SlotInv(s) ==
    /\ JobShape(s)
    /\ AcquireJobOK(s)
    /\ RevokedJobOK(s)
    /\ CleaningProgress(s)
    /\ UntouchedIsClean(s)
    /\ MachinesOK(s)

\* The inductive invariant of the broker.
BrokerInv ==
    /\ IInv
    /\ BrokerTypeOK
    /\ GrantsCurrent
    /\ \A s \in Slots : SlotInv(s)

\* What happens to a slot that a step is not about: at most its lease expires.
Settles(old, new) ==
    /\ new.lease = old.lease
    /\ slotMatchesLeaseIdentity(new, old)
    /\ new.state = old.state \/ (old.state \in Live /\ new.state = "draining")

\* A step is about slot s, and about the sessions of the leases of s.
About(s) ==
    /\ grants' = grants
    /\ \A g \in grants : g.slot # s => session'[g.lease] = session[g.lease]
    /\ \A r \in Slots \ {s} :
          /\ Settles(slots[r], slots'[r])
          /\ job'[r] = job[r]
          /\ vms'[r] = vms[r]
          /\ ops'[r] = ops[r]
          /\ access'[r] = access[r]

-----------------------------------------------------------------------------
(* What the steps write.                                                   *)

\* Facts about a grant that every step about it needs.
LEMMA GrantFacts ==
  ASSUME BrokerInv, NEW g \in grants
  PROVE  /\ g.slot \in Slots
         /\ g.lease \in Leases
         /\ g.lease \in Nat /\ g.lease # 0
         /\ g.gen \in Nat /\ g.epoch \in Nat
         /\ \A h \in grants : h # g => h.lease # g.lease
         /\ slots[g.slot].lease = g.lease => slotMatchesLeaseIdentity(slots[g.slot], g)
<1>1. /\ g.slot \in Slots /\ g.lease \in Nat /\ g.gen \in Nat /\ g.epoch \in Nat
  BY DEF BrokerInv, IInv, TypeOK, Grant
<1>2. g.lease \in Leases /\ g.lease # 0
  BY MaxLeasesAssumption DEF BrokerInv, GrantsCurrent, Leases
<1>3. \A h \in grants : h # g => h.lease # g.lease
  BY DEF BrokerInv, IInv, GrantsNumbered
<1>4. ASSUME slots[g.slot].lease = g.lease
      PROVE  slotMatchesLeaseIdentity(slots[g.slot], g)
  <2>1. PICK h \in grants : h.lease = slots[g.slot].lease /\ h.epoch = slots[g.slot].epoch
    BY <1>1, <1>2, <1>4 DEF BrokerInv, IInv, LeaseWasGranted
  <2>2. h = g
    BY <1>3, <1>4, <2>1
  <2> QED BY <1>4, <2>1, <2>2 DEF BrokerInv, GrantsCurrent, slotMatchesLeaseIdentity
<1> QED BY <1>1, <1>2, <1>3, <1>4

\* Writing nothing, or only the expiry, settles every slot.
LEMMA SettledPool ==
  ASSUME TypeOK
  PROVE  \A r \in Slots : /\ Settles(slots[r], slots[r])
                          /\ Settles(slots[r], Current[r])
                          /\ Settles(slots[r], Aged(slots[r]))
<1> SUFFICES ASSUME NEW r \in Slots
             PROVE  /\ Settles(slots[r], slots[r])
                    /\ Settles(slots[r], Current[r])
                    /\ Settles(slots[r], Aged(slots[r]))
  OBVIOUS
<1>1. slots[r] \in Slot
  BY DEF TypeOK
<1>2. Current[r] = expireStale(slots[r], gone)
  BY DEF Current
<1>3. Current[r] = slots[r] \/ (Stale(slots[r], gone) /\ Current[r].state = "draining")
  BY <1>1, <1>2, CurrentPool DEF expireStale, Live
<1> QED
  BY <1>1, <1>3, CurrentPool, AgedSlot DEF Settles, Stale, slotMatchesLeaseIdentity

\* Writing one slot settles the others.
LEMMA WrittenPool ==
  ASSUME TypeOK, NEW s \in Slots, NEW new, Write(s, new)
  PROVE  slots'[s] = new /\ \A r \in Slots \ {s} : Settles(slots[r], slots'[r])
<1>1. slots'[s] = new /\ \A r \in Slots \ {s} : slots'[r] = Current[r]
  BY CurrentPool DEF Write
<1> QED BY <1>1, SettledPool

\* The job of a slot after the operations on the lifecycle lock.
LEMMA JobWrites ==
  ASSUME BrokerTypeOK, NEW s \in Slots
  PROVE  /\ Unlock(s) => /\ job' \in [Slots -> Jobs]
                         /\ job'[s] = NoJob
                         /\ \A r \in Slots \ {s} : job'[r] = job[r]
         /\ \A pc \in Provisioning \cup Cleaning
                 \cup {"hold", "undo", "fence", "finish", "giveup",
                       "quarantine", "begin", "started"},
               v \in Guests \cup {0} :
               /\ Goto(s, pc) => /\ job' \in [Slots -> Jobs]
                                 /\ job'[s] = [job[s] EXCEPT !.pc = pc]
                                 /\ \A r \in Slots \ {s} : job'[r] = job[r]
               /\ WaitFor(s, pc, v) => /\ job' \in [Slots -> Jobs]
                                       /\ job'[s] = [job[s] EXCEPT !.pc = pc, !.vm = v]
                                       /\ \A r \in Slots \ {s} : job'[r] = job[r]
<1>1. job \in [Slots -> Jobs]
  BY DEF BrokerTypeOK
<1>2. NoJob \in Jobs
  BY DEF NoJob, Jobs
<1>3. ASSUME Unlock(s)
      PROVE  /\ job' \in [Slots -> Jobs]
             /\ job'[s] = NoJob
             /\ \A r \in Slots \ {s} : job'[r] = job[r]
  BY <1>1, <1>2, <1>3 DEF Unlock
<1>4. ASSUME NEW pc \in Provisioning \cup Cleaning
                 \cup {"hold", "undo", "fence", "finish", "giveup",
                       "quarantine", "begin", "started"},
             NEW v \in Guests \cup {0}
      PROVE  /\ Goto(s, pc) => /\ job' \in [Slots -> Jobs]
                               /\ job'[s] = [job[s] EXCEPT !.pc = pc]
                               /\ \A r \in Slots \ {s} : job'[r] = job[r]
             /\ WaitFor(s, pc, v) => /\ job' \in [Slots -> Jobs]
                                     /\ job'[s] = [job[s] EXCEPT !.pc = pc, !.vm = v]
                                     /\ \A r \in Slots \ {s} : job'[r] = job[r]
  <2>1. /\ [job[s] EXCEPT !.pc = pc] \in Jobs
        /\ [job[s] EXCEPT !.pc = pc, !.vm = v] \in Jobs
    BY <1>1 DEF Jobs
  <2>2. ASSUME Goto(s, pc)
        PROVE  /\ job' \in [Slots -> Jobs]
               /\ job'[s] = [job[s] EXCEPT !.pc = pc]
               /\ \A r \in Slots \ {s} : job'[r] = job[r]
    <3>1. job' = [job EXCEPT ![s] = [job[s] EXCEPT !.pc = pc]]
      BY <1>1, <2>2 DEF Goto
    <3> QED BY <1>1, <2>1, <3>1
  <2>3. ASSUME WaitFor(s, pc, v)
        PROVE  /\ job' \in [Slots -> Jobs]
               /\ job'[s] = [job[s] EXCEPT !.pc = pc, !.vm = v]
               /\ \A r \in Slots \ {s} : job'[r] = job[r]
    <3>1. job' = [job EXCEPT ![s] = [job[s] EXCEPT !.pc = pc, !.vm = v]]
      BY <1>1, <2>3 DEF WaitFor
    <3> QED BY <1>1, <2>1, <3>1
  <2> QED BY <2>2, <2>3
<1> QED BY <1>3, <1>4

\* The job of a slot after its lifecycle lock was taken.
LEMMA LockWrites ==
  ASSUME BrokerTypeOK, NEW s \in Slots, NEW id,
         id.lease \in Nat, id.gen \in Nat, id.epoch \in Nat,
         NEW kind \in {"acquire", "quarantine", "drain", "scheduled", "forced", "recovery"},
         NEW pc \in {"reserve", "fence", "quarantine", "begin", "started"},
         Lock(s, kind, pc, id)
  PROVE  /\ job[s] = NoJob
         /\ job' \in [Slots -> Jobs]
         /\ job'[s].kind = kind /\ job'[s].pc = pc
         /\ job'[s].lease = id.lease /\ slotMatchesLeaseIdentity(job'[s], id)
         /\ \A r \in Slots \ {s} : job'[r] = job[r]
<1> DEFINE new == [kind |-> kind, pc |-> pc, lease |-> id.lease,
                   gen |-> id.gen, epoch |-> id.epoch, vm |-> 0]
<1>1. job \in [Slots -> Jobs]
  BY DEF BrokerTypeOK
<1>2. new \in Jobs
  BY DEF Jobs, Provisioning
<1>3. job' = [job EXCEPT ![s] = new] /\ job[s] = NoJob
  BY DEF Lock
<1>4. /\ new.kind = kind /\ new.pc = pc /\ new.lease = id.lease
      /\ new.gen = id.gen /\ new.epoch = id.epoch
  OBVIOUS
<1> HIDE DEF new
<1> QED BY <1>1, <1>2, <1>3, <1>4 DEF slotMatchesLeaseIdentity

\* The sessions after the process of g went on.
LEMMA TurnWrites ==
  ASSUME BrokerInv, NEW g \in grants,
         NEW pc \in {"granted", "working", "rejected", "failed", "held", "ack",
                     "quarantine", "closing", "done"},
         Turn(g, pc)
  PROVE  /\ session' \in [Leases -> Sessions]
         /\ session'[g.lease].pc = pc
         /\ \A h \in grants : h # g => session'[h.lease] = session[h.lease]
<1>1. session \in [Leases -> Sessions]
  BY DEF BrokerInv, BrokerTypeOK
<1>2. g.lease \in Leases /\ \A h \in grants : h # g => h.lease # g.lease
  BY GrantFacts
<1>3. \A h \in grants : h.lease \in Leases
  BY GrantFacts
<1> DEFINE new == [pc |-> pc, v4 |-> session[g.lease].v4 /\ pc # "done"]
<1>4. new \in Sessions /\ new.pc = pc
  BY DEF Sessions
<1>5. session' = [session EXCEPT ![g.lease] = new]
  BY <1>1, <1>2 DEF Turn
<1> HIDE DEF new
<1> QED BY <1>1, <1>2, <1>3, <1>4, <1>5

\* Machines, operations and access of a slot can only become fewer.
Shrinks(s) ==
    /\ Present(s)' \subseteq Present(s)
    /\ \A v \in Present(s)' : slotMatchesLeaseIdentity(vms'[s][v], vms[s][v])
    /\ ops'[s] \subseteq ops[s]
    /\ access'[s] \in {0, access[s]}

\* Stopping machines leaves them where they are.
LEMMA StoppedMachines ==
  ASSUME BrokerTypeOK, NEW s \in Slots, NEW vs \in SUBSET Running(s),
         vms' = Stopped(s, vs)
  PROVE  /\ vms' \in [Slots -> [Guests -> VMs]]
         /\ \A r \in Slots \ {s} : vms'[r] = vms[r]
         /\ Present(s)' = Present(s)
         /\ \A v \in Guests : slotMatchesLeaseIdentity(vms'[s][v], vms[s][v])
<1> DEFINE new == [v \in Guests |-> IF v \in vs THEN [vms[s][v] EXCEPT !.st = "stopped"]
                                                ELSE vms[s][v]]
<1>1. vms \in [Slots -> [Guests -> VMs]]
  BY DEF BrokerTypeOK
<1>2. vms' = [vms EXCEPT ![s] = new]
  BY <1>1 DEF Stopped
<1>3. ASSUME NEW v \in Guests
      PROVE  /\ new[v] \in VMs
             /\ slotMatchesLeaseIdentity(new[v], vms[s][v])
             /\ new[v].st # "none" <=> vms[s][v].st # "none"
  <2>1. vms[s][v] \in VMs
    BY <1>1
  <2>2. CASE v \in vs
    <3>1. vms[s][v].st = "running"
      BY <2>2 DEF Running
    <3> QED BY <2>1, <2>2, <3>1 DEF VMs, slotMatchesLeaseIdentity
  <2>3. CASE v \notin vs
    BY <2>1, <2>3 DEF slotMatchesLeaseIdentity
  <2> QED BY <2>2, <2>3
<1>4. new \in [Guests -> VMs]
  BY <1>3
<1> HIDE DEF new
<1>5. vms'[s] = new /\ \A r \in Slots \ {s} : vms'[r] = vms[r]
  BY <1>1, <1>2
<1>6. vms' \in [Slots -> [Guests -> VMs]]
  BY <1>1, <1>2, <1>4
<1> QED BY <1>3, <1>5, <1>6 DEF Present

\* Deleting machines takes them away and leaves the others alone.
LEMMA DeletedMachines ==
  ASSUME BrokerTypeOK, NEW s \in Slots, NEW vs \in SUBSET Guests,
         vms' = Deleted(s, vs)
  PROVE  /\ vms' \in [Slots -> [Guests -> VMs]]
         /\ \A r \in Slots \ {s} : vms'[r] = vms[r]
         /\ Present(s)' = Present(s) \ vs
         /\ \A v \in Present(s)' : slotMatchesLeaseIdentity(vms'[s][v], vms[s][v])
<1> DEFINE new == [v \in Guests |-> IF v \in vs THEN NoVM ELSE vms[s][v]]
<1>1. vms \in [Slots -> [Guests -> VMs]]
  BY DEF BrokerTypeOK
<1>2. vms' = [vms EXCEPT ![s] = new]
  BY <1>1 DEF Deleted
<1>3. NoVM \in VMs /\ NoVM.st = "none"
  BY DEF NoVM, VMs
<1>4. \A v \in Guests : new[v] = IF v \in vs THEN NoVM ELSE vms[s][v]
  OBVIOUS
<1>5. new \in [Guests -> VMs]
  BY <1>1, <1>3
<1> HIDE DEF new
<1>6. vms'[s] = new /\ \A r \in Slots \ {s} : vms'[r] = vms[r]
  BY <1>1, <1>2
<1>7. vms' \in [Slots -> [Guests -> VMs]]
  BY <1>1, <1>2, <1>5
<1> QED BY <1>3, <1>4, <1>6, <1>7 DEF Present, slotMatchesLeaseIdentity

-----------------------------------------------------------------------------
(* The invariant of a slot is kept by steps about other slots and depends  *)
(* on the job only while there is one.                                     *)

\* The process of g does not go back to where it had not begun, and stays at
\* work while it has the lock.
Calm(g) ==
    /\ NotBegun(g)' => NotBegun(g)
    /\ session[g.lease].pc = "working" /\ Acquires(g) => session'[g.lease].pc = "working"

\* A slot whose own job and machines do not change keeps its invariant, even if
\* its lease expires and processes without the lock go on.
LEMMA SettledSlot ==
  ASSUME NEW r \in Slots, SlotInv(r), Settles(slots[r], slots'[r]),
         grants' = grants,
         \A g \in grants : g.slot = r => Calm(g),
         job'[r] = job[r], vms'[r] = vms[r], ops'[r] = ops[r], access'[r] = access[r]
  PROVE  /\ SlotInv(r)'
         /\ slots'[r].state = "available" => slots[r].state # "held"
<1>1. Present(r)' = Present(r) /\ (Clean(r)' <=> Clean(r))
  BY DEF Present, Clean
<1>2. JobShape(r)'
  BY DEF SlotInv, JobShape
<1>3. AcquireJobOK(r)'
  BY <1>1 DEF SlotInv, AcquireJobOK, Settles, Live, Calm, Acquires
<1>4. RevokedJobOK(r)'
  BY DEF SlotInv, RevokedJobOK, Settles, Live, slotMatchesLeaseIdentity
<1>5. CleaningProgress(r)'
  BY <1>1 DEF SlotInv, CleaningProgress
<1>6. UntouchedIsClean(r)'
  BY <1>1 DEF SlotInv, UntouchedIsClean, Calm, Settles, Live
<1>7. MachinesOK(r)'
  BY <1>1 DEF SlotInv, MachinesOK, Settles, Live, slotMatchesLeaseIdentity
<1>8. slots'[r].state = "available" => slots[r].state # "held"
  BY DEF Settles, Live
<1> QED BY <1>2, <1>3, <1>4, <1>5, <1>6, <1>7, <1>8 DEF SlotInv

\* Without a job there is nothing to say of it.
LEMMA NoJobInv ==
  ASSUME NEW s \in Slots, job'[s] = NoJob
  PROVE  JobShape(s)' /\ AcquireJobOK(s)' /\ RevokedJobOK(s)' /\ CleaningProgress(s)'
BY DEF JobShape, AcquireJobOK, RevokedJobOK, CleaningProgress, NoJob,
       Provisioning, Cleaning

\* What is to be shown of a step that is about one slot.
Kept == /\ BrokerTypeOK'
        /\ \A r \in Slots : /\ SlotInv(r)'
                            /\ slots'[r].state = "available" => slots[r].state # "held"

\* It is enough to look at that slot.
LEMMA OneSlot ==
  ASSUME BrokerInv, NEW s \in Slots, About(s), BrokerTypeOK', SlotInv(s)',
         slots'[s].state = "available" => slots[s].state # "held"
  PROVE  Kept
<1> SUFFICES ASSUME NEW r \in Slots, r # s
             PROVE  /\ SlotInv(r)'
                    /\ slots'[r].state = "available" => slots[r].state # "held"
  BY DEF Kept
<1>1. SlotInv(r)
  BY DEF BrokerInv
<1>2. \A g \in grants : g.slot = r => Calm(g)
  BY DEF About, Calm, NotBegun, Acquires
<1> QED BY <1>1, <1>2, SettledSlot DEF About

-----------------------------------------------------------------------------
(* Steps that leave jobs and machines alone.                               *)

\* A step of processes without a lock that settles every slot.
LEMMA SettlingStep ==
  ASSUME BrokerInv, grants' = grants, session' \in [Leases -> Sessions],
         \A r \in Slots : Settles(slots[r], slots'[r]),
         \A g \in grants : Calm(g),
         UNCHANGED <<job, machineVars>>
  PROVE  Kept
<1>1. BrokerTypeOK'
  BY DEF BrokerInv, BrokerTypeOK, machineVars
<1>2. ASSUME NEW r \in Slots
      PROVE  /\ SlotInv(r)'
             /\ slots'[r].state = "available" => slots[r].state # "held"
  <2>1. SlotInv(r)
    BY DEF BrokerInv
  <2> QED BY <2>1, SettledSlot DEF machineVars
<1> QED BY <1>1, <1>2 DEF Kept

\* Store operations that no lease survives with less than its machines: they
\* expire leases, drain leases that have authority, or only move deadlines.
LEMMA SettlingOperations ==
  ASSUME BrokerInv,
         \/ UNCHANGED storeVars \/ Status \/ Tick \/ BeginDrainAll
         \/ \E g \in grants : \/ Renew(g) \/ Handoff(g) \/ BeginDrain(g) \/ Exit(g)
                              \/ BeginExpectedDrain(g.slot, g)
  PROVE  grants' = grants /\ \A r \in Slots : Settles(slots[r], slots'[r])
<1>1. TypeOK /\ Current \in [Slots -> Slot]
  BY CurrentPool DEF BrokerInv, IInv
<1>2. CASE UNCHANGED storeVars
  BY <1>1, <1>2, SettledPool DEF storeVars
<1>3. CASE Status
  BY <1>1, <1>3, SettledPool DEF Status, Rest
<1>4. CASE Tick
  BY <1>1, <1>4, SettledPool DEF Tick, Rest
<1>5. CASE BeginDrainAll
  <2>1. ASSUME NEW r \in Slots PROVE Settles(slots[r], slots'[r])
    <3>1. CASE Current[r].state \in Live
      <4>1. Current[r] = slots[r] /\ Current[r] \in Slot
        BY <1>1, <3>1, CurrentPool
      <4>2. slots'[r] = Drained(slots[r], "other")
        BY <1>5, <3>1, <4>1 DEF BeginDrainAll
      <4> QED BY <3>1, <4>1, <4>2 DEF Settles, Drained, slotMatchesLeaseIdentity, Slot
    <3>2. CASE Current[r].state \notin Live
      BY <1>1, <1>5, <3>2, SettledPool DEF BeginDrainAll
    <3> QED BY <3>1, <3>2
  <2> QED BY <1>5, <2>1 DEF BeginDrainAll, Rest
<1>6. ASSUME NEW g \in grants, Renew(g) \/ Handoff(g) \/ BeginDrain(g)
                               \/ BeginExpectedDrain(g.slot, g)
      PROVE  grants' = grants /\ \A r \in Slots : Settles(slots[r], slots'[r])
  <2>1. g.slot \in Slots
    BY GrantFacts
  <2> DEFINE slot == slots[g.slot]
  <2>2. /\ Current[g.slot].state \in Live
        /\ \/ Write(g.slot, Renewed(Current[g.slot]))
           \/ Write(g.slot, [Current[g.slot] EXCEPT !.owner = FALSE])
           \/ Write(g.slot, [Current[g.slot] EXCEPT !.state = "draining"])
           \/ Write(g.slot, Drained(Current[g.slot], "other"))
        /\ grants' = grants
    BY <1>6 DEF Renew, Handoff, BeginDrain, BeginExpectedDrain, Rest, Live
  <2>3. Current[g.slot] = slot /\ slot \in Slot /\ slot.state \in Live
    BY <1>1, <2>1, <2>2, CurrentPool
  <2>4. /\ Settles(slot, Renewed(slot))
        /\ Settles(slot, [slot EXCEPT !.owner = FALSE])
        /\ Settles(slot, [slot EXCEPT !.state = "draining"])
        /\ Settles(slot, Drained(slot, "other"))
    BY <2>3 DEF Settles, Renewed, Drained, slotMatchesLeaseIdentity, Slot
  <2> HIDE DEF slot
  <2>5. Settles(slot, slots'[g.slot])
        /\ \A r \in Slots \ {g.slot} : Settles(slots[r], slots'[r])
    BY <1>1, <2>1, <2>2, <2>3, <2>4, WrittenPool
  <2> QED BY <2>2, <2>5 DEF slot
<1>7. ASSUME NEW g \in grants, Exit(g)
      PROVE  grants' = grants /\ \A r \in Slots : Settles(slots[r], slots'[r])
  BY <1>1, <1>7, SettledPool DEF Exit, RequesterGone, storeVars
<1> QED BY <1>2, <1>3, <1>4, <1>5, <1>6, <1>7

\* A process that turns to something else without the lock is calm, unless it
\* was not yet granted.
LEMMA TurnIsCalm ==
  ASSUME BrokerInv, NEW g \in grants, ~Acquires(g), UNCHANGED job,
         NEW pc \in {"failed", "held", "ack", "quarantine", "closing", "done"},
         Turn(g, pc)
  PROVE  session' \in [Leases -> Sessions] /\ \A h \in grants : Calm(h)
<1>1. /\ session' \in [Leases -> Sessions]
      /\ session'[g.lease].pc = pc
      /\ \A h \in grants : h # g => session'[h.lease] = session[h.lease]
  BY TurnWrites
<1> QED BY <1>1 DEF Calm, NotBegun, Acquires

\* A process whose session is not at work does not hold a lock.
LEMMA NotAtWork ==
  ASSUME BrokerInv, NEW g \in grants, session[g.lease].pc # "working"
  PROVE  ~Acquires(g)
<1> SUFFICES ASSUME Acquires(g) PROVE FALSE
  OBVIOUS
<1>1. g.slot \in Slots /\ AcquireJobOK(g.slot)
  BY GrantFacts DEF BrokerInv, SlotInv
<1>2. PICK h \in grants : job[g.slot].lease = h.lease /\ session[h.lease].pc = "working"
  BY <1>1 DEF AcquireJobOK, Acquires
<1> QED BY <1>2 DEF Acquires

\* The sessions and requests that only settle.
LEMMA SessionKept ==
  ASSUME BrokerInv, NEW g \in grants,
         \/ SessionStep(g) /\ ~AdmissionRejected(g)
         \/ ReleaseSlot(g) \/ RevokeExpectedSlot(g) \/ Heartbeat(g)
  PROVE  Kept
<1>1. CASE ReleaseSlot(g) \/ RevokeExpectedSlot(g) \/ Heartbeat(g)
  <2>1. /\ BeginDrain(g) \/ Renew(g) \/ Status \/ BeginExpectedDrain(g.slot, g)
        /\ UNCHANGED <<job, session, machineVars>>
    BY <1>1 DEF ReleaseSlot, PublishDrain, RevokeExpectedSlot, Heartbeat, processVars
  <2>2. session' \in [Leases -> Sessions] /\ \A h \in grants : Calm(h)
    BY <2>1 DEF BrokerInv, BrokerTypeOK, Calm, NotBegun, Acquires
  <2> QED BY <2>1, <2>2, SettlingOperations, SettlingStep
<1>2. CASE \E ok \in BOOLEAN : RecordAcquire(g, ok)
  <2>1. PICK ok \in BOOLEAN : RecordAcquire(g, ok)
    BY <1>2
  <2>2. session \in [Leases -> Sessions] /\ g.lease \in Leases
        /\ \A h \in grants : h.lease \in Leases /\ (h # g => h.lease # g.lease)
    BY GrantFacts DEF BrokerInv, BrokerTypeOK
  <2>3. PICK new \in Sessions : /\ new.pc \in {"working", "quarantine"}
                                /\ session' = [session EXCEPT ![g.lease] = new]
    <3>1. [session[g.lease] EXCEPT !.pc = "working"] \in Sessions
      BY <2>2 DEF Sessions
    <3>2. [pc |-> "quarantine", v4 |-> FALSE] \in Sessions
      BY DEF Sessions
    <3>3. [session[g.lease] EXCEPT !.pc = "working"].pc = "working"
      BY <2>2 DEF Sessions
    <3>4. CASE ok
      BY <2>1, <2>2, <3>1, <3>3, <3>4 DEF RecordAcquire
    <3>5. CASE ~ok
      BY <2>1, <2>2, <3>2, <3>5 DEF RecordAcquire
    <3> QED BY <3>4, <3>5
  <2>4. /\ session' \in [Leases -> Sessions]
        /\ session'[g.lease].pc \in {"working", "quarantine"}
        /\ \A h \in grants : h # g => session'[h.lease] = session[h.lease]
    BY <2>2, <2>3
  <2>5. session[g.lease].pc = "granted" /\ UNCHANGED <<storeVars, job, machineVars>>
    BY <2>1 DEF RecordAcquire
  <2>6. \A h \in grants : Calm(h)
    BY <2>4, <2>5, NotAtWork DEF Calm, NotBegun, Acquires
  <2> QED BY <2>4, <2>5, <2>6, SettlingOperations, SettlingStep
<1>3. CASE \/ \E ok \in BOOLEAN : RecordHeld(g, ok)
           \/ ReservationNotTold(g)
           \/ \E cancelled \in BOOLEAN : ProvisioningFailed(g, cancelled)
           \/ \E acked \in BOOLEAN : Acknowledge(g, acked)
           \/ CloseSession(g)
  <2>1. UNCHANGED <<job, machineVars>>
    BY <1>3
    DEF RecordHeld, ReservationNotTold, ProvisioningFailed, Acknowledge, CloseSession
  <2>2. \/ UNCHANGED storeVars \/ Status \/ Handoff(g) \/ BeginDrain(g) \/ Exit(g)
    BY <1>3
    DEF RecordHeld, ReservationNotTold, ProvisioningFailed, Acknowledge,
        CloseSession, PublishDrain
  <2>3. ~Acquires(g)
    <3>1. CASE ReservationNotTold(g)
      BY <3>1 DEF ReservationNotTold, Acquires
    <3>2. CASE ~ReservationNotTold(g)
      BY <1>3, <3>2, NotAtWork
      DEF RecordHeld, ProvisioningFailed, Acknowledge, CloseSession
    <3> QED BY <3>1, <3>2
  <2>4. \E pc \in {"failed", "held", "ack", "quarantine", "closing", "done"} : Turn(g, pc)
    BY <1>3
    DEF RecordHeld, ReservationNotTold, ProvisioningFailed, Acknowledge, CloseSession
  <2>5. session' \in [Leases -> Sessions] /\ \A h \in grants : Calm(h)
    BY <2>1, <2>3, <2>4, TurnIsCalm
  <2> QED BY <2>1, <2>2, <2>5, SettlingOperations, SettlingStep
<1> QED BY <1>1, <1>2, <1>3 DEF SessionStep

-----------------------------------------------------------------------------
(* The acquire job.                                                        *)

\* What is known of the slot of a process that has the lock.
LEMMA AcquiringFacts ==
  ASSUME BrokerInv, NEW g \in grants, Acquires(g)
  PROVE  /\ g.slot \in Slots
         /\ session[g.lease].pc = "working"
         /\ slotMatchesLeaseIdentity(job[g.slot], g)
         /\ slots[g.slot].lease = g.lease => slots[g.slot].state # "held"
         /\ job[g.slot].pc \notin {"reserve", "pin"} =>
               /\ slots[g.slot].lease = g.lease
               /\ slotMatchesLeaseIdentity(slots[g.slot], g)
               /\ slots[g.slot].state \notin {"available", "held"}
<1>1. /\ g.slot \in Slots
      /\ AcquireJobOK(g.slot)
      /\ g.lease # 0
      /\ slots[g.slot].lease = g.lease => slotMatchesLeaseIdentity(slots[g.slot], g)
      /\ \A h \in grants : h # g => h.lease # g.lease
  BY GrantFacts DEF BrokerInv, SlotInv
<1>2. (slots[g.slot].lease = 0) <=> (slots[g.slot].state = "available")
  BY <1>1 DEF BrokerInv, IInv, LeasedUnlessAvailable
<1>3. PICK h \in grants : /\ h.slot = g.slot
                          /\ slotMatchesLeaseIdentity(job[g.slot], h)
                          /\ job[g.slot].lease = h.lease
                          /\ session[h.lease].pc = "working"
  BY <1>1 DEF AcquireJobOK, Acquires
<1>4. h = g
  BY <1>1, <1>3 DEF Acquires
<1> QED BY <1>1, <1>2, <1>3, <1>4 DEF AcquireJobOK, Acquires

\* Of the machines, a step touches at most those of slot s.
OnlyMachinesOf(s) ==
    /\ vms' \in [Slots -> [Guests -> VMs]]
    /\ ops' \in [Slots -> SUBSET Operations]
    /\ access' \in [Slots -> Nat]
    /\ \A r \in Slots \ {s} : /\ vms'[r] = vms[r]
                              /\ ops'[r] = ops[r]
                              /\ access'[r] = access[r]

\* The process of g goes on with its work under the lock.
LEMMA AcquireGoesOn ==
  ASSUME BrokerInv, NEW g \in grants, Acquires(g),
         session' = session, grants' = grants,
         \A r \in Slots : Settles(slots[r], slots'[r]),
         OnlyMachinesOf(g.slot),
         NEW pc \in Provisioning \cup {"hold", "undo"},
         NEW v \in Guests \cup {0},
         Goto(g.slot, pc) \/ WaitFor(g.slot, pc, v),
         pc \in {"reserve", "pin"} => job[g.slot].pc \in {"reserve", "pin"},
         pc \notin {"reserve", "pin"} => slots[g.slot].lease = g.lease,
         job[g.slot].pc \in {"reserve", "pin"} => UNCHANGED machineVars,
         pc \in {"start", "starting", "open", "hold"} => Present(g.slot)' = Guests,
         pc = "hold" => access'[g.slot] = g.lease,
         MachinesOK(g.slot)'
  PROVE  Kept
<1> DEFINE s == g.slot
<1>1. /\ s \in Slots /\ session[g.lease].pc = "working"
      /\ slotMatchesLeaseIdentity(job[s], g) /\ SlotInv(s) /\ job[s].lease = g.lease
      /\ job[s].kind = "acquire"
  BY AcquiringFacts DEF BrokerInv, Acquires
<1>2. /\ job' \in [Slots -> Jobs]
      /\ job'[s] = [job[s] EXCEPT !.pc = pc] \/ job'[s] = [job[s] EXCEPT !.pc = pc, !.vm = v]
      /\ \A r \in Slots \ {s} : job'[r] = job[r]
  <2>1. pc \in Provisioning \cup Cleaning
                 \cup {"hold", "undo", "fence", "finish", "giveup",
                       "quarantine", "begin", "started"}
    OBVIOUS
  <2>2. BrokerTypeOK
    BY DEF BrokerInv
  <2> QED BY <1>1, <2>1, <2>2, JobWrites
<1>3. job[s] \in Jobs
  BY <1>1 DEF BrokerInv, BrokerTypeOK
<1>4. /\ job'[s].kind = "acquire" /\ job'[s].pc = pc
      /\ job'[s].lease = g.lease /\ slotMatchesLeaseIdentity(job'[s], g)
  BY <1>1, <1>2, <1>3 DEF Jobs, slotMatchesLeaseIdentity
<1>5. BrokerTypeOK'
  BY <1>2 DEF BrokerInv, BrokerTypeOK, OnlyMachinesOf
<1>6. About(s)
  BY <1>2 DEF About, OnlyMachinesOf
<1>7. JobShape(s)' /\ RevokedJobOK(s)' /\ CleaningProgress(s)'
  BY <1>4 DEF JobShape, RevokedJobOK, CleaningProgress, Provisioning, Cleaning
<1>8. Settles(slots[s], slots'[s])
  BY <1>1
<1>9. AcquireJobOK(s)'
  <2>1. slots'[s].lease = g.lease => slots'[s].state # "held"
    BY <1>1, <1>8, AcquiringFacts DEF Settles
  <2>2. slots'[s].lease = slots[s].lease
    BY <1>8 DEF Settles
  <2> QED BY <1>1, <1>4, <2>1, <2>2 DEF AcquireJobOK
<1>10. UntouchedIsClean(s)'
  <2> SUFFICES ASSUME NEW h \in grants, h.slot = s, slots'[s].lease = h.lease, NotBegun(h)'
               PROVE  Clean(s)' /\ slots'[s].state # "held"
    BY DEF UntouchedIsClean
  <2>1. slots[s].lease = h.lease
    BY <1>8 DEF Settles
  <2>2. job[s].pc \in {"reserve", "pin"}
    <3>1. CASE h = g
      BY <1>1, <1>4, <3>1 DEF NotBegun, Acquires
    <3>2. CASE h # g
      BY <2>1, <3>2, AcquiringFacts, GrantFacts
    <3> QED BY <3>1, <3>2
  <2>3. NotBegun(h)
    BY <2>2 DEF NotBegun, Acquires
  <2>4. Clean(s) /\ slots[s].state # "held"
    BY <1>1, <2>1, <2>3 DEF SlotInv, UntouchedIsClean
  <2> QED BY <1>8, <2>2, <2>4 DEF Settles, Clean, Present, machineVars, Live
<1>11. slots'[s].state = "available" => slots[s].state # "held"
  BY <1>8 DEF Settles, Live
<1> HIDE DEF s
<1> QED BY <1>1, <1>5, <1>6, <1>7, <1>9, <1>10, <1>11, OneSlot DEF SlotInv, s

\* The process of g gives the lock back, or dies with it.
LEMMA AcquireEnds ==
  ASSUME BrokerInv, NEW g \in grants, Acquires(g), Unlock(g.slot),
         NEW pc \in {"rejected", "failed", "done"}, Turn(g, pc),
         pc = "rejected" => job[g.slot].pc \in {"reserve", "pin"},
         grants' = grants,
         \A r \in Slots : Settles(slots[r], slots'[r]),
         OnlyMachinesOf(g.slot),
         UNCHANGED machineVars \/ job[g.slot].pc \notin {"reserve", "pin"},
         MachinesOK(g.slot)'
  PROVE  Kept
<1> DEFINE s == g.slot
<1>1. s \in Slots /\ session[g.lease].pc = "working" /\ SlotInv(s)
      /\ job[s].kind = "acquire" /\ job[s].lease = g.lease
  BY AcquiringFacts DEF BrokerInv, Acquires
<1>2. /\ job' \in [Slots -> Jobs]
      /\ job'[s] = NoJob
      /\ \A r \in Slots \ {s} : job'[r] = job[r]
  BY <1>1, JobWrites DEF BrokerInv
<1>3. /\ session' \in [Leases -> Sessions]
      /\ session'[g.lease].pc = pc
      /\ \A h \in grants : h # g => session'[h.lease] = session[h.lease]
  BY TurnWrites
<1>4. BrokerTypeOK'
  BY <1>2, <1>3 DEF BrokerTypeOK, OnlyMachinesOf
<1>5. About(s)
  BY <1>2, <1>3 DEF About, OnlyMachinesOf
<1>6. Settles(slots[s], slots'[s])
  BY <1>1
<1>7. UntouchedIsClean(s)'
  <2> SUFFICES ASSUME NEW h \in grants, h.slot = s, slots'[s].lease = h.lease, NotBegun(h)'
               PROVE  Clean(s)' /\ slots'[s].state # "held"
    BY DEF UntouchedIsClean
  <2>1. slots[s].lease = h.lease
    BY <1>6 DEF Settles
  <2>2. job[s].pc \in {"reserve", "pin"}
    <3>1. CASE h = g
      BY <1>3, <3>1 DEF NotBegun
    <3>2. CASE h # g
      BY <2>1, <3>2, AcquiringFacts, GrantFacts
    <3> QED BY <3>1, <3>2
  <2>3. NotBegun(h)
    BY <1>1, <1>3, <2>2 DEF NotBegun, Acquires
  <2>4. Clean(s) /\ slots[s].state # "held"
    BY <1>1, <2>1, <2>3 DEF SlotInv, UntouchedIsClean
  <2> QED BY <1>6, <2>2, <2>4 DEF Settles, Clean, Present, machineVars, Live
<1>8. slots'[s].state = "available" => slots[s].state # "held"
  BY <1>6 DEF Settles, Live
<1> HIDE DEF s
<1> QED BY <1>1, <1>2, <1>4, <1>5, <1>7, <1>8, NoJobInv, OneSlot DEF SlotInv, s

\* What an acquire job does to the machines once its admission is written
\* concerns machines of its own lease.
LEMMA OwnMachines ==
  ASSUME BrokerInv, NEW g \in grants, Acquires(g),
         job[g.slot].pc \notin {"reserve", "pin"},
         Settles(slots[g.slot], slots'[g.slot]),
         access'[g.slot] \in {0, g.lease, access[g.slot]},
         Present(g.slot)' \subseteq Present(g.slot),
         \A v \in Present(g.slot)' :
            slotMatchesLeaseIdentity(vms'[g.slot][v], vms[g.slot][v]),
         \A op \in ops'[g.slot] : op \in ops[g.slot] \/ slotMatchesLeaseIdentity(op, g)
  PROVE  MachinesOK(g.slot)'
<1>1. /\ g.slot \in Slots
      /\ slots[g.slot].lease = g.lease
      /\ slotMatchesLeaseIdentity(slots[g.slot], g)
      /\ slots[g.slot].state \notin {"available", "held"}
      /\ MachinesOK(g.slot)
  BY AcquiringFacts DEF BrokerInv, SlotInv
<1> QED BY <1>1 DEF MachinesOK, Settles, slotMatchesLeaseIdentity, Live

\* Machines that nobody touches.
LEMMA SameMachines ==
  ASSUME BrokerInv, NEW s \in Slots, Settles(slots[s], slots'[s]), UNCHANGED machineVars
  PROVE  MachinesOK(s)' /\ OnlyMachinesOf(s) /\ Present(s)' = Present(s)
<1>1. MachinesOK(s) /\ BrokerTypeOK
  BY DEF BrokerInv, SlotInv
<1>2. Present(s)' = Present(s) /\ (Clean(s)' <=> Clean(s))
  BY DEF Present, Clean, machineVars
<1>3. MachinesOK(s)'
  BY <1>1, <1>2 DEF MachinesOK, Settles, slotMatchesLeaseIdentity, machineVars, Live
<1>4. OnlyMachinesOf(s)
  BY <1>1 DEF OnlyMachinesOf, BrokerTypeOK, machineVars
<1> QED BY <1>2, <1>3, <1>4

\* Opening or closing the access to a slot touches nothing else.
LEMMA AccessWrites ==
  ASSUME BrokerTypeOK, NEW s \in Slots, NEW t \in Nat,
         access' = [access EXCEPT ![s] = t], UNCHANGED <<vms, ops>>
  PROVE  /\ OnlyMachinesOf(s)
         /\ access'[s] = t
         /\ Present(s)' = Present(s)
BY DEF BrokerTypeOK, OnlyMachinesOf, Present

\* Asking Incus for one more operation touches nothing else.
LEMMA OperationWrites ==
  ASSUME BrokerInv, NEW g \in grants, NEW kind \in {"create", "start"}, NEW v \in Guests,
         ops' = [ops EXCEPT ![g.slot] = @ \cup {Operation(g, kind, v)}],
         UNCHANGED <<vms, access>>
  PROVE  /\ OnlyMachinesOf(g.slot)
         /\ \A op \in ops'[g.slot] : op \in ops[g.slot] \/ slotMatchesLeaseIdentity(op, g)
         /\ Present(g.slot)' = Present(g.slot)
<1>1. g.slot \in Slots /\ g.gen \in Nat /\ g.epoch \in Nat
  BY GrantFacts
<1>2. Operation(g, kind, v) \in Operations
      /\ slotMatchesLeaseIdentity(Operation(g, kind, v), g)
  BY <1>1 DEF Operation, Operations, slotMatchesLeaseIdentity
<1>3. ops \in [Slots -> SUBSET Operations] /\ vms \in [Slots -> [Guests -> VMs]]
      /\ access \in [Slots -> Nat]
  BY DEF BrokerInv, BrokerTypeOK
<1>4. /\ ops'[g.slot] = ops[g.slot] \cup {Operation(g, kind, v)}
      /\ \A r \in Slots \ {g.slot} : ops'[r] = ops[r]
      /\ ops' \in [Slots -> SUBSET Operations]
  BY <1>1, <1>2, <1>3
<1> QED BY <1>2, <1>3, <1>4 DEF OnlyMachinesOf, Present

\* Every step of the acquire job but the one that marks the lease held.
LEMMA AcquireStepKept ==
  ASSUME BrokerInv, NEW g \in grants, AcquireStep(g), ~Hold(g)
  PROVE  Kept
<1> DEFINE s == g.slot
<1>1. /\ s \in Slots /\ g.lease \in Nat /\ TypeOK /\ BrokerTypeOK
      /\ MachinesOK(s) /\ AcquireJobOK(s)
  BY GrantFacts DEF BrokerInv, IInv, SlotInv
<1>2. Acquires(g)
  BY
  DEF AcquireStep, ReserveEnvironment, PinBase, RejectAdmission, RestrictAccess,
      CreateVM, StartVM, OperationReturns, EnvironmentCreated, EnvironmentStarted,
      EnableAgentAccess, HoldFails, AcquireFails, UndoAcquire, Acquiring, Acquires
<1>3. grants' = grants /\ \A r \in Slots : Settles(slots[r], slots'[r])
  <2>1. UNCHANGED storeVars \/ Status
    BY
    DEF AcquireStep, ReserveEnvironment, PinBase, RejectAdmission, RestrictAccess,
        CreateVM, StartVM, OperationReturns, EnvironmentCreated, EnvironmentStarted,
        EnableAgentAccess, HoldFails, AcquireFails, UndoAcquire
  <2> QED BY <2>1, SettlingOperations
<1>4. Settles(slots[s], slots'[s])
  BY <1>1, <1>3
<1> HIDE DEF s
<1>5. CASE ReserveEnvironment(g)
  <2>1. /\ job[s].pc = "reserve" /\ Goto(s, "pin")
        /\ session' = session /\ UNCHANGED machineVars
    BY <1>5 DEF ReserveEnvironment, Acquiring, At, s
  <2>2. MachinesOK(s)' /\ OnlyMachinesOf(s)
    BY <1>1, <1>4, <2>1, SameMachines
  <2> QED BY <1>2, <1>3, <2>1, <2>2, AcquireGoesOn DEF s, Provisioning
<1>6. CASE PinBase(g)
  <2>1. /\ job[s].pc = "pin" /\ Goto(s, "restrict") /\ StillProvisioning(g)
        /\ session' = session /\ UNCHANGED machineVars
    BY <1>6 DEF PinBase, Acquiring, At, s
  <2>2. MachinesOK(s)' /\ OnlyMachinesOf(s)
    BY <1>1, <1>4, <2>1, SameMachines
  <2>3. slots[s].lease = g.lease
    BY <1>1, <2>1, CurrentPool DEF StillProvisioning, Owns, s
  <2> QED BY <1>2, <1>3, <2>1, <2>2, <2>3, AcquireGoesOn DEF s, Provisioning
<1>7. CASE RejectAdmission(g)
  <2>1. /\ job[s].pc \in {"reserve", "pin"} /\ Unlock(s) /\ Turn(g, "rejected")
        /\ UNCHANGED machineVars
    BY <1>7 DEF RejectAdmission, Acquiring, At, s
  <2>2. MachinesOK(s)' /\ OnlyMachinesOf(s)
    BY <1>1, <1>4, <2>1, SameMachines
  <2> QED BY <1>2, <1>3, <2>1, <2>2, AcquireEnds DEF s
<1>8. CASE RestrictAccess(g)
  <2>1. /\ job[s].pc = "restrict" /\ Goto(s, "create")
        /\ session' = session /\ UNCHANGED <<vms, ops>>
        /\ access' = [access EXCEPT ![s] = 0]
    BY <1>8 DEF RestrictAccess, Acquiring, At, s
  <2>2. OnlyMachinesOf(s) /\ access'[s] = 0 /\ Present(s)' = Present(s)
    BY <1>1, <2>1, AccessWrites
  <2>3. slots[s].lease = g.lease
    BY <1>2, <2>1, AcquiringFacts DEF s
  <2>4. MachinesOK(s)'
    BY <1>2, <1>4, <2>1, <2>2, OwnMachines DEF s, slotMatchesLeaseIdentity
  <2> QED BY <1>2, <1>3, <2>1, <2>2, <2>3, <2>4, AcquireGoesOn DEF s, Provisioning
<1>9. CASE \E v \in Guests : CreateVM(g, v) \/ StartVM(g, v)
  <2>1. PICK v \in Guests : CreateVM(g, v) \/ StartVM(g, v)
    BY <1>9
  <2>2. PICK kind \in {"create", "start"} :
           /\ ops' = [ops EXCEPT ![s] = @ \cup {Operation(g, kind, v)}]
           /\ session' = session /\ UNCHANGED <<vms, access>>
    BY <2>1 DEF CreateVM, StartVM, s
  <2>3. /\ OnlyMachinesOf(s) /\ Present(s)' = Present(s)
        /\ \A op \in ops'[s] : op \in ops[s] \/ slotMatchesLeaseIdentity(op, g)
    BY <2>2, OperationWrites DEF s
  <2>4. \/ job[s].pc = "create" /\ WaitFor(s, "creating", v)
        \/ job[s].pc = "start" /\ WaitFor(s, "starting", v)
    BY <2>1 DEF CreateVM, StartVM, Acquiring, At, s
  <2>5. slots[s].lease = g.lease
    BY <1>2, <2>4, AcquiringFacts DEF s
  <2>6. MachinesOK(s)'
    BY <1>2, <1>4, <2>2, <2>3, <2>4, OwnMachines DEF s, slotMatchesLeaseIdentity
  <2>7. job[s].pc = "start" => Present(s)' = Guests
    BY <1>1, <1>2, <2>3 DEF AcquireJobOK, Acquires, s
  <2> QED
    BY <1>2, <1>3, <2>2, <2>3, <2>4, <2>5, <2>6, <2>7, AcquireGoesOn DEF s, Provisioning
<1>10. CASE OperationReturns(g) \/ EnvironmentCreated(g) \/ EnvironmentStarted(g)
            \/ HoldFails(g)
  <2>1. session' = session /\ UNCHANGED machineVars
    BY <1>10 DEF OperationReturns, EnvironmentCreated, EnvironmentStarted, HoldFails
  <2>2. \/ job[s].pc = "creating" /\ WaitFor(s, "create", 0)
        \/ job[s].pc = "starting" /\ WaitFor(s, "start", 0)
        \/ job[s].pc = "create" /\ Goto(s, "start") /\ Present(s) = Guests
        \/ job[s].pc = "start" /\ Goto(s, "open")
        \/ job[s].pc = "hold" /\ Goto(s, "undo")
    BY <1>10
    DEF OperationReturns, EnvironmentCreated, EnvironmentStarted, HoldFails,
        Acquiring, At, Present, s
  <2>3. MachinesOK(s)' /\ OnlyMachinesOf(s) /\ Present(s)' = Present(s)
    BY <1>1, <1>4, <2>1, SameMachines
  <2>4. slots[s].lease = g.lease
    BY <1>2, <2>2, AcquiringFacts DEF s
  <2>5. job[s].pc \in {"start", "starting"} => Present(s)' = Guests
    BY <1>1, <1>2, <2>3 DEF AcquireJobOK, Acquires, s
  <2> QED
    BY <1>2, <1>3, <2>1, <2>2, <2>3, <2>4, <2>5, AcquireGoesOn DEF s, Provisioning
<1>11. CASE \E ok \in BOOLEAN : EnableAgentAccess(g, ok)
  <2>1. /\ job[s].pc = "open" /\ UNCHANGED <<vms, ops>>
        /\ access' = [access EXCEPT ![s] = g.lease]
        /\ \/ Goto(s, "hold") /\ session' = session
           \/ Unlock(s) /\ Turn(g, "failed")
    BY <1>11 DEF EnableAgentAccess, Acquiring, At, s
  <2>2. OnlyMachinesOf(s) /\ access'[s] = g.lease /\ Present(s)' = Present(s)
    BY <1>1, <2>1, AccessWrites
  <2>3. slots[s].lease = g.lease
    BY <1>2, <2>1, AcquiringFacts DEF s
  <2>4. MachinesOK(s)'
    BY <1>2, <1>4, <2>1, <2>2, OwnMachines DEF s, slotMatchesLeaseIdentity
  <2>5. Present(s)' = Guests
    BY <1>1, <1>2, <2>1, <2>2 DEF AcquireJobOK, Acquires, s
  <2>6. CASE Goto(s, "hold") /\ session' = session
    BY <1>2, <1>3, <2>1, <2>2, <2>3, <2>4, <2>5, <2>6, AcquireGoesOn DEF s, Provisioning
  <2>7. CASE Unlock(s) /\ Turn(g, "failed")
    BY <1>2, <1>3, <2>1, <2>2, <2>3, <2>4, <2>7, AcquireEnds DEF s
  <2> QED BY <2>1, <2>6, <2>7
<1>12. CASE AcquireFails(g)
  <2>1. Unlock(s) /\ Turn(g, "failed") /\ UNCHANGED machineVars
    BY <1>12 DEF AcquireFails, s
  <2>2. MachinesOK(s)' /\ OnlyMachinesOf(s)
    BY <1>1, <1>4, <2>1, SameMachines
  <2> QED BY <1>2, <1>3, <2>1, <2>2, AcquireEnds DEF s
<1>13. CASE UndoAcquire(g)
  <2>1. job[s].pc = "undo" /\ Unlock(s) /\ Turn(g, "failed") /\ ops' = ops
    BY <1>13 DEF UndoAcquire, Acquiring, At, s
  <2>2. CASE UNCHANGED <<access, vms>>
    <3>1. UNCHANGED machineVars
      BY <2>1, <2>2 DEF machineVars
    <3>2. MachinesOK(s)' /\ OnlyMachinesOf(s)
      BY <1>1, <1>4, <3>1, SameMachines
    <3> QED BY <1>2, <1>3, <2>1, <3>1, <3>2, AcquireEnds DEF s
  <2>3. CASE /\ access' = [access EXCEPT ![s] = 0]
             /\ \E vs \in SUBSET Running(s) : vms' = Stopped(s, vs)
    <3>1. PICK vs \in SUBSET Running(s) : vms' = Stopped(s, vs)
      BY <2>3
    <3>2. /\ vms' \in [Slots -> [Guests -> VMs]]
          /\ \A r \in Slots \ {s} : vms'[r] = vms[r]
          /\ Present(s)' = Present(s)
          /\ \A v \in Guests : slotMatchesLeaseIdentity(vms'[s][v], vms[s][v])
      BY <1>1, <3>1, StoppedMachines
    <3>3. OnlyMachinesOf(s) /\ access'[s] = 0
      BY <1>1, <2>1, <2>3, <3>2 DEF BrokerTypeOK, OnlyMachinesOf
    <3>4. MachinesOK(s)'
      BY <1>2, <1>4, <2>1, <3>2, <3>3, OwnMachines DEF s, Present
    <3> QED BY <1>2, <1>3, <2>1, <3>3, <3>4, AcquireEnds DEF s
  <2> QED BY <1>13, <2>2, <2>3 DEF UndoAcquire, s
<1> QED BY <1>5, <1>6, <1>7, <1>8, <1>9, <1>10, <1>11, <1>12, <1>13 DEF AcquireStep

\* The lease is marked held: the machines exist and the client has its access.
LEMMA HoldKept ==
  ASSUME BrokerInv, NEW g \in grants, Hold(g)
  PROVE  Kept
<1> DEFINE s == g.slot
<1>1. /\ job[s].kind = "acquire" /\ job[s].lease = g.lease /\ job[s].pc = "hold"
      /\ MarkHeld(g) /\ Unlock(s) /\ Turn(g, "held") /\ UNCHANGED machineVars
  BY DEF Hold, Acquiring, At
<1>2. /\ s \in Slots /\ TypeOK /\ BrokerTypeOK /\ MachinesOK(s) /\ AcquireJobOK(s)
      /\ \A h \in grants : h # g => h.lease # g.lease
  BY GrantFacts DEF BrokerInv, IInv, SlotInv
<1>3. /\ Current[s] = slots[s] /\ slots[s] \in Slot /\ slots[s].lease = g.lease
      /\ slots[s].state = "provisioning"
      /\ Write(s, Held(slots[s])) /\ grants' = grants
  BY <1>1, <1>2, CurrentPool DEF MarkHeld, Owns, Rest, Live, TypeOK
<1> HIDE DEF s
<1>4. slots'[s] = Held(slots[s]) /\ \A r \in Slots \ {s} : Settles(slots[r], slots'[r])
  BY <1>2, <1>3, WrittenPool
<1>5. /\ slots'[s].state = "held" /\ slots'[s].lease = g.lease
      /\ slotMatchesLeaseIdentity(slots'[s], slots[s])
  BY <1>3, <1>4 DEF Held, Slot, slotMatchesLeaseIdentity
<1>6. /\ job' \in [Slots -> Jobs] /\ job'[s] = NoJob
      /\ \A r \in Slots \ {s} : job'[r] = job[r]
  BY <1>1, <1>2, JobWrites
<1>7. /\ session' \in [Leases -> Sessions]
      /\ session'[g.lease].pc = "held"
      /\ \A h \in grants : h # g => session'[h.lease] = session[h.lease]
  BY <1>1, TurnWrites
<1>8. BrokerTypeOK'
  BY <1>1, <1>2, <1>6, <1>7 DEF BrokerTypeOK, machineVars
<1>9. About(s)
  BY <1>1, <1>3, <1>4, <1>6, <1>7 DEF About, machineVars, s
<1>10. UntouchedIsClean(s)'
  BY <1>2, <1>3, <1>5, <1>7 DEF UntouchedIsClean, NotBegun
<1>11. MachinesOK(s)'
  <2>1. access[s] = g.lease /\ Present(s) = Guests
    BY <1>1, <1>2 DEF AcquireJobOK
  <2>2. access'[s] = g.lease /\ Present(s)' = Guests
    BY <1>1, <2>1 DEF machineVars, Present
  <2> QED BY <1>1, <1>2, <1>5, <2>2 DEF MachinesOK, machineVars, slotMatchesLeaseIdentity, Present
<1> QED
  BY <1>2, <1>5, <1>6, <1>8, <1>9, <1>10, <1>11, NoJobInv, OneSlot DEF SlotInv

\* The process of g takes the lock: nobody has used the slot for g before.
LEMMA EnterAcquireKept ==
  ASSUME BrokerInv, NEW g \in grants, EnterAcquire(g)
  PROVE  Kept
<1> DEFINE s == g.slot
<1>1. /\ session[g.lease].pc = "working" /\ Lock(s, "acquire", "reserve", g)
      /\ Status /\ session' = session /\ UNCHANGED machineVars
  BY DEF EnterAcquire
<1>2. /\ s \in Slots /\ g.lease \in Nat /\ g.gen \in Nat /\ g.epoch \in Nat
      /\ BrokerTypeOK /\ SlotInv(s)
  BY GrantFacts DEF BrokerInv
<1>3. grants' = grants /\ \A r \in Slots : Settles(slots[r], slots'[r])
  BY <1>1, SettlingOperations
<1>4. MachinesOK(s)' /\ Present(s)' = Present(s)
  BY <1>1, <1>2, <1>3, SameMachines
<1>5. /\ job[s] = NoJob
      /\ job' \in [Slots -> Jobs]
      /\ job'[s].kind = "acquire" /\ job'[s].pc = "reserve"
      /\ job'[s].lease = g.lease /\ slotMatchesLeaseIdentity(job'[s], g)
      /\ \A r \in Slots \ {s} : job'[r] = job[r]
  BY <1>1, <1>2, LockWrites
<1> HIDE DEF s
<1>6. BrokerTypeOK' /\ About(s)
  BY <1>1, <1>2, <1>3, <1>5 DEF BrokerTypeOK, About, machineVars
<1>7. JobShape(s)' /\ RevokedJobOK(s)' /\ CleaningProgress(s)'
  BY <1>5 DEF JobShape, RevokedJobOK, CleaningProgress, Provisioning, Cleaning
<1>8. \A h \in grants : h.slot = s => (NotBegun(h)' => NotBegun(h))
  BY <1>1, <1>5 DEF NotBegun, Acquires, NoJob
<1>9. Settles(slots[s], slots'[s])
  BY <1>2, <1>3
<1>10. UntouchedIsClean(s)'
  BY <1>1, <1>2, <1>3, <1>4, <1>8, <1>9
  DEF SlotInv, UntouchedIsClean, Clean, Settles, machineVars, Live
<1>11. AcquireJobOK(s)'
  <2>1. NotBegun(g)
    BY <1>1, <1>5 DEF NotBegun, Acquires, NoJob, s
  <2>2. slots[s].lease = g.lease => slots[s].state # "held"
    BY <1>2, <2>1 DEF SlotInv, UntouchedIsClean, s
  <2> QED BY <1>1, <1>3, <1>5, <1>9, <2>2 DEF AcquireJobOK, Settles, Live, s
<1>12. slots'[s].state = "available" => slots[s].state # "held"
  BY <1>9 DEF Settles, Live
<1> QED
  BY <1>2, <1>4, <1>6, <1>7, <1>10, <1>11, <1>12, OneSlot DEF SlotInv

\* A process dies, with the lock or without.
LEMMA SessionDiesKept ==
  ASSUME BrokerInv, NEW g \in grants, SessionDies(g)
  PROVE  Kept
<1>1. Turn(g, "done") /\ Exit(g) /\ UNCHANGED machineVars /\ g.slot \in Slots
  BY GrantFacts DEF SessionDies
<1>2. grants' = grants /\ \A r \in Slots : Settles(slots[r], slots'[r])
  BY <1>1, SettlingOperations
<1>3. CASE Acquires(g)
  <2>1. Unlock(g.slot)
    BY <1>3 DEF SessionDies, Acquires, Unlock
  <2>2. MachinesOK(g.slot)' /\ OnlyMachinesOf(g.slot)
    BY <1>1, <1>2, SameMachines
  <2> QED BY <1>1, <1>2, <1>3, <2>1, <2>2, AcquireEnds
<1>4. CASE ~Acquires(g)
  <2>1. UNCHANGED job
    BY <1>4 DEF SessionDies, Acquires
  <2> QED BY <1>1, <1>2, <1>4, <2>1, TurnIsCalm, SettlingStep
<1> QED BY <1>3, <1>4

\* A refused admission gives back a slot in which nothing was built.
LEMMA AdmissionRejectedKept ==
  ASSUME BrokerInv, NEW g \in grants, AdmissionRejected(g)
  PROVE  Kept
<1> DEFINE s == g.slot
<1>1. /\ session[g.lease].pc = "rejected" /\ UNCHANGED <<job, machineVars>>
      /\ AbortProvisioning(g) \/ UNCHANGED storeVars
  BY DEF AdmissionRejected
<1>2. \E pc \in {"closing", "done"} : Turn(g, pc)
  BY DEF AdmissionRejected, Leave
<1>3. ~Acquires(g)
  BY <1>1, NotAtWork
<1>4. session' \in [Leases -> Sessions] /\ \A h \in grants : Calm(h)
  BY <1>1, <1>2, <1>3, TurnIsCalm
<1>5. CASE UNCHANGED storeVars
  BY <1>1, <1>4, <1>5, SettlingOperations, SettlingStep
<1>6. CASE AbortProvisioning(g)
  <2>1. /\ s \in Slots /\ TypeOK /\ BrokerTypeOK /\ SlotInv(s) /\ g.lease # 0
        /\ \A h \in grants : h.lease # 0
        /\ \A h \in grants : h # g => h.lease # g.lease
    BY GrantFacts DEF BrokerInv, IInv
  <2>2. /\ Current[s] = slots[s] /\ slots[s] \in Slot /\ slots[s].lease = g.lease
        /\ slots[s].state = "provisioning"
        /\ Write(s, Freed(slots[s])) /\ grants' = grants
    BY <1>6, <2>1, CurrentPool DEF AbortProvisioning, Owns, Rest, Live, TypeOK
  <2> HIDE DEF s
  <2>3. slots'[s] = Freed(slots[s]) /\ \A r \in Slots \ {s} : Settles(slots[r], slots'[r])
    BY <2>1, <2>2, WrittenPool
  <2>4. slots'[s].state = "available" /\ slots'[s].lease = 0
    BY <2>2, <2>3, SlotOperations
  <2>5. BrokerTypeOK'
    BY <1>1, <1>4, <2>1 DEF BrokerTypeOK, machineVars
  <2>6. /\ \A h \in grants : h # g => session'[h.lease] = session[h.lease]
    BY <1>2, TurnWrites
  <2>7. About(s)
    BY <1>1, <2>2, <2>3, <2>6 DEF About, machineVars, s
  <2>8. Clean(s)
    <3>1. NotBegun(g)
      BY <1>1 DEF NotBegun
    <3> QED BY <2>1, <2>2, <3>1 DEF SlotInv, UntouchedIsClean, s
  <2>9. Present(s)' = {} /\ ops'[s] = {} /\ access'[s] = 0
    BY <1>1, <2>8 DEF Clean, Present, machineVars
  <2>10. MachinesOK(s)'
    BY <2>4, <2>9 DEF MachinesOK, Clean
  <2>11. UntouchedIsClean(s)'
    BY <2>1, <2>2, <2>4 DEF UntouchedIsClean
  <2>12. job[s].kind \in {"none", "acquire"}
    BY <2>1, <2>2 DEF SlotInv, RevokedJobOK
  <2>13. JobShape(s)' /\ RevokedJobOK(s)'
    BY <1>1, <2>1, <2>12 DEF SlotInv, JobShape, RevokedJobOK
  <2>14. CleaningProgress(s)'
    BY <2>9 DEF CleaningProgress
  <2>15. AcquireJobOK(s)'
    <3> SUFFICES ASSUME job[s].kind = "acquire" PROVE AcquireJobOK(s)'
      BY <1>1 DEF AcquireJobOK
    <3>1. PICK h \in grants : /\ h.slot = s
                              /\ slotMatchesLeaseIdentity(job[s], h)
                              /\ job[s].lease = h.lease
                              /\ session[h.lease].pc = "working"
      BY <2>1 DEF SlotInv, AcquireJobOK
    <3>2. h # g
      BY <1>1, <3>1
    <3>3. job[s].pc \in {"reserve", "pin"}
      BY <2>1, <2>2, <3>1, <3>2 DEF SlotInv, AcquireJobOK
    <3>4. session'[h.lease].pc = "working"
      BY <2>6, <3>1, <3>2
    <3> QED BY <1>1, <2>1, <2>2, <2>4, <3>1, <3>3, <3>4 DEF AcquireJobOK
  <2> QED
    BY <2>1, <2>2, <2>5, <2>7, <2>10, <2>11, <2>13, <2>14, <2>15, OneSlot DEF SlotInv
<1> QED BY <1>1, <1>5, <1>6

-----------------------------------------------------------------------------
(* Draining, quarantine and recovery.                                      *)

Revoked == {"draining", "quarantined", "recovering"}

\* A step takes the lock, or goes on under it, for a lease without authority.
LEMMA RevokedGoesOn ==
  ASSUME BrokerInv, NEW s \in Slots, grants' = grants,
         session' \in [Leases -> Sessions],
         \A g \in grants : /\ NotBegun(g)' => NotBegun(g)
                           /\ g.slot # s => session'[g.lease] = session[g.lease],
         job' \in [Slots -> Jobs],
         \A r \in Slots \ {s} : job'[r] = job[r] /\ Settles(slots[r], slots'[r]),
         slots'[s].lease = slots[s].lease,
         slotMatchesLeaseIdentity(slots'[s], slots[s]),
         slots'[s].state \in Revoked,
         OnlyMachinesOf(s), Shrinks(s),
         JobShape(s)', AcquireJobOK(s)', RevokedJobOK(s)', CleaningProgress(s)'
  PROVE  Kept
<1>1. SlotInv(s)
  BY DEF BrokerInv
<1>2. BrokerTypeOK' /\ About(s)
  BY DEF BrokerTypeOK, About, OnlyMachinesOf
<1>3. Clean(s) => Clean(s)'
  BY DEF Clean, Shrinks
<1>4. UntouchedIsClean(s)'
  BY <1>1, <1>3 DEF SlotInv, UntouchedIsClean, Revoked
<1>5. MachinesOK(s)'
  BY <1>1 DEF SlotInv, MachinesOK, Shrinks, slotMatchesLeaseIdentity, Revoked
<1> QED BY <1>1, <1>2, <1>4, <1>5, OneSlot DEF SlotInv, Revoked

\* Machines that nobody touches do not become more.
LEMMA SameShrinks ==
  ASSUME BrokerInv, NEW s \in Slots, UNCHANGED machineVars
  PROVE  OnlyMachinesOf(s) /\ Shrinks(s)
<1>1. BrokerTypeOK
  BY DEF BrokerInv
<1> QED
  BY <1>1 DEF Shrinks, OnlyMachinesOf, BrokerTypeOK, machineVars, Present,
              slotMatchesLeaseIdentity

\* The sessions are calm when no process moves and the lock is not an
\* acquirer's.
LEMMA NobodyMoves ==
  ASSUME BrokerInv, NEW s \in Slots, session' = session,
         job[s].kind # "acquire", \A r \in Slots \ {s} : job'[r] = job[r]
  PROVE  /\ session' \in [Leases -> Sessions]
         /\ \A g \in grants : /\ NotBegun(g)' => NotBegun(g)
                              /\ g.slot # s => session'[g.lease] = session[g.lease]
<1>1. session \in [Leases -> Sessions] /\ \A g \in grants : g.slot \in Slots
  BY GrantFacts DEF BrokerInv, BrokerTypeOK
<1>2. ASSUME NEW g \in grants, NotBegun(g)' PROVE NotBegun(g)
  <2>1. CASE g.slot = s
    BY <1>2, <2>1 DEF NotBegun, Acquires
  <2>2. CASE g.slot # s
    BY <1>1, <1>2, <2>2 DEF NotBegun, Acquires
  <2> QED BY <2>1, <2>2
<1> QED BY <1>1, <1>2

\* A job takes the lock for the lease that it sees on the slot.
LEMMA RevokedBegins ==
  ASSUME BrokerInv, NEW s \in Slots, NEW id,
         id.lease = slots[s].lease, slotMatchesLeaseIdentity(id, slots[s]),
         NEW kind \in {"quarantine", "drain", "scheduled", "forced", "recovery"},
         NEW pc \in {"fence", "quarantine", "begin", "started"},
         Lock(s, kind, pc, id),
         kind = "drain" <=> pc = "fence",
         pc = "started" => kind = "recovery",
         pc = "begin" => kind \in {"scheduled", "forced"},
         grants' = grants,
         session' \in [Leases -> Sessions],
         \A g \in grants : /\ g.slot = s => (NotBegun(g)' => NotBegun(g))
                           /\ g.slot # s => session'[g.lease] = session[g.lease],
         \A r \in Slots \ {s} : Settles(slots[r], slots'[r]),
         slots'[s].lease = slots[s].lease,
         slotMatchesLeaseIdentity(slots'[s], slots[s]),
         slots'[s].state \in Revoked,
         kind = "recovery" => slots'[s].state = "recovering",
         kind = "drain" => slots'[s].state = "draining",
         UNCHANGED machineVars
  PROVE  Kept
<1>1. /\ slots[s].lease \in Nat /\ slots[s].gen \in Nat /\ slots[s].epoch \in Nat
      /\ BrokerTypeOK
  BY DEF BrokerInv, IInv, TypeOK, Slot
<1>2. id.lease \in Nat /\ id.gen \in Nat /\ id.epoch \in Nat
  BY <1>1 DEF slotMatchesLeaseIdentity
<1>3. /\ job[s] = NoJob
      /\ job' \in [Slots -> Jobs]
      /\ job'[s].kind = kind /\ job'[s].pc = pc
      /\ job'[s].lease = id.lease /\ slotMatchesLeaseIdentity(job'[s], id)
      /\ \A r \in Slots \ {s} : job'[r] = job[r]
  BY <1>1, <1>2, LockWrites
<1>4. JobShape(s)' /\ AcquireJobOK(s)' /\ CleaningProgress(s)'
  BY <1>3 DEF JobShape, AcquireJobOK, CleaningProgress, Provisioning, Cleaning
<1>5. RevokedJobOK(s)'
  BY <1>3 DEF RevokedJobOK, slotMatchesLeaseIdentity, Revoked
<1>6. \A g \in grants : NotBegun(g)' => NotBegun(g)
  <2>1. \A g \in grants : g.slot \in Slots
    BY GrantFacts
  <2> QED BY <1>3, <2>1 DEF NotBegun, Acquires
<1> QED BY <1>3, <1>4, <1>5, <1>6, SameShrinks, RevokedGoesOn

\* The four ways to take the lock of a slot that has no acquirer.
LEMMA RevokedBeginsKept ==
  ASSUME BrokerInv,
         \/ \E s \in Slots : \/ ReapDraining(s)
                             \/ \E force \in BOOLEAN : RecoverScheduled(s, force)
         \/ \E g \in grants :
               \/ RecoverExpectedSlot(g)
               \/ \E request \in {"release", "revoke"} : EnterDrain(request, g)
  PROVE  Kept
<1>1. TypeOK /\ Current \in [Slots -> Slot] /\ BrokerTypeOK
  BY CurrentPool DEF BrokerInv, IInv
<1>2. ASSUME NEW s \in Slots
      PROVE  /\ Current[s] \in Slot
             /\ Current[s].lease = slots[s].lease
             /\ slotMatchesLeaseIdentity(Current[s], slots[s])
             /\ slotMatchesLeaseIdentity(slots[s], Current[s])
  BY <1>1, CurrentPool DEF slotMatchesLeaseIdentity
<1>3. ASSUME NEW s \in Slots, Status, Current[s].state = "draining",
             Lock(s, "drain", "fence", Current[s]), UNCHANGED <<session, machineVars>>
      PROVE  Kept
  <2>1. grants' = grants /\ \A r \in Slots : Settles(slots[r], slots'[r])
    BY <1>3, SettlingOperations
  <2>2. slots'[s] = Current[s]
    BY <1>3 DEF Status
  <2>3. job[s] = NoJob /\ \A r \in Slots \ {s} : job'[r] = job[r]
    BY <1>1, <1>3 DEF Lock, BrokerTypeOK
  <2>4. /\ session' \in [Leases -> Sessions]
        /\ \A g \in grants : /\ NotBegun(g)' => NotBegun(g)
                             /\ g.slot # s => session'[g.lease] = session[g.lease]
    BY <1>3, <2>3, NobodyMoves DEF NoJob
  <2> QED
    BY <1>2, <1>3, <2>1, <2>2, <2>4, RevokedBegins DEF Revoked
<1>4. CASE \E s \in Slots : ReapDraining(s)
  BY <1>3, <1>4 DEF ReapDraining
<1>5. CASE \E g \in grants, request \in {"release", "revoke"} : EnterDrain(request, g)
  <2>1. PICK g \in grants, request \in {"release", "revoke"} : EnterDrain(request, g)
    BY <1>5
  <2>2. g.slot \in Slots /\ Status /\ UNCHANGED <<session, machineVars>>
    BY <2>1, GrantFacts DEF EnterDrain
  <2>3. CASE DrainStillDue(request, g)
    BY <1>3, <2>1, <2>2, <2>3 DEF EnterDrain, DrainStillDue
  <2>4. CASE ~DrainStillDue(request, g)
    <3>1. UNCHANGED job
      BY <2>1, <2>4 DEF EnterDrain
    <3>2. session' \in [Leases -> Sessions] /\ \A h \in grants : Calm(h)
      BY <2>2, <3>1 DEF BrokerInv, BrokerTypeOK, Calm, NotBegun, Acquires
    <3> QED BY <2>2, <3>1, <3>2, SettlingOperations, SettlingStep
  <2> QED BY <2>3, <2>4
<1>6. CASE \E g \in grants : RecoverExpectedSlot(g)
  <2>1. PICK g \in grants : RecoverExpectedSlot(g)
    BY <1>6
  <2> DEFINE s == g.slot
  <2>2. s \in Slots
    BY GrantFacts
  <2>3. PICK pc \in {"started", "quarantine"} : Lock(s, "recovery", pc, g)
    BY <2>1 DEF RecoverExpectedSlot
  <2>4. /\ BeginExpectedRecovery(s, g) /\ UNCHANGED <<session, machineVars>>
    BY <2>1 DEF RecoverExpectedSlot
  <2>5. /\ slotMatchesLeaseIdentity(slots[s], g) /\ Current[s].state = "quarantined"
        /\ Write(s, Recovering(Current[s])) /\ grants' = grants
    BY <1>2, <2>2, <2>4
    DEF BeginExpectedRecovery, Expected, Rest, slotMatchesLeaseIdentity
  <2>6. slots[s].lease = g.lease
    <3>1. slots[s].lease # 0
      BY <1>1, <2>2, <2>5, CurrentPool DEF BrokerInv, IInv, LeasedUnlessAvailable
    <3>2. PICK h \in grants : /\ h.slot = s /\ h.lease = slots[s].lease
                              /\ h.epoch = slots[s].epoch
      BY <2>2, <3>1 DEF BrokerInv, IInv, LeaseWasGranted
    <3>3. h = g
      BY <2>5, <3>2 DEF BrokerInv, IInv, IdentityNamesOneLease, slotMatchesLeaseIdentity
    <3> QED BY <3>2, <3>3
  <2> HIDE DEF s
  <2>7. /\ slots'[s] = Recovering(Current[s])
        /\ \A r \in Slots \ {s} : Settles(slots[r], slots'[r])
    BY <1>1, <2>2, <2>5, WrittenPool
  <2>8. /\ slots'[s].state = "recovering" /\ slots'[s].lease = slots[s].lease
        /\ slotMatchesLeaseIdentity(slots'[s], slots[s])
    BY <1>2, <2>2, <2>7 DEF Recovering, Slot, slotMatchesLeaseIdentity
  <2>9. job[s] = NoJob /\ \A r \in Slots \ {s} : job'[r] = job[r]
    BY <1>1, <2>3 DEF Lock, BrokerTypeOK
  <2>10. /\ session' \in [Leases -> Sessions]
         /\ \A h \in grants : /\ NotBegun(h)' => NotBegun(h)
                              /\ h.slot # s => session'[h.lease] = session[h.lease]
    BY <2>2, <2>4, <2>9, NobodyMoves DEF NoJob
  <2>11. slotMatchesLeaseIdentity(g, slots[s])
    BY <2>5 DEF slotMatchesLeaseIdentity
  <2> QED
    BY <2>2, <2>3, <2>4, <2>5, <2>6, <2>7, <2>8, <2>10, <2>11, RevokedBegins DEF Revoked
<1>7. CASE \E s \in Slots, force \in BOOLEAN : RecoverScheduled(s, force)
  <2>1. PICK s \in Slots, force \in BOOLEAN : RecoverScheduled(s, force)
    BY <1>7
  <2>2. PICK kind \in {"scheduled", "forced"}, pc \in {"begin", "quarantine"} :
           Lock(s, kind, pc, Current[s])
    BY <2>1 DEF RecoverScheduled
  <2>3. /\ UNCHANGED <<session, machineVars>>
        /\ \/ InterruptRecovery(s)
           \/ Status /\ Current[s].state = "quarantined"
    BY <2>1 DEF RecoverScheduled
  <2>4. /\ slots'[s].state = "quarantined" /\ slots'[s].lease = slots[s].lease
        /\ slotMatchesLeaseIdentity(slots'[s], slots[s])
        /\ \A r \in Slots \ {s} : Settles(slots[r], slots'[r])
        /\ grants' = grants
    <3>1. CASE Status /\ Current[s].state = "quarantined"
      BY <1>2, <3>1, SettlingOperations DEF Status
    <3>2. CASE InterruptRecovery(s)
      <4>1. /\ slots'[s] = Quarantined(Current[s]) /\ grants' = grants
            /\ \A r \in Slots \ {s} : Settles(slots[r], slots'[r])
        BY <1>1, <3>2, WrittenPool DEF InterruptRecovery, Rest
      <4> QED BY <1>2, <4>1 DEF Quarantined, Slot, slotMatchesLeaseIdentity
    <3> QED BY <2>3, <3>1, <3>2
  <2>5. job[s] = NoJob /\ \A r \in Slots \ {s} : job'[r] = job[r]
    BY <1>1, <2>2 DEF Lock, BrokerTypeOK
  <2>6. /\ session' \in [Leases -> Sessions]
        /\ \A g \in grants : /\ NotBegun(g)' => NotBegun(g)
                             /\ g.slot # s => session'[g.lease] = session[g.lease]
    BY <2>3, <2>5, NobodyMoves DEF NoJob
  <2> QED BY <1>2, <2>2, <2>3, <2>4, <2>6, RevokedBegins DEF Revoked
<1> QED BY <1>4, <1>5, <1>6, <1>7

\* A failed acquisition quarantines its own slot.
LEMMA EnterQuarantineKept ==
  ASSUME BrokerInv, NEW g \in grants, EnterQuarantine(g)
  PROVE  Kept
<1> DEFINE s == g.slot
<1>1. session[g.lease].pc = "quarantine" /\ job[s] = NoJob /\ UNCHANGED machineVars
  BY DEF EnterQuarantine
<1>2. PICK pc \in {"closing", "done"} : Turn(g, pc)
  BY DEF EnterQuarantine, Leave
<1>3. /\ s \in Slots /\ TypeOK /\ BrokerTypeOK /\ Current[s] \in Slot
      /\ \A h \in grants : h.slot \in Slots /\ (h # g => h.lease # g.lease)
  BY GrantFacts, CurrentPool DEF BrokerInv, IInv
<1>4. ~Acquires(g)
  BY <1>1, NotAtWork
<1>5. CASE Quarantine(g) /\ Lock(s, "quarantine", "quarantine", g)
  <2>1. /\ slots[s].lease = g.lease
        /\ Write(s, Quarantined(Current[s])) /\ grants' = grants
    BY <1>3, <1>5, CurrentPool DEF Quarantine, Owns, Rest
  <2>2. slotMatchesLeaseIdentity(g, slots[s])
    BY <2>1, GrantFacts DEF slotMatchesLeaseIdentity
  <2> HIDE DEF s
  <2>3. /\ slots'[s] = Quarantined(Current[s])
        /\ \A r \in Slots \ {s} : Settles(slots[r], slots'[r])
    BY <1>3, <2>1, WrittenPool
  <2>4. /\ slots'[s].state = "quarantined" /\ slots'[s].lease = slots[s].lease
        /\ slotMatchesLeaseIdentity(slots'[s], slots[s])
    <3>1. /\ Current[s].lease = slots[s].lease
          /\ Current[s].gen = slots[s].gen /\ Current[s].epoch = slots[s].epoch
      BY <1>3, CurrentPool
    <3> QED BY <1>3, <2>3, <3>1 DEF Quarantined, Slot, slotMatchesLeaseIdentity
  <2>5. /\ session' \in [Leases -> Sessions]
        /\ session'[g.lease].pc \in {"closing", "done"}
        /\ \A h \in grants : h # g => session'[h.lease] = session[h.lease]
    BY <1>2, TurnWrites
  <2>6. \A h \in grants : /\ h.slot = s => (NotBegun(h)' => NotBegun(h))
                          /\ h.slot # s => session'[h.lease] = session[h.lease]
    <3>1. \A h \in grants : h.slot # s => h # g
      BY DEF s
    <3>2. \A h \in grants : h.slot = s /\ NotBegun(h)' => NotBegun(h)
      BY <1>1, <2>5 DEF NotBegun, Acquires, NoJob
    <3> QED BY <2>5, <3>1, <3>2
  <2> QED
    BY <1>1, <1>3, <1>5, <2>1, <2>2, <2>3, <2>4, <2>5, <2>6, RevokedBegins DEF Revoked
<1>6. CASE UNCHANGED <<storeVars, job>>
  BY <1>1, <1>2, <1>4, <1>6, TurnIsCalm, SettlingOperations, SettlingStep
<1> QED BY <1>5, <1>6 DEF EnterQuarantine

\* Facts about a job without an acquirer.
LEMMA RevokedFacts ==
  ASSUME BrokerInv, NEW s \in Slots, job[s].kind \notin {"none", "acquire"}
  PROVE  /\ SlotInv(s) /\ job[s] \in Jobs
         /\ slots[s] \in Slot /\ slots[s].state \in Revoked
         /\ slots[s].lease # 0
         /\ Current[s] = slots[s]
<1>1. SlotInv(s) /\ job[s] \in Jobs /\ slots[s] \in Slot /\ TypeOK
      /\ LeasedUnlessAvailable
  BY DEF BrokerInv, BrokerTypeOK, IInv, TypeOK
<1>2. slots[s].state \in Revoked
  BY <1>1 DEF SlotInv, RevokedJobOK, Revoked
<1>3. slots[s].lease # 0
  BY <1>1, <1>2 DEF LeasedUnlessAvailable, Revoked
<1>4. Current[s] = slots[s]
  BY <1>2 DEF Current, expireStale, Stale, Live, Revoked
<1> QED BY <1>1, <1>2, <1>3, <1>4

\* A cleanup goes on: the lock and the lease stay, the machines become fewer.
LEMMA CleanupGoesOn ==
  ASSUME BrokerInv, NEW s \in Slots, job[s].kind \in {"drain", "recovery"},
         job[s].pc # "quarantine",
         UNCHANGED <<storeVars, session>>,
         NEW pc \in Cleaning \cup {"fence", "finish", "giveup"}, Goto(s, pc),
         OnlyMachinesOf(s), Shrinks(s),
         pc \in Cleaning \cup {"finish"} => access'[s] = 0,
         pc \in {"delete", "verify", "inventory", "finish"} => ops'[s] = {},
         pc \in {"verify", "inventory", "finish"} => Present(s)' = {}
  PROVE  Kept
<1>1. SlotInv(s) /\ job[s] \in Jobs /\ slots[s].state \in Revoked /\ BrokerTypeOK
  BY RevokedFacts DEF BrokerInv
<1>2. /\ job' \in [Slots -> Jobs]
      /\ job'[s] = [job[s] EXCEPT !.pc = pc]
      /\ \A r \in Slots \ {s} : job'[r] = job[r]
  <2>1. /\ pc \in Provisioning \cup Cleaning
                 \cup {"hold", "undo", "fence", "finish", "giveup",
                       "quarantine", "begin", "started"}
        /\ 0 \in Guests \cup {0}
    OBVIOUS
  <2> QED BY <1>1, <2>1, JobWrites
<1>3. /\ job'[s].kind = job[s].kind /\ job'[s].pc = pc /\ job'[s].lease = job[s].lease
      /\ job'[s].gen = job[s].gen /\ job'[s].epoch = job[s].epoch
  BY <1>1, <1>2 DEF Jobs
<1>4. grants' = grants /\ slots' = slots /\ session' = session
  BY DEF storeVars
<1>5. JobShape(s)' /\ AcquireJobOK(s)' /\ CleaningProgress(s)'
  BY <1>3 DEF JobShape, AcquireJobOK, CleaningProgress, Cleaning, Provisioning
<1>6. RevokedJobOK(s)'
  BY <1>1, <1>3, <1>4 DEF SlotInv, RevokedJobOK, slotMatchesLeaseIdentity
<1>7. /\ session' \in [Leases -> Sessions]
      /\ \A g \in grants : /\ NotBegun(g)' => NotBegun(g)
                           /\ g.slot # s => session'[g.lease] = session[g.lease]
  BY <1>2, <1>4, NobodyMoves
<1>8. \A r \in Slots : Settles(slots[r], slots'[r])
  BY SettlingOperations
<1> QED
  BY <1>1, <1>2, <1>4, <1>5, <1>6, <1>7, <1>8, RevokedGoesOn DEF slotMatchesLeaseIdentity

\* The steps of a cleanup and its failures, at any of them.
LEMMA CleanStepKept ==
  ASSUME BrokerInv, NEW s \in Slots, CleanStep(s) \/ CleanupFails(s)
  PROVE  Kept
<1>1. /\ job[s].pc \in Cleaning \cup {"fence"}
      /\ UNCHANGED <<storeVars, session>>
  BY
  DEF CleanStep, CleanupFails, RestrictRetained, StopRetained, AllocationIdle,
      DeleteInstances, NoneRemain, At, Cleaning
<1>2. SlotInv(s) /\ BrokerTypeOK
  BY DEF BrokerInv
<1>3. job[s].kind \in {"drain", "recovery"} /\ job[s].pc # "quarantine"
  BY <1>1, <1>2 DEF SlotInv, JobShape, Cleaning
<1>4. CASE RestrictRetained(s)
  <2>1. /\ Goto(s, "stop") /\ UNCHANGED <<vms, ops>>
        /\ access' = [access EXCEPT ![s] = 0]
    BY <1>4 DEF RestrictRetained
  <2>2. OnlyMachinesOf(s) /\ access'[s] = 0 /\ Present(s)' = Present(s)
    BY <1>2, <2>1, AccessWrites
  <2>3. Shrinks(s)
    BY <2>1, <2>2 DEF Shrinks, slotMatchesLeaseIdentity
  <2> QED BY <1>1, <1>3, <2>1, <2>2, <2>3, CleanupGoesOn DEF Cleaning
<1>5. ASSUME NEW vs \in SUBSET Running(s), vms' = Stopped(s, vs), UNCHANGED <<ops, access>>
      PROVE  OnlyMachinesOf(s) /\ Shrinks(s)
  BY <1>2, <1>5, StoppedMachines
  DEF Shrinks, OnlyMachinesOf, BrokerTypeOK, Present
<1>6. ASSUME NEW vs \in SUBSET Guests, vms' = Deleted(s, vs), UNCHANGED <<ops, access>>
      PROVE  OnlyMachinesOf(s) /\ Shrinks(s) /\ Present(s)' = Present(s) \ vs
  BY <1>2, <1>6, DeletedMachines DEF Shrinks, OnlyMachinesOf, BrokerTypeOK
<1>7. CASE StopRetained(s)
  <2>1. /\ Goto(s, "idle") /\ UNCHANGED <<ops, access>> /\ job[s].pc = "stop"
        /\ vms' = Stopped(s, Running(s))
    BY <1>7 DEF StopRetained, At
  <2>2. OnlyMachinesOf(s) /\ Shrinks(s)
    BY <1>5, <2>1
  <2>3. access'[s] = 0
    BY <1>2, <2>1 DEF SlotInv, CleaningProgress, Cleaning
  <2> QED BY <1>1, <1>3, <2>1, <2>2, <2>3, CleanupGoesOn DEF Cleaning
<1>8. CASE AllocationIdle(s) \/ NoneRemain(s)
  <2>1. /\ UNCHANGED machineVars
        /\ \/ job[s].pc = "idle" /\ Goto(s, "delete") /\ ops[s] = {}
           \/ job[s].pc = "verify" /\ Goto(s, "inventory") /\ ops[s] = {}
           \/ job[s].pc = "inventory" /\ Goto(s, "finish") /\ Present(s) = {}
    BY <1>8 DEF AllocationIdle, NoneRemain, At, requireAllocationIdle
  <2>2. OnlyMachinesOf(s) /\ Shrinks(s)
    BY <2>1, SameShrinks
  <2>3. /\ access[s] = 0
        /\ job[s].pc \in {"verify", "inventory"} => Present(s) = {} /\ ops[s] = {}
    BY <1>2, <2>1 DEF SlotInv, CleaningProgress, Cleaning
  <2>4. access'[s] = access[s] /\ ops'[s] = ops[s] /\ Present(s)' = Present(s)
    BY <2>1 DEF machineVars, Present
  <2> QED BY <1>1, <1>3, <2>1, <2>2, <2>3, <2>4, CleanupGoesOn DEF Cleaning
<1>9. CASE DeleteInstances(s)
  <2>1. /\ Goto(s, "verify") /\ UNCHANGED <<ops, access>> /\ job[s].pc = "delete"
        /\ vms' = Deleted(s, Guests)
    BY <1>9 DEF DeleteInstances, At
  <2>2. OnlyMachinesOf(s) /\ Shrinks(s) /\ Present(s)' = Present(s) \ Guests
    BY <1>6, <2>1
  <2>3. Present(s)' = {} /\ access'[s] = 0 /\ ops'[s] = {}
    BY <1>2, <2>1, <2>2 DEF SlotInv, CleaningProgress, Cleaning, Present
  <2> QED BY <1>1, <1>3, <2>1, <2>2, <2>3, CleanupGoesOn DEF Cleaning
<1>10. CASE CleanupFails(s)
  <2>1. Goto(s, "giveup") /\ UNCHANGED <<ops, access>>
    BY <1>10 DEF CleanupFails
  <2>2. \/ vms' = vms
        \/ \E vs \in SUBSET Running(s) : vms' = Stopped(s, vs)
        \/ \E vs \in SUBSET Guests : vms' = Deleted(s, vs)
    BY <1>10 DEF CleanupFails
  <2>3. OnlyMachinesOf(s) /\ Shrinks(s)
    <3>1. CASE vms' = vms
      BY <2>1, <3>1, SameShrinks DEF machineVars
    <3>2. CASE \E vs \in SUBSET Running(s) : vms' = Stopped(s, vs)
      BY <1>5, <2>1, <3>2
    <3>3. CASE \E vs \in SUBSET Guests : vms' = Deleted(s, vs)
      BY <1>6, <2>1, <3>3
    <3> QED BY <2>2, <3>1, <3>2, <3>3
  <2> QED BY <1>1, <1>3, <2>1, <2>3, CleanupGoesOn DEF Cleaning
<1> QED BY <1>4, <1>7, <1>8, <1>9, <1>10 DEF CleanStep

\* A job ends with the lease still on the slot.
LEMMA RevokedEnds ==
  ASSUME BrokerInv, NEW s \in Slots, job[s].kind \notin {"none", "acquire"},
         Unlock(s), grants' = grants, session' = session,
         \A r \in Slots \ {s} : Settles(slots[r], slots'[r]),
         slots'[s].lease = slots[s].lease,
         slotMatchesLeaseIdentity(slots'[s], slots[s]),
         slots'[s].state \in Revoked,
         OnlyMachinesOf(s), Shrinks(s)
  PROVE  Kept
<1>1. /\ job' \in [Slots -> Jobs] /\ job'[s] = NoJob
      /\ \A r \in Slots \ {s} : job'[r] = job[r]
  BY JobWrites DEF BrokerInv
<1>2. /\ session' \in [Leases -> Sessions]
      /\ \A g \in grants : /\ NotBegun(g)' => NotBegun(g)
                           /\ g.slot # s => session'[g.lease] = session[g.lease]
  BY <1>1, NobodyMoves
<1> QED BY <1>1, <1>2, NoJobInv, RevokedGoesOn

\* A cleanup that got to its end gives the slot back: everything is gone.
LEMMA FreedKept ==
  ASSUME BrokerInv, NEW s \in Slots, job[s].pc = "finish",
         Unlock(s), grants' = grants, session' = session,
         \A r \in Slots \ {s} : Settles(slots[r], slots'[r]),
         slots'[s].lease = 0, slots'[s].state = "available",
         UNCHANGED machineVars
  PROVE  Kept
<1>1. SlotInv(s) /\ BrokerTypeOK /\ \A g \in grants : g.lease # 0
  BY GrantFacts DEF BrokerInv
<1>2. /\ job' \in [Slots -> Jobs] /\ job'[s] = NoJob
      /\ \A r \in Slots \ {s} : job'[r] = job[r]
  BY <1>1, JobWrites
<1>3. BrokerTypeOK' /\ About(s)
  BY <1>1, <1>2 DEF BrokerTypeOK, About, machineVars
<1>4. Present(s)' = {} /\ ops'[s] = {} /\ access'[s] = 0
  BY <1>1 DEF SlotInv, CleaningProgress, machineVars, Present
<1>5. MachinesOK(s)' /\ UntouchedIsClean(s)'
  BY <1>1, <1>4 DEF MachinesOK, Clean, UntouchedIsClean
<1>6. slots[s].state # "held"
  BY <1>1 DEF SlotInv, JobShape, RevokedJobOK
<1> QED BY <1>1, <1>2, <1>3, <1>5, <1>6, NoJobInv, OneSlot DEF SlotInv

\* A job moves on, and what it writes leaves the lease on the slot.
LEMMA RevokedMoves ==
  ASSUME BrokerInv, NEW s \in Slots, job[s].kind \notin {"none", "acquire"},
         NEW kind \in {job[s].kind, "recovery"},
         NEW pc \in {"quarantine", "begin", "started", "giveup"},
         job' = [job EXCEPT ![s].kind = kind, ![s].pc = pc],
         pc = "begin" => kind \in {"scheduled", "forced"},
         pc \in {"started", "giveup"} => kind = "recovery",
         grants' = grants, session' = session,
         \A r \in Slots \ {s} : Settles(slots[r], slots'[r]),
         slots'[s].lease = slots[s].lease,
         slotMatchesLeaseIdentity(slots'[s], slots[s]),
         slots'[s].state \in Revoked,
         kind = "recovery" => slots'[s].state = "recovering",
         OnlyMachinesOf(s), Shrinks(s)
  PROVE  Kept
<1>1. /\ SlotInv(s) /\ job[s] \in Jobs /\ BrokerTypeOK
      /\ slots[s].lease = job[s].lease /\ slotMatchesLeaseIdentity(slots[s], job[s])
  BY RevokedFacts DEF BrokerInv, SlotInv, RevokedJobOK
<1> DEFINE new == [job[s] EXCEPT !.kind = kind, !.pc = pc]
<1>2. /\ new \in Jobs /\ new.kind = kind /\ new.pc = pc /\ new.lease = job[s].lease
      /\ new.gen = job[s].gen /\ new.epoch = job[s].epoch
  BY <1>1 DEF Jobs
<1>3. job' = [job EXCEPT ![s] = new]
  BY <1>1 DEF BrokerTypeOK
<1> HIDE DEF new
<1>4. /\ job' \in [Slots -> Jobs] /\ job'[s] = new
      /\ \A r \in Slots \ {s} : job'[r] = job[r]
  BY <1>1, <1>2, <1>3 DEF BrokerTypeOK
<1>5. kind \notin {"none", "acquire"}
  OBVIOUS
<1>6. JobShape(s)' /\ AcquireJobOK(s)' /\ CleaningProgress(s)'
  BY <1>2, <1>4, <1>5
  DEF JobShape, AcquireJobOK, CleaningProgress, Cleaning, Provisioning
<1>7. RevokedJobOK(s)'
  BY <1>1, <1>2, <1>4, <1>5 DEF RevokedJobOK, slotMatchesLeaseIdentity, Revoked
<1>8. /\ session' \in [Leases -> Sessions]
      /\ \A g \in grants : /\ NotBegun(g)' => NotBegun(g)
                           /\ g.slot # s => session'[g.lease] = session[g.lease]
  BY <1>4, NobodyMoves
<1> QED BY <1>4, <1>6, <1>7, <1>8, RevokedGoesOn

\* What the store operations of a job write leaves the lease on the slot,
\* unless it frees the slot.
LEMMA JobStoreWrites ==
  ASSUME BrokerInv, NEW s \in Slots, job[s].kind \notin {"none", "acquire"},
         NEW new \in {Quarantined(Current[s]), Recovering(Current[s]),
                      RecoveryFailed(Current[s]), WithIncident(Current[s])},
         Write(s, new)
  PROVE  /\ \A r \in Slots \ {s} : Settles(slots[r], slots'[r])
         /\ slots'[s].lease = slots[s].lease
         /\ slotMatchesLeaseIdentity(slots'[s], slots[s])
         /\ slots'[s].state \in Revoked
         /\ new = Recovering(Current[s]) => slots'[s].state = "recovering"
         /\ new = WithIncident(Current[s]) => slots'[s].state = slots[s].state
<1>1. slots[s] \in Slot /\ Current[s] = slots[s] /\ TypeOK /\ slots[s].state \in Revoked
  BY RevokedFacts DEF BrokerInv, IInv
<1>2. slots'[s] = new /\ \A r \in Slots \ {s} : Settles(slots[r], slots'[r])
  BY <1>1, WrittenPool
<1>3. /\ new.lease = slots[s].lease /\ new.gen = slots[s].gen /\ new.epoch = slots[s].epoch
  <2>1. new \in Keeping(slots[s]) /\ slots[s].state # "available"
    BY <1>1 DEF Keeping, Revoked
  <2> QED BY <1>1, <2>1, KeepingOperations
<1>4. /\ Quarantined(slots[s]).state = "quarantined"
      /\ Recovering(slots[s]).state = "recovering"
      /\ RecoveryFailed(slots[s]).state = "quarantined"
      /\ WithIncident(slots[s]).state = slots[s].state
  BY <1>1, StatesWritten DEF WithIncident, Slot
<1> QED BY <1>1, <1>2, <1>3, <1>4 DEF Revoked, slotMatchesLeaseIdentity

\* The ends of a drain and of a recovery, and the death of their processes.
LEMMA CompletionKept ==
  ASSUME BrokerInv, NEW s \in Slots,
         \/ JobDies(s)
         \/ \E ok \in BOOLEAN : CompleteDrain(s, ok) \/ CompleteRecovery(s, ok)
  PROVE  Kept
<1>1. job[s].kind \notin {"none", "acquire"} /\ session' = session /\ UNCHANGED machineVars
  BY DEF JobDies, CompleteDrain, CompleteRecovery
<1>2. /\ SlotInv(s) /\ slots[s] \in Slot /\ slots[s].state \in Revoked
      /\ Current[s] = slots[s] /\ BrokerTypeOK /\ TypeOK
  BY <1>1, RevokedFacts DEF BrokerInv, IInv
<1>3. OnlyMachinesOf(s) /\ Shrinks(s)
  BY <1>1, SameShrinks
<1>4. CASE JobDies(s)
  <2>1. Unlock(s) /\ grants' = grants /\ slots' = slots
        /\ \A r \in Slots : Settles(slots[r], slots'[r])
    BY <1>4, SettlingOperations DEF JobDies, storeVars
  <2> QED BY <1>1, <1>2, <1>3, <2>1, RevokedEnds DEF slotMatchesLeaseIdentity
<1>5. CASE CompleteDrain(s, TRUE) \/ CompleteRecovery(s, TRUE)
  <2>1. /\ job[s].pc = "finish" /\ Unlock(s) /\ grants' = grants
        /\ \/ Write(s, Freed(slots[s]))
           \/ Write(s, Recovered(slots[s]))
    BY <1>2, <1>5
    DEF CompleteDrain, CompleteRecovery, At, FinishDrain, FinishRecovery, Rest
  <2>2. /\ slots'[s] \in {Freed(slots[s]), Recovered(slots[s])}
        /\ \A r \in Slots \ {s} : Settles(slots[r], slots'[r])
    BY <1>2, <2>1, WrittenPool
  <2>3. slots'[s].lease = 0 /\ slots'[s].state = "available"
    BY <1>2, <2>2, SlotOperations
  <2> QED BY <1>1, <2>1, <2>2, <2>3, FreedKept
<1>6. CASE CompleteDrain(s, FALSE)
  <2>1. /\ job[s].kind = "drain" /\ Goto(s, "quarantine") /\ grants' = grants
        /\ Write(s, Quarantined(Current[s]))
    BY <1>6 DEF CompleteDrain, FinishDrain, Rest
  <2>2. job' = [job EXCEPT ![s].kind = job[s].kind, ![s].pc = "quarantine"]
    <3>1. job \in [Slots -> Jobs]
      BY <1>2 DEF BrokerTypeOK
    <3>2. [job[s] EXCEPT !.kind = job[s].kind, !.pc = "quarantine"]
             = [job[s] EXCEPT !.pc = "quarantine"]
      BY <3>1 DEF Jobs
    <3> QED BY <2>1, <3>1, <3>2 DEF Goto
  <2> QED BY <1>1, <1>3, <2>1, <2>2, JobStoreWrites, RevokedMoves
<1>7. CASE CompleteRecovery(s, FALSE)
  <2>1. Unlock(s) /\ grants' = grants /\ Write(s, RecoveryFailed(Current[s]))
    BY <1>7 DEF CompleteRecovery, FinishRecovery, Rest
  <2> QED BY <1>1, <1>3, <2>1, JobStoreWrites, RevokedEnds
<1> QED BY <1>4, <1>5, <1>6, <1>7

\* Recording a quarantine and starting a recovery.
LEMMA RecoveryStepKept ==
  ASSUME BrokerInv, NEW s \in Slots,
         \/ BeginRecovery(s)
         \/ \E ok \in BOOLEAN : \/ RecordRecoveryStart(s, ok)
                                \/ \E fenced \in BOOLEAN : handleQuarantineLocked(s, fenced, ok)
  PROVE  Kept
<1>1. job[s].pc \in {"begin", "started", "quarantine"} /\ session' = session
  BY DEF BeginRecovery, RecordRecoveryStart, handleQuarantineLocked, At
<1>2. SlotInv(s) /\ BrokerTypeOK /\ job \in [Slots -> Jobs]
  BY DEF BrokerInv, BrokerTypeOK
<1>3. /\ job[s].kind \notin {"none", "acquire"}
      /\ job[s].pc = "started" => job[s].kind = "recovery"
      /\ job[s].kind = "recovery" => slots[s].state = "recovering"
  BY <1>1, <1>2 DEF SlotInv, JobShape, NoJob, Provisioning, RevokedJobOK
<1>4. /\ slots[s] \in Slot /\ slots[s].state \in Revoked /\ Current[s] = slots[s]
  BY <1>3, RevokedFacts
<1>5. \A pc \in STRING : job' = [job EXCEPT ![s].pc = pc]
         => job' = [job EXCEPT ![s].kind = job[s].kind, ![s].pc = pc]
  <2> SUFFICES ASSUME NEW pc \in STRING, job' = [job EXCEPT ![s].pc = pc]
               PROVE  job' = [job EXCEPT ![s].kind = job[s].kind, ![s].pc = pc]
    OBVIOUS
  <2>1. [job[s] EXCEPT !.kind = job[s].kind, !.pc = pc] = [job[s] EXCEPT !.pc = pc]
    BY <1>2 DEF Jobs
  <2> QED BY <1>2, <2>1
<1>6. CASE BeginRecovery(s)
  <2>1. /\ job' = [job EXCEPT ![s].kind = "recovery", ![s].pc = "started"]
        /\ Write(s, Recovering(Current[s])) /\ grants' = grants /\ UNCHANGED machineVars
    BY <1>6 DEF BeginRecovery, BeginScheduledRecovery, Rest
  <2>2. OnlyMachinesOf(s) /\ Shrinks(s)
    BY <2>1, SameShrinks
  <2> QED BY <1>1, <1>3, <2>1, <2>2, JobStoreWrites, RevokedMoves
<1>7. CASE \E ok \in BOOLEAN : RecordRecoveryStart(s, ok)
  <2>1. PICK pc \in {"fence", "giveup"} : Goto(s, pc)
    BY <1>7 DEF RecordRecoveryStart
  <2>2. job[s].pc = "started" /\ UNCHANGED <<storeVars, session>> /\ UNCHANGED machineVars
    BY <1>7 DEF RecordRecoveryStart, At
  <2>3. OnlyMachinesOf(s) /\ Shrinks(s)
    BY <2>2, SameShrinks
  <2> QED BY <1>3, <2>1, <2>2, <2>3, CleanupGoesOn DEF Cleaning
<1>8. CASE \E ok, fenced \in BOOLEAN : handleQuarantineLocked(s, fenced, ok)
  <2>1. PICK ok \in BOOLEAN, fenced \in BOOLEAN : handleQuarantineLocked(s, fenced, ok)
    BY <1>8
  <2>2. /\ SetQuarantineIncident(s) \/ UNCHANGED storeVars
        /\ UNCHANGED <<vms, ops>>
        /\ access' = [access EXCEPT ![s] = 0] \/ access' = access
    BY <2>1 DEF handleQuarantineLocked
  <2>3. OnlyMachinesOf(s) /\ Shrinks(s)
    <3>1. CASE access' = access
      BY <2>2, <3>1, SameShrinks DEF machineVars
    <3>2. CASE access' = [access EXCEPT ![s] = 0]
      BY <1>2, <2>2, <3>2, AccessWrites DEF Shrinks, slotMatchesLeaseIdentity
    <3> QED BY <2>2, <3>1, <3>2
  <2>4. /\ grants' = grants
        /\ \A r \in Slots \ {s} : Settles(slots[r], slots'[r])
        /\ slots'[s].lease = slots[s].lease
        /\ slotMatchesLeaseIdentity(slots'[s], slots[s])
        /\ slots'[s].state = slots[s].state
    <3>1. CASE SetQuarantineIncident(s)
      BY <1>3, <3>1, JobStoreWrites DEF SetQuarantineIncident, Rest
    <3>2. CASE UNCHANGED storeVars
      BY <3>2, SettlingOperations DEF storeVars, slotMatchesLeaseIdentity
    <3> QED BY <2>2, <3>1, <3>2
  <2>5. CASE job[s].kind = "recovery"
    <3>1. PICK pc \in {"started", "giveup"} : Goto(s, pc)
      BY <2>1, <2>5 DEF handleQuarantineLocked
    <3>2. job' = [job EXCEPT ![s].kind = "recovery", ![s].pc = pc]
      BY <1>5, <2>5, <3>1 DEF Goto
    <3> QED BY <1>1, <1>3, <1>4, <2>3, <2>4, <2>5, <3>2, RevokedMoves
  <2>6. CASE job[s].kind \in {"scheduled", "forced"} /\ ok
    <3>1. Goto(s, "begin")
      BY <2>1, <2>6 DEF handleQuarantineLocked
    <3>2. job' = [job EXCEPT ![s].kind = job[s].kind, ![s].pc = "begin"]
      BY <1>5, <3>1 DEF Goto
    <3> QED BY <1>1, <1>3, <1>4, <2>3, <2>4, <2>6, <3>2, RevokedMoves
  <2>7. CASE job[s].kind # "recovery" /\ ~(job[s].kind \in {"scheduled", "forced"} /\ ok)
    <3>1. Unlock(s)
      BY <2>1, <2>7 DEF handleQuarantineLocked
    <3> QED BY <1>1, <1>3, <1>4, <2>3, <2>4, <3>1, RevokedEnds
  <2> QED BY <2>5, <2>6, <2>7
<1> QED BY <1>6, <1>7, <1>8

-----------------------------------------------------------------------------
(* Incus, the guests and new leases.                                       *)

\* Something happens to machines in use: whatever is new has the identity of
\* the lease on the slot, and nothing disappears.
LEMMA MachineEvent ==
  ASSUME BrokerInv, NEW s \in Slots, UNCHANGED <<storeVars, processVars, access>>,
         OnlyMachinesOf(s), ~Clean(s),
         job[s].pc \notin {"verify", "inventory", "finish"},
         ops'[s] \subseteq ops[s], Present(s) \subseteq Present(s)',
         \A v \in Present(s)' : slotMatchesLeaseIdentity(vms'[s][v], slots[s])
  PROVE  Kept
<1>1. SlotInv(s) /\ BrokerTypeOK
  BY DEF BrokerInv
<1>2. slots' = slots /\ grants' = grants /\ job' = job /\ session' = session
  BY DEF storeVars, processVars
<1>3. BrokerTypeOK'
  BY <1>1, <1>2 DEF BrokerTypeOK, OnlyMachinesOf
<1>4. About(s)
  BY <1>2, SettlingOperations DEF About, OnlyMachinesOf
<1>5. Present(s)' \subseteq Guests
  BY DEF Present
<1>6. JobShape(s)' /\ RevokedJobOK(s)'
  BY <1>1, <1>2 DEF SlotInv, JobShape, RevokedJobOK
<1>7. AcquireJobOK(s)'
  BY <1>1, <1>2, <1>5 DEF SlotInv, AcquireJobOK
<1>8. CleaningProgress(s)'
  BY <1>1, <1>2 DEF SlotInv, CleaningProgress
<1>9. UntouchedIsClean(s)'
  <2>1. \A g \in grants : NotBegun(g)' <=> NotBegun(g)
    BY <1>2 DEF NotBegun, Acquires
  <2> QED BY <1>1, <1>2, <2>1 DEF SlotInv, UntouchedIsClean
<1>10. MachinesOK(s)'
  BY <1>1, <1>2, <1>5 DEF SlotInv, MachinesOK, slotMatchesLeaseIdentity
<1> QED BY <1>2, <1>3, <1>4, <1>6, <1>7, <1>8, <1>9, <1>10, OneSlot DEF SlotInv

\* An Incus operation ends, or a guest powers off.
LEMMA MachinesKept ==
  ASSUME BrokerInv, NEW s \in Slots,
         \/ \E op \in ops[s], ok \in BOOLEAN : OperationEnds(s, op, ok)
         \/ \E v \in Guests : GuestPowersOff(s, v)
  PROVE  Kept
<1>1. /\ SlotInv(s) /\ vms \in [Slots -> [Guests -> VMs]]
      /\ ops \in [Slots -> SUBSET Operations] /\ access \in [Slots -> Nat]
  BY DEF BrokerInv, BrokerTypeOK
<1>2. ASSUME NEW v \in Guests, NEW new \in VMs,
             vms' = [vms EXCEPT ![s] = [vms[s] EXCEPT ![v] = new]],
             new.st # "none" => slotMatchesLeaseIdentity(new, slots[s]),
             vms[s][v].st # "none" => new.st # "none"
      PROVE  /\ vms' \in [Slots -> [Guests -> VMs]]
             /\ \A r \in Slots \ {s} : vms'[r] = vms[r]
             /\ Present(s) \subseteq Present(s)'
             /\ \A u \in Present(s)' : slotMatchesLeaseIdentity(vms'[s][u], slots[s])
  <2>1. /\ vms'[s] = [vms[s] EXCEPT ![v] = new] /\ vms'[s] \in [Guests -> VMs]
        /\ vms' \in [Slots -> [Guests -> VMs]]
        /\ \A r \in Slots \ {s} : vms'[r] = vms[r]
    BY <1>1, <1>2
  <2>2. vms'[s][v] = new /\ \A u \in Guests \ {v} : vms'[s][u] = vms[s][u]
    BY <1>1, <2>1
  <2> QED BY <1>1, <1>2, <2>1, <2>2 DEF Present, SlotInv, MachinesOK
<1>3. CASE \E op \in ops[s], ok \in BOOLEAN : OperationEnds(s, op, ok)
  <2>1. PICK op \in ops[s], ok \in BOOLEAN : OperationEnds(s, op, ok)
    BY <1>3
  <2> DEFINE old == vms[s][op.vm]
             made == [st |-> "stopped", gen |-> op.gen, epoch |-> op.epoch]
             new == CASE ok /\ op.kind = "create" /\ old.st = "none" -> made
                      [] ok /\ op.kind = "start" /\ old.st = "stopped"
                           -> [old EXCEPT !.st = "running"]
                      [] OTHER -> old
  <2>2. op \in Operations /\ op.vm \in Guests /\ op.gen \in Nat /\ op.epoch \in Nat
        /\ slotMatchesLeaseIdentity(op, slots[s])
    BY <1>1 DEF Operations, SlotInv, MachinesOK
  <2>3. old \in VMs /\ (old.st # "none" => slotMatchesLeaseIdentity(old, slots[s]))
    BY <1>1, <2>2 DEF SlotInv, MachinesOK, Present
  <2>4. made \in VMs /\ slotMatchesLeaseIdentity(made, slots[s]) /\ made.st # "none"
    BY <2>2 DEF VMs, slotMatchesLeaseIdentity
  <2>5. LET started == [old EXCEPT !.st = "running"]
        IN  /\ started \in VMs /\ started.st # "none"
            /\ slotMatchesLeaseIdentity(started, old)
    BY <2>3 DEF VMs, slotMatchesLeaseIdentity
  <2>6. /\ new \in VMs
        /\ new.st # "none" => slotMatchesLeaseIdentity(new, slots[s])
        /\ old.st # "none" => new.st # "none"
    <3>1. CASE ok /\ op.kind = "create" /\ old.st = "none"
      BY <2>4, <3>1
    <3>2. CASE ok /\ op.kind = "start" /\ old.st = "stopped"
      <4>1. new = [old EXCEPT !.st = "running"]
        BY <3>2
      <4>2. slotMatchesLeaseIdentity(new, slots[s])
        BY <2>3, <2>5, <3>2, <4>1 DEF slotMatchesLeaseIdentity
      <4> QED BY <2>5, <4>1, <4>2
    <3>3. CASE /\ ~(ok /\ op.kind = "create" /\ old.st = "none")
               /\ ~(ok /\ op.kind = "start" /\ old.st = "stopped")
      BY <2>3, <3>3
    <3> QED BY <3>1, <3>2, <3>3
  <2>7. vms' = [vms EXCEPT ![s] = [vms[s] EXCEPT ![op.vm] = new]]
    BY <1>1, <2>1, <2>2 DEF OperationEnds
  <2> HIDE DEF new, old, made
  <2>8. /\ vms' \in [Slots -> [Guests -> VMs]]
        /\ \A r \in Slots \ {s} : vms'[r] = vms[r]
        /\ Present(s) \subseteq Present(s)'
        /\ \A u \in Present(s)' : slotMatchesLeaseIdentity(vms'[s][u], slots[s])
    BY <1>2, <2>2, <2>6, <2>7 DEF old
  <2>9. ops' = [ops EXCEPT ![s] = @ \ {op}] /\ UNCHANGED <<storeVars, processVars, access>>
    BY <2>1 DEF OperationEnds
  <2>10. /\ ops' \in [Slots -> SUBSET Operations]
         /\ ops'[s] \subseteq ops[s]
         /\ \A r \in Slots \ {s} : ops'[r] = ops[r]
    BY <1>1, <2>9
  <2>11. OnlyMachinesOf(s)
    BY <1>1, <2>8, <2>9, <2>10 DEF OnlyMachinesOf
  <2>12. ~Clean(s) /\ job[s].pc \notin {"verify", "inventory", "finish"}
    BY <1>1 DEF Clean, SlotInv, CleaningProgress
  <2> QED BY <2>8, <2>9, <2>10, <2>11, <2>12, MachineEvent
<1>4. CASE \E v \in Guests : GuestPowersOff(s, v)
  <2>1. PICK v \in Guests : GuestPowersOff(s, v)
    BY <1>4
  <2> DEFINE new == [vms[s][v] EXCEPT !.st = "stopped"]
  <2>2. vms[s][v] \in VMs /\ slotMatchesLeaseIdentity(vms[s][v], slots[s])
    BY <1>1, <2>1 DEF GuestPowersOff, SlotInv, MachinesOK, Present
  <2>3. new \in VMs /\ new.st # "none" /\ slotMatchesLeaseIdentity(new, slots[s])
    BY <2>2 DEF VMs, slotMatchesLeaseIdentity
  <2>4. vms' = [vms EXCEPT ![s] = [vms[s] EXCEPT ![v] = new]]
    BY <1>1, <2>1 DEF GuestPowersOff
  <2> HIDE DEF new
  <2>5. /\ vms' \in [Slots -> [Guests -> VMs]]
        /\ \A r \in Slots \ {s} : vms'[r] = vms[r]
        /\ Present(s) \subseteq Present(s)'
        /\ \A u \in Present(s)' : slotMatchesLeaseIdentity(vms'[s][u], slots[s])
    BY <1>2, <2>3, <2>4
  <2>6. access[s] # 0 /\ ops' = ops /\ UNCHANGED <<storeVars, processVars, access>>
    BY <2>1 DEF GuestPowersOff
  <2>7. OnlyMachinesOf(s)
    BY <1>1, <2>5, <2>6 DEF OnlyMachinesOf
  <2>8. ~Clean(s) /\ job[s].pc \notin {"verify", "inventory", "finish"}
    BY <1>1, <2>6 DEF Clean, SlotInv, CleaningProgress, Cleaning
  <2> QED BY <2>5, <2>6, <2>7, <2>8, MachineEvent
<1> QED BY <1>3, <1>4

\* A new lease finds its slot clean, and nobody works on the slot but, at
\* most, a process of an old lease that has not got past its admission.
LEMMA AcquireKept ==
  ASSUME BrokerInv, NEW s \in Slots, NEW v4 \in BOOLEAN, Acquire(s, v4)
  PROVE  Kept
<1> DEFINE n == NextLease
           slot == acquireSlot(Current[s], n, v4)
           new == [slot |-> s, gen |-> slot.gen, epoch |-> slot.epoch, lease |-> slot.lease]
<1>1. /\ AcquireV3Slot(s, v4)
      /\ session' = [session EXCEPT ![n] = [pc |-> "granted", v4 |-> v4]]
      /\ UNCHANGED <<job, machineVars>>
  BY DEF Acquire
<1>2. TypeOK /\ BrokerTypeOK /\ SlotInv(s) /\ IInv /\ Current[s] \in Slot
  BY CurrentPool DEF BrokerInv, IInv
<1>3. /\ n \in Leases /\ n \in Nat
      /\ \A g \in grants : g.lease # n /\ g.lease # 0
  <2>1. Cardinality(grants) \in Nat
    BY <1>2, FS_CardinalityType DEF TypeOK
  <2>2. \A g \in grants : g.lease \in 1..Cardinality(grants)
    BY <1>2 DEF IInv, GrantsNumbered
  <2> QED BY <1>1, <2>1, <2>2 DEF AcquireV3Slot, NextLease
<1>4. /\ grants' = grants \cup {new} /\ slots' = [Current EXCEPT ![s] = slot]
      /\ Current[s].state = "available"
  BY <1>1 DEF AcquireV3Slot, Write
<1> HIDE DEF n
<1>5. slot.state = "provisioning" /\ slot.lease = n
  BY <1>2, <1>3, AcquiredSlot
<1>6. new.slot = s /\ new.lease = n
  BY <1>5
<1> HIDE DEF slot, new
<1>7. /\ slots'[s] = slot
      /\ \A r \in Slots \ {s} : Settles(slots[r], slots'[r])
      /\ slots[s].state = "available" /\ slots[s].lease = 0
  BY <1>2, <1>4, CurrentPool, SettledPool DEF IInv, LeasedUnlessAvailable
<1>8. /\ session' \in [Leases -> Sessions]
      /\ session'[n].pc = "granted"
      /\ \A g \in grants : session'[g.lease] = session[g.lease]
  <2>1. \A g \in grants : g.lease \in Leases
    BY GrantFacts
  <2>2. [pc |-> "granted", v4 |-> v4] \in Sessions
    BY DEF Sessions
  <2> QED BY <1>1, <1>2, <1>3, <2>1, <2>2 DEF BrokerTypeOK
<1>9. BrokerTypeOK'
  BY <1>1, <1>2, <1>8 DEF BrokerTypeOK, machineVars
<1>10. \A g \in grants : NotBegun(g)' <=> NotBegun(g)
  BY <1>1, <1>8 DEF NotBegun, Acquires
<1>11. Present(s)' = {} /\ ops'[s] = {} /\ access'[s] = 0
  BY <1>1, <1>2, <1>7 DEF SlotInv, MachinesOK, Clean, Present, machineVars
<1>12. SlotInv(s)'
  <2>1. JobShape(s)' /\ CleaningProgress(s)'
    BY <1>1, <1>2, <1>11 DEF SlotInv, JobShape, CleaningProgress
  <2>2. job[s].kind \in {"none", "acquire"}
    BY <1>2, <1>7 DEF SlotInv, RevokedJobOK
  <2>3. RevokedJobOK(s)'
    BY <1>1, <2>2 DEF RevokedJobOK
  <2>4. AcquireJobOK(s)'
    <3> SUFFICES ASSUME job[s].kind = "acquire" PROVE AcquireJobOK(s)'
      BY <1>1 DEF AcquireJobOK
    <3>1. PICK h \in grants : /\ h.slot = s
                              /\ slotMatchesLeaseIdentity(job[s], h)
                              /\ job[s].lease = h.lease
                              /\ session[h.lease].pc = "working"
      BY <1>2 DEF SlotInv, AcquireJobOK
    <3>2. job[s].pc \in {"reserve", "pin"}
      BY <1>2, <1>3, <1>7, <3>1 DEF SlotInv, AcquireJobOK
    <3>3. h \in grants' /\ session'[h.lease].pc = "working" /\ slots'[s].lease # job[s].lease
      BY <1>3, <1>4, <1>5, <1>7, <1>8, <3>1
    <3> QED BY <1>1, <3>1, <3>2, <3>3 DEF AcquireJobOK
  <2>5. UntouchedIsClean(s)'
    BY <1>5, <1>7, <1>11 DEF UntouchedIsClean, Clean
  <2>6. MachinesOK(s)'
    BY <1>5, <1>7, <1>11 DEF MachinesOK
  <2> QED BY <2>1, <2>3, <2>4, <2>5, <2>6 DEF SlotInv
<1>13. ASSUME NEW r \in Slots, r # s
       PROVE  SlotInv(r)' /\ (slots'[r].state = "available" => slots[r].state # "held")
  <2>1. /\ SlotInv(r) /\ Settles(slots[r], slots'[r]) /\ job'[r] = job[r]
        /\ vms'[r] = vms[r] /\ ops'[r] = ops[r] /\ access'[r] = access[r]
    BY <1>1, <1>7, <1>13 DEF BrokerInv, machineVars
  <2>2. Present(r)' = Present(r) /\ (Clean(r)' <=> Clean(r))
    BY <2>1 DEF Present, Clean
  <2>3. JobShape(r)' /\ CleaningProgress(r)'
    BY <2>1, <2>2 DEF SlotInv, JobShape, CleaningProgress
  <2>4. AcquireJobOK(r)'
    BY <1>4, <1>8, <2>1, <2>2 DEF SlotInv, AcquireJobOK, Settles, Live
  <2>5. RevokedJobOK(r)'
    BY <2>1 DEF SlotInv, RevokedJobOK, Settles, Live, slotMatchesLeaseIdentity
  <2>6. UntouchedIsClean(r)'
    BY <1>4, <1>6, <1>10, <1>13, <2>1, <2>2
    DEF SlotInv, UntouchedIsClean, Settles, Live
  <2>7. MachinesOK(r)'
    BY <2>1, <2>2 DEF SlotInv, MachinesOK, Settles, Live, slotMatchesLeaseIdentity
  <2>8. slots'[r].state = "available" => slots[r].state # "held"
    BY <2>1 DEF Settles, Live
  <2> QED BY <2>3, <2>4, <2>5, <2>6, <2>7, <2>8 DEF SlotInv
<1> QED BY <1>7, <1>9, <1>12, <1>13 DEF Kept

-----------------------------------------------------------------------------
\* While a lease is on its slot, nothing changes the generation of the slot.
LEMMA GrantsStayCurrent ==
  ASSUME IInv, GrantsCurrent, [Next]_storeVars
  PROVE  GrantsCurrent'
<1>1. /\ TypeOK /\ LeasedUnlessAvailable /\ GrantsNumbered
      /\ \A g \in grants : g.slot \in Slots
  BY DEF IInv, TypeOK, Grant
<1>2. \A g \in grants : g.lease \in Leases /\ g.lease # 0 /\ g.lease # NextLease
  <2>1. Cardinality(grants) \in Nat
    BY <1>1, FS_CardinalityType DEF TypeOK
  <2>2. \A g \in grants : g.lease \in 1..Cardinality(grants)
    BY <1>1 DEF GrantsNumbered
  <2> QED BY <2>1, <2>2 DEF GrantsCurrent, NextLease
<1>3. CASE \E s \in Slots, owner \in BOOLEAN : AcquireV3Slot(s, owner)
  <2>1. PICK s \in Slots, owner \in BOOLEAN : AcquireV3Slot(s, owner)
    BY <1>3
  <2> DEFINE slot == acquireSlot(Current[s], NextLease, owner)
             new == [slot |-> s, gen |-> slot.gen, epoch |-> slot.epoch,
                     lease |-> slot.lease]
  <2>2. /\ grants' = grants \cup {new} /\ NextLease \in Leases
        /\ slots' = [Current EXCEPT ![s] = slot]
    BY <2>1 DEF AcquireV3Slot, Write
  <2>3. slots'[s].lease = NextLease /\ \A r \in Slots \ {s} : slots'[r] = Current[r]
    BY <2>1, AcquirePreservesIInv
  <2>4. slots'[s] = slot
    BY <1>1, <2>2, CurrentPool
  <2>5. new.slot = s /\ new.gen = slot.gen /\ new.lease = slot.lease
    OBVIOUS
  <2> HIDE DEF slot, new
  <2> SUFFICES ASSUME NEW g \in grants'
               PROVE  /\ g.lease \in Leases
                      /\ slots'[g.slot].lease = g.lease => slots'[g.slot].gen = g.gen
    BY DEF GrantsCurrent
  <2>6. CASE g = new
    BY <2>2, <2>3, <2>4, <2>5, <2>6
  <2>7. CASE g \in grants /\ g.slot = s
    BY <1>2, <2>3, <2>7
  <2>8. CASE g \in grants /\ g.slot # s
    BY <1>1, <1>2, <2>3, <2>8, CurrentPool DEF GrantsCurrent
  <2> QED BY <2>2, <2>6, <2>7, <2>8
<1>4. ASSUME grants' = grants, \A r \in Slots : Keeps(slots[r], slots'[r])
      PROVE  GrantsCurrent'
  BY <1>1, <1>2, <1>4 DEF GrantsCurrent, Keeps
<1>5. CASE Rewriting
  BY <1>1, <1>4, <1>5, RewritingKeeps
<1>6. CASE \/ Inspect \/ FenceExpectedPool \/ OpenAdmission
           \/ \E g \in grants : RequesterGone(g)
  <2>1. slots' \in {slots, Current} /\ grants' = grants
    BY <1>6, OperatorPreservesIInv
  <2> QED BY <1>1, <2>1, CurrentPool DEF GrantsCurrent
<1>7. CASE UNCHANGED storeVars
  BY <1>7 DEF storeVars, GrantsCurrent
<1> QED BY <1>3, <1>5, <1>6, <1>7 DEF Next, Rewriting

\* Every step of the broker keeps the invariant of every slot.
LEMMA StepKept ==
  ASSUME BrokerInv, [BrokerNext]_brokerVars
  PROVE  Kept
<1>1. CASE \E s \in Slots, v4 \in BOOLEAN : Acquire(s, v4)
  BY <1>1, AcquireKept
<1>2. ASSUME NEW g \in grants,
             \/ SessionStep(g) \/ SessionDies(g) \/ EnterAcquire(g) \/ AcquireStep(g)
             \/ EnterQuarantine(g) \/ ReleaseSlot(g) \/ RevokeExpectedSlot(g)
             \/ \E request \in {"release", "revoke"} : EnterDrain(request, g)
             \/ RecoverExpectedSlot(g) \/ Heartbeat(g)
      PROVE  Kept
  BY <1>2, SessionKept, AdmissionRejectedKept, SessionDiesKept, EnterAcquireKept,
     AcquireStepKept, HoldKept, EnterQuarantineKept, RevokedBeginsKept
<1>3. ASSUME NEW s \in Slots,
             \/ ReapDraining(s)
             \/ \E force \in BOOLEAN : RecoverScheduled(s, force)
             \/ JobStep(s) \/ JobDies(s)
             \/ \E op \in ops[s], ok \in BOOLEAN : OperationEnds(s, op, ok)
             \/ \E v \in Guests : GuestPowersOff(s, v)
      PROVE  Kept
  BY <1>3, RevokedBeginsKept, CleanStepKept, CompletionKept, RecoveryStepKept,
     MachinesKept
  DEF JobStep
<1>4. CASE DrainAll \/ TimePasses \/ UNCHANGED brokerVars
  <2>1. /\ BeginDrainAll \/ Tick \/ UNCHANGED storeVars
        /\ UNCHANGED <<job, session, machineVars>>
    BY <1>4 DEF DrainAll, TimePasses, brokerVars, processVars, storeVars, machineVars
  <2>2. session' \in [Leases -> Sessions] /\ \A h \in grants : Calm(h)
    BY <2>1 DEF BrokerInv, BrokerTypeOK, Calm, NotBegun, Acquires
  <2> QED BY <2>1, <2>2, SettlingOperations, SettlingStep
<1> QED BY <1>1, <1>2, <1>3, <1>4 DEF BrokerNext

\* The inductive invariant of the broker holds in every state.
THEOREM BrokerInvariant == BrokerSpec => []BrokerInv
<1>1. BrokerInit => BrokerInv
  <2> SUFFICES ASSUME BrokerInit PROVE BrokerInv
    OBVIOUS
  <2>1. IInv /\ grants = {}
    BY InitIInv DEF BrokerInit, Init
  <2>2. NoJob \in Jobs /\ NoVM \in VMs /\ [pc |-> "none", v4 |-> FALSE] \in Sessions
    BY DEF NoJob, Jobs, NoVM, VMs, Sessions
  <2>3. BrokerTypeOK
    BY <2>2 DEF BrokerInit, BrokerTypeOK
  <2>4. ASSUME NEW s \in Slots PROVE SlotInv(s)
    <3>1. job[s] = NoJob /\ ops[s] = {} /\ access[s] = 0 /\ slots[s] = FreshSlot
      BY DEF BrokerInit, Init
    <3>2. Present(s) = {}
      BY DEF BrokerInit, Present, NoVM
    <3>3. JobShape(s) /\ AcquireJobOK(s) /\ RevokedJobOK(s) /\ CleaningProgress(s)
      BY <3>1
      DEF JobShape, AcquireJobOK, RevokedJobOK, CleaningProgress, NoJob, Cleaning,
          Provisioning
    <3>4. UntouchedIsClean(s) /\ MachinesOK(s)
      BY <2>1, <3>1, <3>2 DEF UntouchedIsClean, MachinesOK, Clean, FreshSlot
    <3> QED BY <3>3, <3>4 DEF SlotInv
  <2> QED BY <2>1, <2>3, <2>4 DEF BrokerInv, GrantsCurrent
<1>2. BrokerInv /\ [BrokerNext]_brokerVars => BrokerInv'
  <2> SUFFICES ASSUME BrokerInv, [BrokerNext]_brokerVars PROVE BrokerInv'
    OBVIOUS
  <2>1. Kept
    BY StepKept
  <2>2. [Next]_storeVars /\ IInv /\ GrantsCurrent
    BY BrokerStepIsStoreStep DEF BrokerInv, IInv
  <2>3. IInv' /\ GrantsCurrent'
    BY <2>2, NextIInv, GrantsStayCurrent
  <2> QED BY <2>1, <2>3 DEF BrokerInv, Kept
<1> QED BY <1>1, <1>2, PTL DEF BrokerSpec

\* A slot that can be acquired is empty: no machine, no access and no Incus
\* operation of an earlier lease is left, whichever process died when.
THEOREM AvailableSlotsAreClean == BrokerSpec => []AvailableIsClean
<1>1. BrokerInv => AvailableIsClean
  BY DEF BrokerInv, SlotInv, MachinesOK, AvailableIsClean
<1> QED BY <1>1, BrokerInvariant, PTL

\* Machines, running operations and access always carry the identity of the
\* lease on their slot, so the markers that a cleanup insists on match.
THEOREM MachinesAreTheLeases == BrokerSpec => []MachinesBelongToLease
<1>1. BrokerInv => MachinesBelongToLease
  BY DEF BrokerInv, SlotInv, MachinesOK, MachinesBelongToLease
<1> QED BY <1>1, BrokerInvariant, PTL

\* A cleanup works only on the lease that it saw when it took the lock, and
\* only while that lease drains or recovers.
THEOREM CleanupsAreOfRevokedLeases == BrokerSpec => []CleansOnlyRevoked
<1>1. BrokerInv => CleansOnlyRevoked
  <2> SUFFICES ASSUME BrokerInv, NEW s \in Slots, At(s, Cleaning \cup {"fence", "finish"})
               PROVE  /\ slots[s].state = (IF job[s].kind = "drain" THEN "draining"
                                                                    ELSE "recovering")
                      /\ slotMatchesLeaseIdentity(slots[s], job[s])
    BY DEF CleansOnlyRevoked
  <2>1. SlotInv(s)
    BY DEF BrokerInv
  <2>2. job[s].kind \in {"drain", "recovery"} /\ job[s].pc # "quarantine"
    BY <2>1 DEF At, SlotInv, JobShape, Cleaning
  <2> QED BY <2>1, <2>2 DEF SlotInv, RevokedJobOK
<1> QED BY <1>1, BrokerInvariant, PTL

-----------------------------------------------------------------------------
(* The contract of a slot.                                                 *)

\* In every state the phase of a slot is told by its state alone: no slot
\* breaks the promise of its state.
Seen(st) == CASE st = "available"    -> "free"
              [] st = "provisioning" -> "preparing"
              [] st = "held"         -> "usable"
              [] OTHER               -> "revoked"

LEMMA PhaseIsState ==
  ASSUME BrokerInv, NEW s \in Slots
  PROVE  Phase(s) = Seen(slots[s].state)
<1>1. SlotInv(s) /\ slots[s].state \in States
  BY DEF BrokerInv, IInv, TypeOK, Slot
<1>2. slots[s].state = "available" => Clean(s)
  BY <1>1 DEF SlotInv, MachinesOK
<1>3. slots[s].state = "held" => Usable(s)
  BY <1>1 DEF SlotInv, MachinesOK, Usable
<1> QED BY <1>1, <1>2, <1>3 DEF Phase, Seen, States

\* What a step does to the state and the lease of one slot.
LEMMA SlotMoves ==
  ASSUME BrokerInv, [BrokerNext]_brokerVars, NEW s \in Slots
  PROVE  \/ /\ slots'[s].lease = slots[s].lease
            /\ Past(s)' = Past(s)
            /\ (slots'[s].state = "available") = (slots[s].state = "available")
            /\ slots'[s].state \in Live => slots[s].state \in Live
            /\ slots'[s].state = "provisioning" => slots[s].state = "provisioning"
         \/ /\ slots'[s].lease = 0 /\ slots'[s].state = "available"
            /\ slots[s].state # "held"
            /\ Past(s)' = Past(s)
         \/ /\ slots[s].state = "available" /\ slots'[s].state = "provisioning"
            /\ slots'[s].lease # 0 /\ slots'[s].lease \notin Past(s)
            /\ Past(s)' = Past(s) \cup {slots'[s].lease}
<1>1. /\ IInv /\ TypeOK /\ LeasedUnlessAvailable /\ GrantsNumbered
      /\ [Next]_storeVars
  BY BrokerStepIsStoreStep DEF BrokerInv, IInv
<1>2. slots'[s].state = "available" => slots[s].state # "held"
  BY StepKept DEF Kept
<1>3. ASSUME grants' = grants, Keeps(slots[s], slots'[s])
      PROVE  \/ /\ slots'[s].lease = slots[s].lease
                /\ Past(s)' = Past(s)
                /\ (slots'[s].state = "available") = (slots[s].state = "available")
                /\ slots'[s].state \in Live => slots[s].state \in Live
                /\ slots'[s].state = "provisioning" => slots[s].state = "provisioning"
             \/ /\ slots'[s].lease = 0 /\ slots'[s].state = "available"
                /\ slots[s].state # "held"
                /\ Past(s)' = Past(s)
  BY <1>2, <1>3 DEF Keeps, Past
<1>4. Keeps(slots[s], slots[s]) /\ Keeps(slots[s], Current[s])
  <2>1. slots[s] \in Slot /\ slots[s].gen \in Nat
    BY <1>1 DEF TypeOK, Slot
  <2> QED BY <1>1, <2>1, CurrentKeeps DEF Keeps
<1>5. CASE Rewriting
  BY <1>1, <1>3, <1>5, RewritingKeeps
<1>6. CASE \/ Inspect \/ FenceExpectedPool \/ OpenAdmission
           \/ \E g \in grants : RequesterGone(g)
  BY <1>1, <1>3, <1>4, <1>6, OperatorPreservesIInv
<1>7. CASE UNCHANGED storeVars
  BY <1>3, <1>4, <1>7 DEF storeVars
<1>8. CASE \E r \in Slots, owner \in BOOLEAN : AcquireV3Slot(r, owner)
  <2>1. PICK r \in Slots, owner \in BOOLEAN : AcquireV3Slot(r, owner)
    BY <1>8
  <2> DEFINE n == NextLease
             slot == acquireSlot(Current[r], n, owner)
             new == [slot |-> r, gen |-> slot.gen, epoch |-> slot.epoch,
                     lease |-> slot.lease]
  <2>2. /\ grants' = grants \cup {new} /\ Current[r].state = "available"
        /\ slots' = [Current EXCEPT ![r] = slot]
    BY <2>1 DEF AcquireV3Slot, Write
  <2>3. /\ slots'[r] = slot /\ \A q \in Slots \ {r} : slots'[q] = Current[q]
        /\ slots[r].state = "available"
    BY <1>1, <2>1, <2>2, AcquirePreservesIInv, CurrentPool
  <2>4. n \in Nat /\ n # 0 /\ \A g \in grants : g.lease # n
    <3>1. Cardinality(grants) \in Nat
      BY <1>1, FS_CardinalityType DEF TypeOK
    <3>2. \A g \in grants : g.lease \in 1..Cardinality(grants)
      BY <1>1 DEF GrantsNumbered
    <3> QED BY <3>1, <3>2 DEF NextLease
  <2> HIDE DEF n
  <2>5. slot.state = "provisioning" /\ slot.lease = n
    BY <1>1, <2>4, CurrentPool, AcquiredSlot
  <2>6. new.slot = r /\ new.lease = n
    BY <2>5
  <2> HIDE DEF slot, new
  <2>7. CASE s = r
    <3>1. Past(s)' = Past(s) \cup {n} /\ n \notin Past(s)
      BY <2>2, <2>4, <2>6, <2>7 DEF Past
    <3> QED BY <2>3, <2>4, <2>5, <2>7, <3>1
  <2>8. CASE s # r
    <3>1. Past(s)' = Past(s)
      BY <2>2, <2>6, <2>8 DEF Past
    <3> QED BY <1>2, <1>4, <2>3, <2>8, <3>1 DEF Keeps
  <2> QED BY <2>7, <2>8
<1> QED BY <1>1, <1>5, <1>6, <1>7, <1>8 DEF Next, Rewriting

\* Every slot of the broker implements the safety part of DisposableLease.
THEOREM BrokerImplementsLease == BrokerSpec => BrokerKeepsLeaseContract
<1>1. BrokerInit /\ BrokerInv => \A s \in Slots : Contract(s)!Init
  <2> SUFFICES ASSUME BrokerInit, BrokerInv, NEW s \in Slots PROVE Contract(s)!Init
    OBVIOUS
  <2>1. slots[s].state = "available" /\ slots[s].lease = 0
    BY DEF BrokerInit, Init, FreshSlot
  <2> QED BY <2>1, PhaseIsState DEF Seen, Contract!Init
<1>2. ASSUME BrokerInv, BrokerInv', [BrokerNext]_brokerVars
      PROVE  \A s \in Slots : UNCHANGED Contract(s)!vars \/ Contract(s)!Next
  <2> SUFFICES ASSUME NEW s \in Slots PROVE UNCHANGED Contract(s)!vars \/ Contract(s)!Next
    OBVIOUS
  <2>1. Phase(s) = Seen(slots[s].state)
    BY <1>2, PhaseIsState
  <2>2. Phase(s)' = Seen(slots'[s].state)
    <3>1. SlotInv(s)' /\ slots'[s].state \in States
      BY <1>2 DEF BrokerInv, IInv, TypeOK, Slot
    <3>2. slots'[s].state = "available" => Clean(s)'
      BY <3>1 DEF SlotInv, MachinesOK
    <3>3. slots'[s].state = "held" => Usable(s)'
      BY <3>1 DEF SlotInv, MachinesOK, Usable
    <3> QED BY <3>1, <3>2, <3>3 DEF Phase, Seen, States
  <2>3. slots[s].state \in States /\ slots'[s].state \in States
        /\ (slots[s].lease = 0 <=> slots[s].state = "available")
    BY <1>2 DEF BrokerInv, IInv, TypeOK, Slot, LeasedUnlessAvailable
  <2>4. CASE /\ slots'[s].lease = slots[s].lease
             /\ Past(s)' = Past(s)
             /\ (slots'[s].state = "available") = (slots[s].state = "available")
             /\ slots'[s].state \in Live => slots[s].state \in Live
             /\ slots'[s].state = "provisioning" => slots[s].state = "provisioning"
    BY <2>1, <2>2, <2>3, <2>4
    DEF Seen, States, Live, Contract!vars, Contract!Next, Contract!Admit, Contract!Revoke
  <2>5. CASE /\ slots'[s].lease = 0 /\ slots'[s].state = "available"
             /\ slots[s].state # "held"
             /\ Past(s)' = Past(s)
    BY <2>1, <2>2, <2>3, <2>5
    DEF Seen, States, Contract!vars, Contract!Next, Contract!Reject, Contract!Reclaim
  <2>6. CASE /\ slots[s].state = "available" /\ slots'[s].state = "provisioning"
             /\ slots'[s].lease # 0 /\ slots'[s].lease \notin Past(s)
             /\ Past(s)' = Past(s) \cup {slots'[s].lease}
    BY <2>1, <2>2, <2>6 DEF Seen, Contract!Next, Contract!Grant
  <2> QED BY <1>2, <2>4, <2>5, <2>6, SlotMoves
<1>3. BrokerSpec => BrokerInit /\ BrokerInv
  BY BrokerInvariant, PTL DEF BrokerSpec
<1> QED BY <1>1, <1>2, <1>3, BrokerInvariant, PTL DEF BrokerSpec, BrokerKeepsLeaseContract
=============================================================================
