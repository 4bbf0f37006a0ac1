----------------------------- MODULE LeaseStore -----------------------------
(***************************************************************************)
(* The lease store of the test-vms broker (LeaseStore in lease.go).  Every *)
(* operation runs under one file lock: it loads the pool, expires stale    *)
(* leases, checks its own conditions and writes the pool back.  It is one  *)
(* atomic step here.  An operation that returns an error writes nothing    *)
(* and has no action.                                                      *)
(*                                                                         *)
(* Callers are as general as possible: every grant ever issued may be used *)
(* at any time, however old, an operator may act on a pool that it         *)
(* inspected any number of steps ago, and an acquire process may die at    *)
(* any moment.                                                             *)
(***************************************************************************)
EXTENDS LeaseSlot, FiniteSets

CONSTANTS
    Slots,       \* the slots of the pool
    MaxLeases    \* bound: number of leases that are ever granted

ASSUME MaxLeasesAssumption == MaxLeases \in Nat

VARIABLES
    slots,    \* the pool as the last operation wrote it
    grants,   \* every grant ever handed out; clients may keep them for ever
    gone,     \* leases whose acquire process has exited
    closed,   \* AdmissionClosed
    plan,     \* the pool scope that an operator inspected last
    scope     \* history: the scope approved by the present admission fence

storeVars == <<slots, grants, gone, closed, plan, scope>>

Leases == 1..MaxLeases

Grant == [slot : Slots, gen : Nat, epoch : Nat, lease : Nat]

\* What PoolOperationBinding digests of a slot.
Binding == [state : States, gen : Nat, epoch : Nat, lease : Nat]

\* No slot has generation 0, so no pool matches this scope.
NoPlan == [s \in Slots |->
              [state |-> "available", gen |-> 0, epoch |-> 0, lease |-> 0]]

\* Fault: operations work on the pool as it was written.
FaultNoExpiry == slots

\* The pool that an operation sees once withLock has expired stale leases.
Current == [s \in Slots |-> expireStale(slots[s], gone)]

PoolOperationBinding ==
    [s \in Slots |-> [state |-> Current[s].state, gen |-> Current[s].gen,
                      epoch |-> Current[s].epoch, lease |-> Current[s].lease]]

Write(s, slot) == slots' = [Current EXCEPT ![s] = slot]

\* The leases are numbered in the order in which they are granted.
NextLease == Cardinality(grants) + 1

Init == /\ slots = [s \in Slots |-> FreshSlot]
        /\ grants = {}
        /\ gone = {}
        /\ closed = FALSE
        /\ plan = NoPlan
        /\ scope = NoPlan

-----------------------------------------------------------------------------
(* Requests of the lease's own client, authorised by its grant.            *)

\* mutateOwned: LeaseID, epoch and capability must all still be the slot's.
Owns(g) == /\ g \in grants
           /\ Current[g.slot].lease = g.lease
           /\ Current[g.slot].epoch = g.epoch

Rest == UNCHANGED <<grants, gone, closed, plan, scope>>

\* Fault: the admission fence is not consulted.
FaultAcquiresFenced(s, owner) ==
    /\ NextLease \in Leases
    /\ Current[s].state = "available"
    /\ LET slot == acquireSlot(Current[s], NextLease, owner)
       IN  /\ Write(s, slot)
           /\ grants' = grants \cup {[slot |-> s, gen |-> slot.gen,
                                      epoch |-> slot.epoch, lease |-> slot.lease]}
    /\ UNCHANGED <<gone, closed, plan, scope>>

\* acquire-v3 leaves AcquireOwner empty, acquire-v4 sets it.
AcquireV3Slot(s, owner) ==
    /\ NextLease \in Leases
    /\ ~closed
    /\ Current[s].state = "available"
    /\ LET slot == acquireSlot(Current[s], NextLease, owner)
       IN  /\ Write(s, slot)
           /\ grants' = grants \cup {[slot |-> s, gen |-> slot.gen,
                                      epoch |-> slot.epoch, lease |-> slot.lease]}
    /\ UNCHANGED <<gone, closed, plan, scope>>

AbortProvisioning(g) ==
    /\ Owns(g)
    /\ Current[g.slot].state = "provisioning"
    /\ Write(g.slot, Freed(Current[g.slot]))
    /\ Rest

\* Fault: a late MarkHeld is accepted in any state.
FaultHoldsAnyState(g) ==
    /\ Owns(g)
    /\ Write(g.slot, Held(Current[g.slot]))
    /\ Rest

MarkHeld(g) ==
    /\ Owns(g)
    /\ Current[g.slot].state = "provisioning"
    /\ Write(g.slot, Held(Current[g.slot]))
    /\ Rest

Renew(g) ==
    /\ Owns(g)
    /\ Current[g.slot].state \in Live
    /\ Write(g.slot, Renewed(Current[g.slot]))
    /\ Rest

\* The requester acknowledged the grant: the lease outlives its process.
Handoff(g) ==
    /\ Owns(g)
    /\ Current[g.slot].state = "held"
    /\ Write(g.slot, [Current[g.slot] EXCEPT !.owner = FALSE])
    /\ Rest

BeginDrain(g) ==
    /\ Owns(g)
    /\ Current[g.slot].state \in Live
    /\ Write(g.slot, [Current[g.slot] EXCEPT !.state = "draining"])
    /\ Rest

Quarantine(g) ==
    /\ Owns(g)
    /\ Current[g.slot].state # "draining"
    /\ Write(g.slot, Quarantined(Current[g.slot]))
    /\ Rest

-----------------------------------------------------------------------------
(* Work of the broker on a slot, addressed by the slot alone.              *)

\* Fault: the end of a drain does not look at the state of the slot.
FaultFreesAnyState(s, ok) ==
    /\ Current[s].state # "available"
    /\ Write(s, IF ok THEN Freed(Current[s]) ELSE Quarantined(Current[s]))
    /\ Rest

FinishDrain(s, ok) ==
    /\ Current[s].state = "draining"
    /\ Write(s, IF ok THEN Freed(Current[s]) ELSE Quarantined(Current[s]))
    /\ Rest

SetQuarantineIncident(s) ==
    /\ Current[s].state \in {"quarantined", "recovering"}
    /\ Write(s, WithIncident(Current[s]))
    /\ Rest

\* The reaper passes force = FALSE and waits for the scheduled time.
BeginScheduledRecovery(s, force) ==
    /\ Current[s].state = "quarantined"
    /\ force \/ dueForRecovery(Current[s])
    /\ Write(s, Recovering(Current[s]))
    /\ Rest

InterruptRecovery(s) ==
    /\ Current[s].state = "recovering"
    /\ Write(s, Quarantined(Current[s]))
    /\ Rest

FinishRecovery(s, ok) ==
    /\ Current[s].state = "recovering"
    /\ Write(s, IF ok THEN Recovered(Current[s]) ELSE RecoveryFailed(Current[s]))
    /\ Rest

\* Every operation that changes nothing itself still writes the expiry.
Status == slots' = Current /\ Rest

-----------------------------------------------------------------------------
(* Requests of the operator.                                               *)

\* Inspect reads the pool and changes nothing.
Inspect == /\ plan' = PoolOperationBinding
           /\ UNCHANGED <<slots, grants, gone, closed, scope>>

\* LeaseIdentity.validate refuses a target that was never leased.
Expected(s, target) == /\ target.epoch # 0
                       /\ slotMatchesLeaseIdentity(Current[s], target)

BeginExpectedDrain(s, target) ==
    /\ Expected(s, target)
    /\ Current[s].state \in Live
    /\ Write(s, Drained(Current[s], "other"))
    /\ Rest

BeginExpectedRecovery(s, target) ==
    /\ Expected(s, target)
    /\ Current[s].state = "quarantined"
    /\ Write(s, Recovering(Current[s]))
    /\ Rest

BeginDrainSlot(s) ==
    /\ Current[s].state \in Live
    /\ Write(s, Drained(Current[s], "other"))
    /\ Rest

BeginDrainAll ==
    /\ slots' = [s \in Slots |-> IF Current[s].state \in Live
                                 THEN Drained(Current[s], "other")
                                 ELSE Current[s]]
    /\ Rest

FenceExpectedPool ==
    /\ PoolOperationBinding = plan
    /\ slots' = Current
    /\ closed' = TRUE
    /\ scope' = plan
    /\ UNCHANGED <<grants, gone, plan>>

OpenAdmission ==
    /\ slots' = Current
    /\ closed' = FALSE
    /\ scope' = NoPlan
    /\ UNCHANGED <<grants, gone, plan>>

-----------------------------------------------------------------------------
(* The environment.                                                        *)

\* An acquire process exits: it finished, was killed, or lost its requester.
\* The exit is observable only while the slot names the process as its owner.
RequesterGone(g) ==
    /\ g \in grants
    /\ slots[g.slot].lease = g.lease /\ slots[g.slot].owner
    /\ gone' = gone \cup {g.lease}
    /\ UNCHANGED <<slots, grants, closed, plan, scope>>

Tick == /\ slots' = [s \in Slots |-> Aged(slots[s])]
        /\ Rest

Next ==
    \/ \E s \in Slots, owner \in BOOLEAN : AcquireV3Slot(s, owner)
    \/ \E g \in grants :
          \/ AbortProvisioning(g)
          \/ MarkHeld(g)
          \/ Renew(g)
          \/ Handoff(g)
          \/ BeginDrain(g)
          \/ Quarantine(g)
          \/ RequesterGone(g)
    \/ \E s \in Slots :
          \/ \E ok \in BOOLEAN : FinishDrain(s, ok) \/ FinishRecovery(s, ok)
          \/ \E force \in BOOLEAN : BeginScheduledRecovery(s, force)
          \/ SetQuarantineIncident(s)
          \/ InterruptRecovery(s)
          \/ BeginExpectedDrain(s, plan[s])
          \/ BeginExpectedRecovery(s, plan[s])
          \/ BeginDrainSlot(s)
    \/ BeginDrainAll
    \/ FenceExpectedPool
    \/ OpenAdmission
    \/ Inspect
    \/ Status
    \/ Tick

Spec == Init /\ [][Next]_storeVars

-----------------------------------------------------------------------------
\* The types of the pool and of what clients and operators remember of it: the
\* counters of a slot start at 1 and 0 and its recovery attempts stay within
\* the table of delays.
TypeOK ==
    /\ slots \in [Slots -> Slot]
    /\ grants \subseteq Grant
    /\ IsFiniteSet(grants)
    /\ gone \subseteq Nat
    /\ closed \in BOOLEAN
    /\ plan \in [Slots -> Binding]
    /\ scope \in [Slots -> Binding]

\* A lease that may still use its slot.
HasAuthority(g) == /\ slots[g.slot].lease = g.lease
                   /\ slots[g.slot].state \in Live

\* The generation and the epoch of a slot name at most one lease for ever, so
\* an operator action that carries them cannot hit a replacement (the promise
\* of the LeaseIdentity type).
IdentityNamesOneLease ==
    \A g, h \in grants :
       g.slot = h.slot /\ (g.epoch = h.epoch \/ g.gen = h.gen) => g = h

\* What an operator drains or recovers by its counters is the very lease that
\* it inspected, whatever happened to the slot since.
ExpectedHitsPlannedLease ==
    \A s \in Slots :
       Expected(s, plan[s]) /\ Current[s].lease # 0
          => Current[s].lease = plan[s].lease

\* While admission is fenced, every lease with authority is one that the
\* operator saw and approved: no acquire slipped in between the inspection and
\* the fence, and none after it.
FenceCoversLiveLeases ==
    closed => \A s \in Slots :
                 slots[s].state \in Live => slots[s].lease = scope[s].lease

\* A lease that lost its authority never gets it back, not by a late
\* heartbeat, a late MarkHeld or any recovery.
NoRevival ==
    [][\A g \in grants : ~HasAuthority(g) => ~HasAuthority(g)']_storeVars

\* Once the deadline of a lease has passed or its requester has died, no step
\* extends it: every operation drains it before it does anything else.
StaleLeaseOnlyDrains ==
    [][\A s \in Slots :
          Stale(slots[s], gone) /\ slots'[s] # slots[s]
             => slots'[s].lease # slots[s].lease
                \/ slots'[s].state \notin Live
                \/ slots'[s].expires <= slots[s].expires]_storeVars

\* A slot changes hands only through "available": while a lease is recorded,
\* nobody else's replaces it, and the slot returns to admission only out of
\* a drain, a recovery, or a rejected admission.
HandsOverThroughAvailable ==
    [][\A s \in Slots :
          /\ slots[s].lease # slots'[s].lease
                => "available" \in {slots[s].state, slots'[s].state}
          /\ slots'[s].state = "available" /\ slots[s].state # "available"
                => Current[s].state \in {"draining", "recovering", "provisioning"}
      ]_storeVars
=============================================================================
