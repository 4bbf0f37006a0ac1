----------------------------- MODULE LeasePool -----------------------------
(***************************************************************************)
(* How the lease store keeps its pool on disk (load, writePool and the     *)
(* resize operations of lease.go).  The pool lives in one file and the     *)
(* recovery state of its slots once more in a journal beside it.  Both are *)
(* replaced atomically, but one after the other, so a crash can leave a    *)
(* new journal with an old pool.  Every load merges the two.               *)
(*                                                                         *)
(* The pool can grow and shrink, and an operator can rebuild it when it    *)
(* does not load any more.  Deadlines play no part: a lease may expire at  *)
(* any time.                                                               *)
(***************************************************************************)
EXTENDS LeaseSlot, FiniteSets, TLC

CONSTANTS
    MaxSlots,     \* bound: size of the pool
    PoolLeases,   \* bound: number of leases that are ever granted
    FaultSets     \* the sets of faults a behaviour may show, subsets of Faults

\* "crash": the broker dies between the two writes.  "rewrite": the previous
\* release of the broker, which does not know the recovery fields, rewrites the
\* pool file.
Faults == {"crash", "rewrite"}

ASSUME PoolAssumption == /\ MaxSlots \in Nat \ {0} /\ PoolLeases \in Nat
                         /\ FaultSets \subseteq SUBSET Faults

VARIABLES
    file,      \* the slots in the pool file, in the order of their names
    journal,   \* the entries of the recovery journal
    count,     \* SlotCount of the configuration in force
    writing,   \* the pool that is being written: its journal is in place
    moved,     \* what an operator's rebuild has moved out of the way so far
    before,    \* history: the pool that the present writer loaded
    granted,   \* history: the identity of every lease
    faults     \* the faults of this behaviour

poolVars == <<file, journal, count, writing, moved, before, granted, faults>>

Counts == 1..MaxSlots

\* There is no pool file, or nobody is writing one.  A written pool has slots.
NoPool == <<>>

\* The pool lock is free.
Unlocked == writing = NoPool /\ moved = "nothing"

-----------------------------------------------------------------------------
(* Reading and writing.                                                    *)

slotHasRecoveryMetadata(slot) ==
    \/ slot.state \in {"quarantined", "recovering"}
    \/ slot.incident
    \/ slot.attempt # 0
    \/ slot.nextRec # NoTime

RecoveryEntry(i, slot) ==
    [slot |-> i, gen |-> slot.gen, epoch |-> slot.epoch, state |-> slot.state,
     incident |-> slot.incident, attempt |-> slot.attempt,
     nextRec |-> slot.nextRec]

JournalOf(pool) ==
    {RecoveryEntry(i, pool[i]) :
        i \in {j \in DOMAIN pool : slotHasRecoveryMetadata(pool[j])}}

\* Fault: the state of the slot does not matter.
FaultEntryAnyState(entry, i, slot) ==
    entry.slot = i /\ slotMatchesLeaseIdentity(slot, entry)

\* An entry describes the slot it names only while nothing else has happened
\* to the slot.
EntryApplies(entry, i, slot) ==
    /\ entry.slot = i
    /\ slotMatchesLeaseIdentity(slot, entry)
    /\ entry.state = slot.state

\* Fault: the pool file is believed as it is.
FaultNoMerge(pool) == pool

mergeRecoveryJournal(pool) ==
    [i \in DOMAIN pool |->
        IF \E e \in journal : EntryApplies(e, i, pool[i])
        THEN LET e == CHOOSE e \in journal : EntryApplies(e, i, pool[i])
             IN  [pool[i] EXCEPT !.incident = e.incident, !.attempt = e.attempt,
                                 !.nextRec = e.nextRec]
        ELSE pool[i]]

\* ErrCorruptLeaseState: no operation but the rebuild gets past load.
Readable(e) == e.state \in {"available", "quarantined", "recovering"}

Corrupt == \E e \in journal : ~Readable(e)

Loaded == mergeRecoveryJournal(file)

\* reconcileSlotCount: a pool that is too long is refused, not cut.
Reconciled == [i \in 1..count |->
                  IF i \in DOMAIN file THEN Loaded[i] ELSE FreshSlot]

\* The pool as the next holder of the lock will see it, or as the present one
\* found it.
Seen == IF Unlocked THEN Loaded ELSE before

\* The journal goes first.  The lock is kept until the pool has followed.
writePool(pool) ==
    /\ journal' = JournalOf(pool)
    /\ writing' = pool
    /\ before' = Seen
    /\ moved' = "nothing"
    /\ UNCHANGED <<file, count, faults>>

PoolReplaced ==
    /\ writing # NoPool
    /\ file' = writing
    /\ writing' = NoPool
    /\ before' = NoPool
    /\ UNCHANGED <<journal, count, moved, granted, faults>>

-----------------------------------------------------------------------------
(* The operations of LeaseStore on one slot, by the state they start from. *)
(* A stale lease drains at any time.  A retained (legacy) slot is neither  *)
(* provisioned nor recovered.                                              *)

NextPoolLease == Cardinality(granted) + 1

SlotSteps(slot) ==
    CASE slot.state = "provisioning" ->
              {Freed(slot), Drained(slot, "other"), Quarantined(slot)}
              \cup (IF slot.legacy THEN {[slot EXCEPT !.legacy = FALSE]}
                                   ELSE {Held(slot)})
      [] slot.state = "held" -> {Drained(slot, "other"), Quarantined(slot)}
      [] slot.state = "draining" -> {Freed(slot), Quarantined(slot)}
      [] slot.state = "quarantined" -> {WithIncident(slot), Recovering(slot)}
      [] slot.state = "recovering" ->
              {WithIncident(slot), Quarantined(slot), RecoveryFailed(slot)}
              \cup (IF slot.legacy \/ slot.lease = 0 THEN {} ELSE {Recovered(slot)})
      [] OTHER -> {}

\* withLock: load, reconcile, change one slot, write.
WithLock == Unlocked /\ ~Corrupt /\ Len(file) <= count

UpdateSlot(i) ==
    /\ WithLock
    /\ \E slot \in SlotSteps(Reconciled[i]) :
          writePool([Reconciled EXCEPT ![i] = slot])
    /\ UNCHANGED granted

AcquireSlot(i) ==
    /\ WithLock
    /\ NextPoolLease <= PoolLeases
    /\ Reconciled[i].state = "available"
    /\ LET slot == acquireSlot(Reconciled[i], NextPoolLease, FALSE)
       IN  /\ writePool([Reconciled EXCEPT ![i] = slot])
           /\ granted' = granted \cup {[slot |-> i, gen |-> slot.gen,
                                        epoch |-> slot.epoch, lease |-> slot.lease]}

\* RetireLegacySlot fences the slot, deletes its machines, and frees it.
FenceLegacySlot(i) ==
    /\ WithLock
    /\ Reconciled[i].legacy
    /\ Reconciled[i].state \in {"available", "quarantined"}
    /\ writePool([Reconciled EXCEPT ![i] = Drained(@, "other")])
    /\ UNCHANGED granted

FreeRetiredSlot(i) ==
    /\ WithLock
    /\ Reconciled[i].legacy
    /\ Reconciled[i].state = "draining"
    /\ writePool([Reconciled EXCEPT ![i] = [Freed(@) EXCEPT !.legacy = FALSE]])
    /\ UNCHANGED granted

-----------------------------------------------------------------------------
(* Resizing.                                                               *)

\* The operator changes E2E_VM_SLOT_COUNT.
Configure(n) ==
    /\ n # count
    /\ Unlocked
    /\ count' = n
    /\ UNCHANGED <<file, journal, writing, moved, before, granted, faults>>

FencedForResize(slot) == slot.state = "draining" /\ slot.reason = "pool resize"

\* PrepareResize: fence every slot beyond the new size, or none of them.
PrepareResize ==
    /\ Unlocked /\ ~Corrupt
    /\ Len(file) > count
    /\ \A i \in (count + 1)..Len(file) :
          /\ ~Loaded[i].legacy
          /\ FencedForResize(Loaded[i]) \/ Loaded[i].state = "available"
    /\ writePool([i \in DOMAIN file |->
                     IF i > count THEN Drained(Loaded[i], "pool resize")
                                  ELSE Loaded[i]])
    /\ UNCHANGED granted

\* The growing half of PrepareResize.
GrowPool ==
    /\ Unlocked /\ ~Corrupt
    /\ Len(file) < count
    /\ writePool(Reconciled)
    /\ UNCHANGED granted

\* Fault: the slots to drop are not checked again.
FaultCommitsUnfenced ==
    /\ Unlocked /\ ~Corrupt
    /\ Len(file) > count
    /\ writePool(SubSeq(Loaded, 1, count))
    /\ UNCHANGED granted

\* CommitResize, once the machines of the retiring slots are gone.
CommitResize ==
    /\ Unlocked /\ ~Corrupt
    /\ Len(file) > count
    /\ \A i \in (count + 1)..Len(file) : FencedForResize(Loaded[i])
    /\ writePool(SubSeq(Loaded, 1, count))
    /\ UNCHANGED granted

-----------------------------------------------------------------------------
(* Faults and their repair.                                                *)

Crash ==
    /\ "crash" \in faults
    /\ ~Unlocked
    /\ writing' = NoPool
    /\ moved' = "nothing"
    /\ before' = NoPool
    /\ UNCHANGED <<file, journal, count, granted, faults>>

PreviousProducerRewrites ==
    /\ "rewrite" \in faults
    /\ Unlocked
    /\ file' = [i \in DOMAIN file |->
                   [file[i] EXCEPT !.incident = FALSE, !.attempt = 0,
                                   !.nextRec = NoTime]]
    /\ UNCHANGED <<journal, count, writing, moved, before, granted, faults>>

\* The rebuild keeps the corrupt files under other names: the journal first,
\* then the pool.
SetAsideJournal ==
    /\ Unlocked /\ Corrupt
    /\ journal' = {}
    /\ moved' = "journal"
    /\ before' = Loaded
    /\ UNCHANGED <<file, count, writing, granted, faults>>

SetAsidePool ==
    /\ moved = "journal"
    /\ file' = NoPool
    /\ moved' = "pool"
    /\ UNCHANGED <<journal, count, writing, before, granted, faults>>

\* Nothing is known of the machines in the slots any more: every slot starts
\* again, quarantined and with retained data.
rebuildCorruptPoolForRecovery ==
    /\ moved = "pool"
    /\ writePool([i \in 1..count |->
                     [FreshSlot EXCEPT !.state = "quarantined", !.nextRec = 0,
                                       !.legacy = TRUE]])
    /\ UNCHANGED granted

-----------------------------------------------------------------------------
\* A pool of the first release starts with retained data in its slots.
PoolInit ==
    /\ count \in Counts
    /\ \E legacy \in BOOLEAN :
          file = [i \in 1..count |-> [FreshSlot EXCEPT !.legacy = legacy]]
    /\ journal = {}
    /\ writing = NoPool
    /\ moved = "nothing"
    /\ before = NoPool
    /\ granted = {}
    /\ faults \in FaultSets

PoolNext ==
    \/ PoolReplaced
    \/ \E i \in 1..count : \/ UpdateSlot(i)
                           \/ AcquireSlot(i)
                           \/ FenceLegacySlot(i)
                           \/ FreeRetiredSlot(i)
    \/ \E n \in Counts : Configure(n)
    \/ PrepareResize
    \/ GrowPool
    \/ CommitResize
    \/ Crash
    \/ PreviousProducerRewrites
    \/ SetAsideJournal
    \/ SetAsidePool
    \/ rebuildCorruptPoolForRecovery

PoolSpec == PoolInit /\ [][PoolNext]_poolVars

-----------------------------------------------------------------------------

\* What decides who may use a slot and how often its recovery was tried.
Core(slot) == [state |-> slot.state, gen |-> slot.gen, epoch |-> slot.epoch,
               lease |-> slot.lease, attempt |-> slot.attempt]

\* If the broker died now, between the journal and the pool, the next load
\* would find every slot as it was before the operation or as it is after it,
\* never a mixture of the two, however many crashes came before.  The incident
\* and the time of the next attempt are exempt: a second crash can drop those
\* that a torn write had already attached, and the slot is then reported and
\* scheduled once more.
TornWriteIsAtomic ==
    writing # NoPool /\ "crash" \in faults /\ ~Corrupt =>
       \A i \in DOMAIN file :
          \/ Core(Loaded[i]) = Core(before[i])
          \/ i \in DOMAIN writing /\ Core(Loaded[i]) = Core(writing[i])

\* While a slot waits for its recovery, neither a crash nor a rewrite by the
\* previous release sets its attempts back, and so the delay between them.
RecoveryNotForgotten ==
    [][\A i \in DOMAIN file \cap DOMAIN Seen \cap DOMAIN Seen' :
          /\ ~Corrupt /\ ~Corrupt'
          /\ {Seen[i].state, Seen'[i].state} \subseteq {"quarantined", "recovering"}
          /\ Seen[i].gen = Seen'[i].gen /\ Seen[i].epoch = Seen'[i].epoch
          => Seen'[i].attempt >= Seen[i].attempt]_poolVars

\* A shrinking pool loses no slot that a lease or retained data still occupies.
ShrinkDropsNoLease ==
    [][\A i \in DOMAIN file \ DOMAIN file' :
          moved = "nothing" => Loaded[i].lease = 0 /\ ~Loaded[i].legacy]_poolVars

\* Fencing a slot for a resize leaves a pool that loads again, so that the
\* resize can be finished or retried.
ShrinkStaysLoadable ==
    \A e \in journal : e.slot \in DOMAIN file /\ FencedForResize(file[e.slot])
                           => Readable(e)
=============================================================================
