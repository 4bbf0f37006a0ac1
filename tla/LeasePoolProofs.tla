-------------------------- MODULE LeasePoolProofs ---------------------------
(***************************************************************************)
(* The pool on disk, for pools of any size, any number of leases and any   *)
(* deadlines.                                                              *)
(*                                                                         *)
(* The argument rests on two facts.  No operation changes the attempts of  *)
(* a slot without changing its state or its identity (Steps), so the       *)
(* journal of a torn write never says anything new about a slot of the old *)
(* pool file.  And as long as no write is torn, every slot with attempts   *)
(* has an entry in the journal, so the previous release can lose nothing   *)
(* by rewriting the file.                                                  *)
(***************************************************************************)
EXTENDS LeasePool, FiniteSetTheorems, TLAPS

Entry == [slot : Nat, gen : Nat \ {0}, epoch : Nat, state : States, incident : BOOLEAN,
          attempt : 0 .. MaxAttempt, nextRec : Ticks]

\* A slot that is available, or that a resize has fenced, holds nothing.
Empty(slot)  == slot.lease = 0 /\ ~slot.legacy
SlotOK(slot) == /\ slot \in Slot
                /\ slot.state = "available" => slot.lease = 0
                /\ FencedForResize(slot) => Empty(slot)

\* What an operation does to a slot as far as recovery is concerned.
SameLease(a, b) == a.gen = b.gen /\ a.epoch = b.epoch
Waiting(slot) == slot.state \in {"quarantined", "recovering"}
Steps(old, new) ==
    /\ SlotOK(new)
    /\ SameLease(old, new) /\ new.state = old.state => new.attempt = old.attempt
    /\ SameLease(old, new) /\ Waiting(old) /\ Waiting(new) => new.attempt >= old.attempt

\* What a load leaves as it is in the file.
SameInFile(slot, stored) == /\ slot.state = stored.state /\ SameLease(slot, stored)
                            /\ slot.lease = stored.lease /\ slot.legacy = stored.legacy
                            /\ slot.reason = stored.reason

PoolTypeOK ==
    /\ file \in Seq(Slot) /\ writing \in Seq(Slot) /\ before \in Seq(Slot)
    /\ journal \subseteq Entry /\ count \in Counts
    /\ moved \in {"nothing", "journal", "pool"}
    /\ IsFiniteSet(granted) /\ faults \in FaultSets

SlotsOK(pool) == \A i \in DOMAIN pool : SlotOK(pool[i])

\* The writer loaded before what the file says.
LoadedFrom(pool) ==
    \A i \in DOMAIN file :
       /\ i \in DOMAIN pool /\ SameInFile(pool[i], file[i])
       /\ "rewrite" \notin faults => pool[i].attempt = file[i].attempt

\* The journal is of the pool that is being written, one operation further.
WritingInv ==
    writing # NoPool =>
       /\ moved = "nothing" /\ journal = JournalOf(writing) /\ LoadedFrom(before)
       /\ \A i \in DOMAIN file : IF i \in DOMAIN writing THEN Steps(before[i], writing[i])
                                                         ELSE Empty(file[i])

RebuildInv ==
    /\ moved # "nothing" => writing = NoPool
    /\ moved = "journal" => LoadedFrom(before)
    /\ moved = "pool" => file = NoPool

\* Without rewrites the journal says of no slot in the file that it has been
\* tried more or less often.
JournalAgrees ==
    "rewrite" \notin faults =>
       \A e \in journal, i \in DOMAIN file :
          EntryApplies(e, i, file[i]) => e.attempt = file[i].attempt

\* Without crashes the journal has what a rewrite of the file loses.
JournalComplete ==
    "crash" \notin faults /\ Unlocked =>
       \A i \in DOMAIN file : file[i].attempt = 0 \/ \E e \in journal : EntryApplies(e, i, file[i])

PoolInv == /\ PoolTypeOK /\ SlotsOK(file) /\ SlotsOK(writing) /\ WritingInv /\ RebuildInv
           /\ JournalAgrees /\ JournalComplete

-----------------------------------------------------------------------------
(* Slots.                                                                  *)

LEMMA MaxAttemptNat == MaxAttempt \in Nat \ {0}
BY DelayAssumption DEF MaxAttempt

\* The delay table has an entry for every attempt count that a slot can hold.
LEMMA DelayInTable ==
  ASSUME NEW a \in 0..MaxAttempt
  PROVE  recoveryDelay(a) \in Ticks
<1>1. /\ Len(RecoveryDelays) \in Nat \ {0}
      /\ \A i \in 1..Len(RecoveryDelays) : RecoveryDelays[i] \in Nat \ {0}
  BY DelayAssumption
<1>2. (IF a = 0 THEN 1 ELSE a) \in 1..Len(RecoveryDelays)
  BY <1>1 DEF MaxAttempt
<1> QED BY <1>1, <1>2 DEF recoveryDelay, Ticks

LEMMA FreshSlotOK ==
  ASSUME NEW legacy \in BOOLEAN
  PROVE  SlotOK(FreshSlot) /\ SlotOK([FreshSlot EXCEPT !.legacy = legacy])
<1>1. MaxAttempt \in Nat /\ 0 \in 0..MaxAttempt
  BY MaxAttemptNat
<1> DEFINE new == [FreshSlot EXCEPT !.legacy = legacy]
<1>4. FreshSlot \in Slot
  BY <1>1 DEF FreshSlot, Slot, States, Ticks
<1>2. new \in Slot
  BY <1>4 DEF Slot
<1>3. /\ new.state = "available" /\ new.lease = 0
      /\ FreshSlot.state = "available" /\ FreshSlot.lease = 0
  BY DEF FreshSlot
<1> QED BY <1>2, <1>3, <1>4 DEF SlotOK, FencedForResize

LEMMA WrittenSlots ==
  ASSUME NEW slot \in Slot
  PROVE  Freed(slot) \in Slot /\ Quarantined(slot) \in Slot
<1>1. /\ MaxAttempt \in Nat /\ 0 \in 0..MaxAttempt
      /\ NoTime \in Ticks /\ 0 \in Ticks
  BY MaxAttemptNat DEF Ticks
<1>2. clearLease(slot) \in Slot
  BY <1>1 DEF clearLease, Slot
<1> QED BY <1>1, <1>2 DEF Freed, Quarantined, Slot, States

\* An operation on one slot is a step as far as recovery is concerned.
LEMMA SlotStepsAreSteps ==
  ASSUME NEW slot, SlotOK(slot), NEW new \in SlotSteps(slot)
  PROVE  Steps(slot, new)
<1>1. /\ slot \in Slot /\ slot.state \in States
      /\ slot.state = "available" => slot.lease = 0
      /\ FencedForResize(slot) => Empty(slot)
  BY DEF SlotOK, Slot
<1>2. /\ slot.gen \in Nat \ {0} /\ slot.attempt \in 0..MaxAttempt
      /\ slot.nextRec \in Ticks
  BY <1>1 DEF Slot
<1>9. /\ MaxAttempt \in Nat /\ 0 \in 0..MaxAttempt
      /\ LeaseTTL \in Ticks /\ NoTime \in Ticks /\ 0 \in Ticks
  BY MaxAttemptNat, TTLAssumption DEF Ticks
<1>10. slot.attempt \in Nat
  BY <1>2, <1>9
<1>3. CASE slot.state = "provisioning"
  <2>1. new \in {Freed(slot), Drained(slot, "other"), Quarantined(slot),
                 [slot EXCEPT !.legacy = FALSE], Held(slot)}
    BY <1>3 DEF SlotSteps
  <2>2. new \in Slot
    <3>1. [slot EXCEPT !.legacy = FALSE] \in Slot
      BY <1>1 DEF Slot
    <3>2. Drained(slot, "other") \in Slot /\ Held(slot) \in Slot
      BY <1>1, <1>9 DEF Drained, Held, Slot, States
    <3> QED BY <1>1, <2>1, <3>1, <3>2, WrittenSlots
  <2>3. /\ new.state = "available" => new.lease = 0
        /\ ~FencedForResize(new)
        /\ new.attempt = slot.attempt \/ new.state # slot.state
    BY <1>1, <1>3, <2>1
       DEF Freed, clearLease, Drained, Quarantined, Held, Slot, FencedForResize
  <2> QED BY <1>3, <2>2, <2>3 DEF Steps, SlotOK, Waiting
<1>4. CASE slot.state = "held"
  <2>1. new \in {Drained(slot, "other"), Quarantined(slot)}
    BY <1>4 DEF SlotSteps
  <2>2. new \in Slot
    BY <1>1, <1>9, <2>1 DEF Drained, Quarantined, Slot, States
  <2>3. /\ new.state # "available" /\ ~FencedForResize(new) /\ new.attempt = slot.attempt
    BY <1>1, <2>1 DEF Drained, Quarantined, Slot, FencedForResize
  <2> QED BY <1>4, <2>2, <2>3 DEF Steps, SlotOK, Waiting
<1>5. CASE slot.state = "draining"
  <2>1. new \in {Freed(slot), Quarantined(slot)}
    BY <1>5 DEF SlotSteps
  <2>2. new \in Slot
    BY <1>1, <2>1, WrittenSlots
  <2>3. /\ new.state = "available" => new.lease = 0
        /\ ~FencedForResize(new) /\ new.state # slot.state
    BY <1>1, <1>5, <2>1 DEF Freed, clearLease, Quarantined, Slot, FencedForResize
  <2> QED BY <1>5, <2>2, <2>3 DEF Steps, SlotOK, Waiting
<1>6. CASE slot.state = "quarantined"
  <2>1. new \in {WithIncident(slot), Recovering(slot)}
    BY <1>6 DEF SlotSteps
  <2>5. (IF slot.attempt < MaxAttempt THEN slot.attempt + 1 ELSE slot.attempt)
           \in 0..MaxAttempt
    BY <1>2, <1>9
  <2>2. new \in Slot
    BY <1>1, <1>9, <2>1, <2>5 DEF WithIncident, Recovering, Slot, States
  <2>3. /\ new.state \in {"quarantined", "recovering"}
        /\ new.state = "quarantined" => new.attempt = slot.attempt
        /\ new.attempt \in {slot.attempt, slot.attempt + 1}
    BY <1>1, <1>6, <2>1 DEF WithIncident, Recovering, Slot
  <2>6. slot.attempt >= slot.attempt /\ slot.attempt + 1 >= slot.attempt
    BY <1>10
  <2>4. ~FencedForResize(new) /\ new.attempt >= slot.attempt
    BY <2>3, <2>6 DEF FencedForResize
  <2> QED BY <1>6, <2>2, <2>3, <2>4 DEF Steps, SlotOK, Waiting
<1>7. CASE slot.state = "recovering"
  <2>1. new \in {WithIncident(slot), Quarantined(slot), RecoveryFailed(slot), Recovered(slot)}
    BY <1>7 DEF SlotSteps
  <2>2. recoveryDelay(slot.attempt) \in Ticks
    BY <1>2, DelayInTable
  <2>5. slot.gen + 1 \in Nat \ {0}
    BY <1>2
  <2>3. new \in Slot
    <3>1. WithIncident(slot) \in Slot
      BY <1>1, <1>9 DEF WithIncident, Slot
    <3>2. RecoveryFailed(slot) \in Slot
      BY <1>1, <2>2 DEF RecoveryFailed, Slot, States
    <3>3. Recovered(slot) \in Slot
      BY <1>1, <1>9, <2>5 DEF Recovered, Slot, States
    <3> QED BY <1>1, <2>1, <3>1, <3>2, <3>3, WrittenSlots
  <2>4. /\ new.attempt = slot.attempt /\ new.state # "draining"
        /\ new.state = "available" => new.lease = 0
    BY <1>1, <1>7, <2>1 DEF WithIncident, Quarantined, RecoveryFailed, Recovered, Slot
  <2>6. slot.attempt >= slot.attempt
    BY <1>10
  <2> QED BY <2>3, <2>4, <2>6 DEF Steps, SlotOK, FencedForResize
<1>8. CASE slot.state = "available"
  BY <1>8 DEF SlotSteps
<1> QED BY <1>1, <1>3, <1>4, <1>5, <1>6, <1>7, <1>8 DEF States

\* A slot that is left alone.
LEMMA UnchangedSteps ==
  ASSUME NEW slot, SlotOK(slot)
  PROVE  Steps(slot, slot)
<1>1. slot.attempt \in 0 .. MaxAttempt
  BY DEF SlotOK, Slot
<1>2. slot.attempt >= slot.attempt
  BY <1>1, MaxAttemptNat
<1> QED BY <1>2 DEF Steps

LEMMA AcquiredSteps ==
  ASSUME NEW slot, SlotOK(slot), NEW lease \in Nat
  PROVE  Steps(slot, acquireSlot(slot, lease, FALSE))
<1>1. slot \in Slot /\ slot.gen \in Nat \ {0} /\ slot.epoch \in Nat
  BY DEF SlotOK, Slot
<1>5. /\ slot.gen + 1 \in Nat \ {0} /\ slot.epoch + 1 \in Nat
      /\ slot.gen # slot.gen + 1
  BY <1>1
<1>6. /\ ProvisioningTTL \in Ticks /\ NoTime \in Ticks
      /\ MaxAttempt \in Nat /\ 0 \in 0..MaxAttempt
  BY MaxAttemptNat, TTLAssumption DEF Ticks
<1> DEFINE new == acquireSlot(slot, lease, FALSE)
<1>2. new \in Slot
  BY <1>1, <1>5, <1>6 DEF acquireSlot, Slot, States
<1>3. new.state = "provisioning" /\ new.gen = slot.gen + 1
  BY <1>1 DEF acquireSlot, Slot
<1> QED BY <1>2, <1>3, <1>5 DEF Steps, SlotOK, SameLease, FencedForResize

\* RetireLegacySlot.
LEMMA RetiringSteps ==
  ASSUME NEW slot, SlotOK(slot)
  PROVE  /\ slot.state # "draining" => Steps(slot, Drained(slot, "other"))
         /\ slot.state = "draining" => Steps(slot, [Freed(slot) EXCEPT !.legacy = FALSE])
<1>1. /\ slot \in Slot /\ NoTime \in Ticks
      /\ MaxAttempt \in Nat /\ 0 \in 0..MaxAttempt
  BY MaxAttemptNat DEF SlotOK, Ticks
<1>2. /\ Drained(slot, "other") \in Slot
      /\ Drained(slot, "other").state = "draining"
      /\ Drained(slot, "other").reason = "other"
  BY <1>1 DEF Drained, Slot, States
<1> DEFINE new == [Freed(slot) EXCEPT !.legacy = FALSE]
<1>3. new \in Slot /\ new.state = "available" /\ new.lease = 0
  BY <1>1 DEF Freed, clearLease, Slot, States
<1> QED BY <1>2, <1>3 DEF Steps, SlotOK, Waiting, FencedForResize

\* PrepareResize fences a slot that holds nothing.
LEMMA FencingSteps ==
  ASSUME NEW slot, SlotOK(slot), ~slot.legacy,
         FencedForResize(slot) \/ slot.state = "available"
  PROVE  Steps(slot, Drained(slot, "pool resize"))
<1> DEFINE new == Drained(slot, "pool resize")
<1>1. slot \in Slot /\ Empty(slot)
  BY DEF SlotOK, Empty
<1>2. /\ new \in Slot /\ new.state = "draining"
      /\ new.lease = slot.lease /\ new.legacy = slot.legacy
      /\ new.attempt = slot.attempt
  BY <1>1 DEF Drained, Slot, States
<1> QED BY <1>1, <1>2 DEF Steps, SlotOK, Waiting, Empty

-----------------------------------------------------------------------------
(* Loading and writing.                                                    *)

LEMMA SeqOf ==
  ASSUME NEW S, NEW n \in Nat, NEW f, f = [i \in 1 .. n |-> f[i]],
         \A i \in 1 .. n : f[i] \in S
  PROVE  f \in Seq(S) /\ Len(f) = n
<1> DEFINE g == [i \in 1 .. n |-> f[i]]
<1>1. g \in Seq(S) /\ Len(g) = n
  OBVIOUS
<1> QED BY <1>1

\* An entry of the journal has the recovery fields of a slot.
LEMMA JournalOfPool ==
  ASSUME NEW pool \in Seq(Slot)
  PROVE  /\ JournalOf(pool) \subseteq Entry
         /\ \A e \in JournalOf(pool) : /\ e.slot \in DOMAIN pool
                                       /\ e = RecoveryEntry(e.slot, pool[e.slot])
         /\ \A i \in DOMAIN pool : slotHasRecoveryMetadata(pool[i])
                                      => RecoveryEntry(i, pool[i]) \in JournalOf(pool)
<1>1. ASSUME NEW i \in DOMAIN pool
      PROVE  RecoveryEntry(i, pool[i]) \in Entry /\ RecoveryEntry(i, pool[i]).slot = i
  <2>1. pool[i] \in Slot /\ i \in Nat
    OBVIOUS
  <2> QED BY <2>1 DEF RecoveryEntry, Entry, Slot
<1> QED BY <1>1 DEF JournalOf

\* An entry applies to the slot it was made of.
LEMMA EntryOfSlot ==
  ASSUME NEW i, NEW slot
  PROVE  EntryApplies(RecoveryEntry(i, slot), i, slot)
BY DEF EntryApplies, RecoveryEntry, slotMatchesLeaseIdentity

\* A load takes nothing but the recovery fields from the journal.
LEMMA LoadedSlot ==
  ASSUME PoolTypeOK, SlotsOK(file), JournalAgrees, NEW i \in DOMAIN file
  PROVE  /\ SlotOK(Loaded[i]) /\ SameInFile(Loaded[i], file[i])
         /\ "rewrite" \notin faults => Loaded[i].attempt = file[i].attempt
<1>1. file[i] \in Slot /\ SlotOK(file[i])
  BY DEF PoolTypeOK, SlotsOK, SlotOK
<1>2. CASE \E e \in journal : EntryApplies(e, i, file[i])
  <2> DEFINE e == CHOOSE e \in journal : EntryApplies(e, i, file[i])
  <2>1. e \in journal /\ EntryApplies(e, i, file[i])
    BY <1>2
  <2> HIDE DEF e
  <2>2. /\ e.incident \in BOOLEAN /\ e.attempt \in 0 .. MaxAttempt /\ e.nextRec \in Ticks
    BY <2>1 DEF PoolTypeOK, Entry
  <2>3. Loaded[i] = [file[i] EXCEPT !.incident = e.incident, !.attempt = e.attempt,
                                    !.nextRec = e.nextRec]
    BY <1>2 DEF Loaded, mergeRecoveryJournal, e
  <2>4. "rewrite" \notin faults => e.attempt = file[i].attempt
    BY <2>1 DEF JournalAgrees
  <2>5. Loaded[i] \in Slot
    BY <1>1, <2>2, <2>3 DEF Slot
  <2>6. SameInFile(Loaded[i], file[i]) /\ Loaded[i].attempt = e.attempt
    BY <1>1, <2>3 DEF SameInFile, SameLease, Slot
  <2>7. SlotOK(Loaded[i])
    BY <1>1, <2>5, <2>6 DEF SameInFile, SlotOK, FencedForResize, Empty
  <2> QED BY <2>4, <2>6, <2>7
<1>3. CASE ~\E e \in journal : EntryApplies(e, i, file[i])
  <2>1. Loaded[i] = file[i]
    BY <1>3 DEF Loaded, mergeRecoveryJournal
  <2> QED BY <1>1, <2>1 DEF SameInFile, SameLease
<1> QED BY <1>2, <1>3

LEMMA LoadedPool ==
  ASSUME PoolTypeOK, SlotsOK(file), JournalAgrees
  PROVE  /\ Loaded \in Seq(Slot) /\ DOMAIN Loaded = DOMAIN file /\ Len(Loaded) = Len(file)
         /\ LoadedFrom(Loaded)
<1>1. DOMAIN Loaded = DOMAIN file
  BY DEF Loaded, mergeRecoveryJournal
<1>2. DOMAIN file = 1 .. Len(file) /\ Len(file) \in Nat
  BY DEF PoolTypeOK
<1>3. \A i \in DOMAIN file : Loaded[i] \in Slot
  BY LoadedSlot DEF SlotOK
<1>4. Loaded = [i \in 1 .. Len(file) |-> Loaded[i]]
  BY <1>2 DEF Loaded, mergeRecoveryJournal
<1>5. Loaded \in Seq(Slot) /\ Len(Loaded) = Len(file)
  <2> DEFINE L == [i \in 1 .. Len(file) |-> Loaded[i]]
  <2>1. \A i \in 1 .. Len(file) : Loaded[i] \in Slot
    BY <1>2, <1>3
  <2>2. L \in Seq(Slot) /\ Len(L) = Len(file)
    BY <1>2, <2>1
  <2> QED BY <1>4, <2>2
<1> QED BY <1>1, <1>5, LoadedSlot DEF LoadedFrom

\* The slots that withLock works on.
LEMMA ReconciledPool ==
  ASSUME PoolTypeOK, SlotsOK(file), JournalAgrees, Len(file) <= count
  PROVE  /\ Reconciled \in Seq(Slot) /\ DOMAIN Reconciled = 1 .. count
         /\ SlotsOK(Reconciled) /\ Reconciled # NoPool
         /\ \A i \in DOMAIN file : i \in 1 .. count /\ Reconciled[i] = Loaded[i]
<1>1. count \in Nat \ {0} /\ DOMAIN file = 1 .. Len(file) /\ Len(file) \in Nat
  BY PoolAssumption DEF PoolTypeOK, Counts
<1>2. DOMAIN file \subseteq 1 .. count
  BY <1>1
<1>3. \A i \in 1 .. count : SlotOK(Reconciled[i])
  <2>1. SlotOK(FreshSlot)
    BY FreshSlotOK
  <2> QED BY <2>1, LoadedSlot DEF Reconciled
<1>4. \A i \in 1 .. count : Reconciled[i] \in Slot
  BY <1>3 DEF SlotOK
<1>5. Reconciled = [i \in 1 .. count |-> Reconciled[i]]
  BY DEF Reconciled
<1>6. Reconciled \in Seq(Slot) /\ Len(Reconciled) = count
  <2> DEFINE R == [i \in 1 .. count |-> Reconciled[i]]
  <2>1. R \in Seq(Slot) /\ Len(R) = count
    BY <1>1, <1>4
  <2> QED BY <1>5, <2>1
<1>7. DOMAIN Reconciled = 1 .. count
  BY DEF Reconciled
<1>8. Reconciled # NoPool
  BY <1>1, <1>6 DEF NoPool
<1>9. \A i \in DOMAIN file : i \in 1 .. count /\ Reconciled[i] = Loaded[i]
  BY <1>2 DEF Reconciled
<1> QED BY <1>3, <1>6, <1>7, <1>8, <1>9 DEF SlotsOK

\* What a writer may write: one operation further than what it has loaded.
MayWrite(pool) ==
    /\ pool \in Seq(Slot) /\ SlotsOK(pool) /\ pool # NoPool
    /\ \A i \in DOMAIN file : IF i \in DOMAIN pool THEN Steps(Seen[i], pool[i])
                                                   ELSE Empty(file[i])

LEMMA WritePreserves ==
  ASSUME PoolInv, writing = NoPool, NEW pool, MayWrite(pool),
         Seen \in Seq(Slot), LoadedFrom(Seen), writePool(pool), IsFiniteSet(granted')
  PROVE  PoolInv'
<1>1. /\ file' = file /\ count' = count /\ faults' = faults /\ moved' = "nothing"
      /\ journal' = JournalOf(pool) /\ writing' = pool /\ before' = Seen
  BY DEF writePool
<1>2. /\ pool \in Seq(Slot) /\ SlotsOK(pool) /\ pool # NoPool
      /\ \A i \in DOMAIN file : IF i \in DOMAIN pool THEN Steps(Seen[i], pool[i])
                                                     ELSE Empty(file[i])
  BY DEF MayWrite
<1> HIDE DEF Seen
<1>3. PoolTypeOK' /\ SlotsOK(file)' /\ SlotsOK(writing)'
  BY <1>1, <1>2, JournalOfPool DEF PoolInv, PoolTypeOK, SlotsOK
<1>4. LoadedFrom(before)'
  BY <1>1 DEF LoadedFrom
<1>5. WritingInv'
  BY <1>1, <1>2, <1>4 DEF WritingInv
<1>6. RebuildInv'
  BY <1>1 DEF RebuildInv
<1>7. JournalAgrees'
  <2> SUFFICES ASSUME "rewrite" \notin faults, NEW e \in JournalOf(pool), NEW i \in DOMAIN file,
                      EntryApplies(e, i, file[i])
               PROVE  e.attempt = file[i].attempt
    BY <1>1 DEF JournalAgrees
  <2>1. /\ i \in DOMAIN pool /\ e = RecoveryEntry(i, pool[i])
        /\ e.state = file[i].state /\ SameLease(e, file[i])
    BY <1>2, JournalOfPool DEF EntryApplies, slotMatchesLeaseIdentity, SameLease
  <2>2. /\ e.gen = pool[i].gen /\ e.epoch = pool[i].epoch /\ e.state = pool[i].state
        /\ e.attempt = pool[i].attempt
    BY <2>1 DEF RecoveryEntry
  <2>3. SameInFile(Seen[i], file[i]) /\ Seen[i].attempt = file[i].attempt
    BY DEF LoadedFrom
  <2>4. SameLease(Seen[i], pool[i]) /\ pool[i].state = Seen[i].state
    BY <2>1, <2>2, <2>3 DEF SameInFile, SameLease
  <2>5. Steps(Seen[i], pool[i])
    BY <1>2, <2>1
  <2> QED BY <2>2, <2>3, <2>4, <2>5 DEF Steps
<1>8. JournalComplete'
  BY <1>1, <1>2 DEF JournalComplete, Unlocked
<1> QED BY <1>3, <1>5, <1>6, <1>7, <1>8 DEF PoolInv

-----------------------------------------------------------------------------
(* The invariant.                                                          *)

\* What the holder of the lock finds.
LEMMA FreeToWrite ==
  ASSUME PoolInv, Unlocked
  PROVE  /\ writing = NoPool /\ Seen = Loaded /\ Seen \in Seq(Slot) /\ LoadedFrom(Seen)
         /\ DOMAIN Seen = DOMAIN file /\ \A i \in DOMAIN file : SlotOK(Seen[i])
BY LoadedPool, LoadedSlot DEF PoolInv, Unlocked, Seen

\* withLock changes one slot of the reconciled pool.
LEMMA MayWriteSlot ==
  ASSUME PoolInv, WithLock, NEW i \in 1 .. count, NEW slot, Steps(Reconciled[i], slot)
  PROVE  MayWrite([Reconciled EXCEPT ![i] = slot])
<1> DEFINE pool == [Reconciled EXCEPT ![i] = slot]
<1>1. /\ Reconciled \in Seq(Slot) /\ DOMAIN Reconciled = 1 .. count
      /\ SlotsOK(Reconciled) /\ Reconciled # NoPool
      /\ \A j \in DOMAIN file : j \in 1 .. count /\ Reconciled[j] = Seen[j]
  BY ReconciledPool, FreeToWrite DEF PoolInv, WithLock
<1>2. slot \in Slot /\ SlotOK(slot)
  BY DEF Steps, SlotOK
<1> HIDE DEF Seen, Reconciled
<1>3. /\ pool \in Seq(Slot) /\ DOMAIN pool = 1 .. count /\ pool[i] = slot
      /\ \A j \in 1 .. count : j # i => pool[j] = Reconciled[j]
  <2>1. i \in DOMAIN Reconciled
    BY <1>1
  <2>2. \A j \in 1 .. count : Reconciled[j] \in Slot
    BY <1>1 DEF SlotsOK, SlotOK
  <2>3. DOMAIN pool = 1 .. count /\ pool[i] = slot
    BY <1>1, <2>1
  <2>4. \A j \in 1 .. count : j # i => pool[j] = Reconciled[j]
    BY <1>1
  <2>5. pool = [j \in 1 .. count |-> pool[j]]
    BY <1>1
  <2>6. \A j \in 1 .. count : pool[j] \in Slot
    BY <1>2, <2>2, <2>3, <2>4
  <2>7. count \in Nat
    BY DEF PoolInv, PoolTypeOK, Counts
  <2> HIDE DEF pool
  <2> QED BY <2>3, <2>4, <2>5, <2>6, <2>7, SeqOf
<1>4. pool # NoPool
  <2>1. i \in DOMAIN pool
    BY <1>3
  <2> QED BY <2>1 DEF NoPool
<1> HIDE DEF pool
<1>5. ASSUME NEW j \in 1 .. count
      PROVE  Steps(Reconciled[j], pool[j])
  <2>1. SlotOK(Reconciled[j])
    BY <1>1 DEF SlotsOK
  <2> QED BY <1>3, <2>1, UnchangedSteps
<1>6. SlotsOK(pool)
  BY <1>3, <1>5 DEF SlotsOK, Steps
<1>7. \A j \in DOMAIN file : j \in DOMAIN pool /\ Steps(Seen[j], pool[j])
  BY <1>1, <1>3, <1>5
<1>8. MayWrite(pool)
  BY <1>3, <1>4, <1>6, <1>7 DEF MayWrite
<1> QED BY <1>8 DEF pool

\* A slot of the reconciled pool is a slot.
LEMMA ReconciledSlot ==
  ASSUME PoolInv, WithLock, NEW i \in 1 .. count
  PROVE  SlotOK(Reconciled[i])
BY ReconciledPool DEF PoolInv, WithLock, SlotsOK

LEMMA SlotOperationPreserves ==
  ASSUME PoolInv, NEW i \in 1 .. count,
         UpdateSlot(i) \/ AcquireSlot(i) \/ FenceLegacySlot(i) \/ FreeRetiredSlot(i)
  PROVE  /\ Unlocked /\ PoolInv'
         /\ \E pool : MayWrite(pool) /\ writePool(pool)
<1>1. PICK slot : /\ WithLock /\ Steps(Reconciled[i], slot)
                  /\ writePool([Reconciled EXCEPT ![i] = slot])
                  /\ IsFiniteSet(granted')
  <2>1. WithLock
    BY DEF UpdateSlot, AcquireSlot, FenceLegacySlot, FreeRetiredSlot
  <2>2. SlotOK(Reconciled[i])
    BY <2>1, ReconciledSlot
  <2>3. IsFiniteSet(granted)
    BY DEF PoolInv, PoolTypeOK
  <2>4. CASE UpdateSlot(i)
    BY <2>1, <2>2, <2>3, <2>4, SlotStepsAreSteps DEF UpdateSlot
  <2>5. CASE AcquireSlot(i)
    <3> DEFINE slot == acquireSlot(Reconciled[i], NextPoolLease, FALSE)
               lease == [slot |-> i, gen |-> slot.gen, epoch |-> slot.epoch,
                         lease |-> slot.lease]
    <3>1. NextPoolLease \in Nat
      BY <2>3, FS_CardinalityType DEF NextPoolLease
    <3>2. Steps(Reconciled[i], slot)
      BY <2>2, <3>1, AcquiredSteps
    <3>3. /\ writePool([Reconciled EXCEPT ![i] = slot])
          /\ granted' = granted \cup {lease}
      BY <2>5 DEF AcquireSlot
    <3> HIDE DEF slot, lease
    <3>4. IsFiniteSet(granted')
      BY <2>3, <3>3, FS_AddElement
    <3> QED BY <2>1, <3>2, <3>3, <3>4
  <2>6. CASE FenceLegacySlot(i)
    <3>1. /\ Reconciled[i].state # "draining" /\ granted' = granted
          /\ writePool([Reconciled EXCEPT ![i] = Drained(Reconciled[i], "other")])
      BY <2>6 DEF FenceLegacySlot
    <3> QED BY <2>1, <2>2, <2>3, <3>1, RetiringSteps
  <2>7. CASE FreeRetiredSlot(i)
    <3>1. /\ Reconciled[i].state = "draining" /\ granted' = granted
          /\ writePool([Reconciled EXCEPT ![i] =
                           [Freed(Reconciled[i]) EXCEPT !.legacy = FALSE]])
      BY <2>7 DEF FreeRetiredSlot
    <3> QED BY <2>1, <2>2, <2>3, <3>1, RetiringSteps
  <2> QED BY <2>4, <2>5, <2>6, <2>7
<1>2. MayWrite([Reconciled EXCEPT ![i] = slot])
  BY <1>1, MayWriteSlot
<1>3. Unlocked
  BY <1>1 DEF WithLock
<1> QED BY <1>1, <1>2, <1>3, FreeToWrite, WritePreserves

\* The resize operations.
LEMMA ResizePreserves ==
  ASSUME PoolInv, PrepareResize \/ GrowPool \/ CommitResize
  PROVE  /\ Unlocked /\ PoolInv'
         /\ \E pool : MayWrite(pool) /\ writePool(pool)
<1>1. Unlocked /\ IsFiniteSet(granted')
  BY DEF PoolInv, PoolTypeOK, PrepareResize, GrowPool, CommitResize
<1>2. /\ Seen = Loaded /\ Seen \in Seq(Slot) /\ DOMAIN Seen = DOMAIN file
      /\ LoadedFrom(Seen) /\ writing = NoPool
      /\ \A i \in DOMAIN file : SlotOK(Loaded[i])
  BY <1>1, FreeToWrite
<1>3. count \in Nat \ {0} /\ DOMAIN file = 1 .. Len(file) /\ Len(file) \in Nat
  BY PoolAssumption DEF PoolInv, PoolTypeOK, Counts
<1> HIDE DEF Seen, Loaded
<1>4. CASE PrepareResize
  <2> DEFINE pool == [i \in 1 .. Len(file) |->
                         IF i > count THEN Drained(Loaded[i], "pool resize") ELSE Loaded[i]]
  <2>1. /\ Len(file) > count /\ writePool(pool)
        /\ \A i \in (count + 1) .. Len(file) :
              ~Loaded[i].legacy /\ (FencedForResize(Loaded[i]) \/ Loaded[i].state = "available")
    BY <1>3, <1>4 DEF PrepareResize
  <2>2. ASSUME NEW i \in 1 .. Len(file)
        PROVE  Steps(Loaded[i], pool[i])
    <3>1. SlotOK(Loaded[i])
      BY <1>2, <1>3
    <3>2. CASE i > count
      <4>1. i \in (count + 1) .. Len(file)
        BY <1>3, <3>2
      <4>2. Steps(Loaded[i], Drained(Loaded[i], "pool resize"))
        BY <2>1, <3>1, <4>1, FencingSteps
      <4> QED BY <3>2, <4>2
    <3>3. CASE ~(i > count)
      BY <3>1, <3>3, UnchangedSteps
    <3> QED BY <3>2, <3>3
  <2>3. DOMAIN pool = 1 .. Len(file)
    OBVIOUS
  <2>4. \A i \in 1 .. Len(file) : SlotOK(pool[i]) /\ pool[i] \in Slot
    BY <2>2 DEF Steps, SlotOK
  <2>5. pool \in Seq(Slot) /\ Len(pool) = Len(file)
    <3>1. pool = [i \in 1 .. Len(file) |-> pool[i]]
      OBVIOUS
    <3> HIDE DEF pool
    <3> QED BY <1>3, <2>4, <3>1, SeqOf
  <2>6. Len(file) # 0
    <3>1. Len(file) > count
      BY <2>1
    <3> QED BY <1>3, <3>1
  <2> HIDE DEF pool
  <2>7. pool # NoPool
    BY <2>5, <2>6 DEF NoPool
  <2>8. MayWrite(pool)
    BY <1>2, <1>3, <2>2, <2>3, <2>4, <2>5, <2>7 DEF MayWrite, SlotsOK
  <2> QED BY <1>1, <1>2, <2>1, <2>8, WritePreserves
<1>5. CASE GrowPool
  <2>1. Len(file) <= count /\ writePool(Reconciled)
    BY <1>3, <1>5 DEF GrowPool
  <2>2. /\ Reconciled \in Seq(Slot) /\ DOMAIN Reconciled = 1 .. count
        /\ SlotsOK(Reconciled) /\ Reconciled # NoPool
        /\ \A i \in DOMAIN file : i \in 1 .. count /\ Reconciled[i] = Loaded[i]
    BY <2>1, ReconciledPool DEF PoolInv
  <2> HIDE DEF Reconciled
  <2>3. \A i \in DOMAIN file : Steps(Loaded[i], Loaded[i])
    BY <1>2, UnchangedSteps
  <2>4. MayWrite(Reconciled)
    BY <1>2, <2>2, <2>3 DEF MayWrite
  <2> QED BY <1>1, <1>2, <2>1, <2>4, WritePreserves
<1>6. CASE CommitResize
  <2> DEFINE pool == SubSeq(Loaded, 1, count)
  <2>1. /\ Len(file) > count /\ writePool(pool)
        /\ \A i \in (count + 1) .. Len(file) : FencedForResize(Loaded[i])
    BY <1>6 DEF CommitResize
  <2>2. Loaded \in Seq(Slot) /\ Len(Loaded) = Len(file)
    BY <1>1, LoadedPool DEF PoolInv
  <2>3. /\ pool \in Seq(Slot) /\ DOMAIN pool = 1 .. count
        /\ \A i \in 1 .. count : pool[i] = Loaded[i]
    <3>1. count \in 0 .. Len(Loaded) /\ 1 \in 1 .. Len(Loaded) /\ count \in 1 .. Len(Loaded)
      BY <1>3, <2>1, <2>2
    <3>2. pool \in Seq(Slot) /\ Len(pool) = count
      BY <1>3, <2>2, <3>1
    <3>3. DOMAIN pool = 1 .. count
      BY <3>2
    <3>4. \A i \in 1 .. count : pool[i] = Loaded[i]
      BY <1>3, <2>2, <3>1
    <3> QED BY <3>2, <3>3, <3>4
  <2> HIDE DEF pool
  <2>4. pool # NoPool
    <3>1. 1 \in DOMAIN pool
      BY <1>3, <2>3
    <3> QED BY <3>1 DEF NoPool
  <2>5. ASSUME NEW i \in DOMAIN file
        PROVE  IF i \in DOMAIN pool THEN Steps(Loaded[i], pool[i]) ELSE Empty(file[i])
    <3>1. CASE i \in DOMAIN pool
      BY <1>2, <2>3, <3>1, UnchangedSteps
    <3>2. CASE i \notin DOMAIN pool
      <4>1. i \in (count + 1) .. Len(file)
        BY <1>3, <2>3, <3>2
      <4>2. Empty(Loaded[i]) /\ SameInFile(Loaded[i], file[i])
        BY <1>2, <2>1, <4>1 DEF SlotOK, LoadedFrom
      <4> QED BY <3>2, <4>2 DEF Empty, SameInFile
    <3> QED BY <3>1, <3>2
  <2>6. SlotsOK(pool)
    <3>1. \A i \in DOMAIN pool : i \in DOMAIN file
      BY <1>3, <2>1, <2>3
    <3> QED BY <1>2, <2>3, <3>1 DEF SlotsOK
  <2>7. MayWrite(pool)
    BY <1>2, <2>3, <2>4, <2>5, <2>6 DEF MayWrite
  <2> QED BY <1>1, <1>2, <2>1, <2>7, WritePreserves
<1> QED BY <1>4, <1>5, <1>6

LEMMA ReplacedPreserves ==
  ASSUME PoolInv, PoolReplaced
  PROVE  PoolInv'
<1>1. /\ writing # NoPool /\ file' = writing /\ writing' = NoPool /\ before' = NoPool
      /\ journal' = journal /\ count' = count /\ moved' = moved /\ granted' = granted
      /\ faults' = faults
  BY DEF PoolReplaced
<1>2. moved = "nothing" /\ journal = JournalOf(writing) /\ writing \in Seq(Slot)
  BY <1>1 DEF PoolInv, WritingInv, PoolTypeOK
<1>3. NoPool \in Seq(Slot) /\ DOMAIN NoPool = {}
  BY DEF NoPool
<1>4. PoolTypeOK' /\ SlotsOK(file)' /\ SlotsOK(writing)'
  BY <1>1, <1>3 DEF PoolInv, PoolTypeOK, SlotsOK
<1>5. WritingInv' /\ RebuildInv'
  BY <1>1, <1>2 DEF WritingInv, RebuildInv
<1>6. JournalAgrees'
  <2> SUFFICES ASSUME NEW e \in JournalOf(writing), NEW i \in DOMAIN writing,
                      EntryApplies(e, i, writing[i])
               PROVE  e.attempt = writing[i].attempt
    BY <1>1, <1>2 DEF JournalAgrees
  <2>1. e = RecoveryEntry(i, writing[i])
    BY <1>2, JournalOfPool DEF EntryApplies
  <2> QED BY <2>1 DEF RecoveryEntry
<1>7. JournalComplete'
  <2> SUFFICES ASSUME NEW i \in DOMAIN writing, writing[i].attempt # 0
               PROVE  \E e \in JournalOf(writing) : EntryApplies(e, i, writing[i])
    BY <1>1, <1>2 DEF JournalComplete
  <2>1. RecoveryEntry(i, writing[i]) \in JournalOf(writing)
    BY <1>2, JournalOfPool DEF slotHasRecoveryMetadata
  <2> QED BY <2>1, EntryOfSlot
<1> QED BY <1>4, <1>5, <1>6, <1>7 DEF PoolInv

LEMMA CrashPreserves ==
  ASSUME PoolInv, Crash
  PROVE  PoolInv'
<1>1. /\ "crash" \in faults /\ writing' = NoPool /\ moved' = "nothing" /\ before' = NoPool
      /\ file' = file /\ journal' = journal /\ count' = count /\ granted' = granted
      /\ faults' = faults
  BY DEF Crash
<1>2. NoPool \in Seq(Slot) /\ DOMAIN NoPool = {}
  BY DEF NoPool
<1>3. PoolTypeOK' /\ SlotsOK(file)' /\ SlotsOK(writing)'
  BY <1>1, <1>2 DEF PoolInv, PoolTypeOK, SlotsOK
<1> QED BY <1>1, <1>3 DEF PoolInv, WritingInv, RebuildInv, JournalAgrees, JournalComplete

\* What the previous release writes for a slot.
Forgotten(slot) == [slot EXCEPT !.incident = FALSE, !.attempt = 0, !.nextRec = NoTime]

LEMMA RewrittenPool ==
  ASSUME PoolInv, PreviousProducerRewrites
  PROVE  /\ file' \in Seq(Slot) /\ DOMAIN file' = DOMAIN file
         /\ \A i \in DOMAIN file : /\ SlotOK(file'[i]) /\ SameInFile(file'[i], file[i])
                                   /\ file'[i].attempt = 0
<1>1. /\ DOMAIN file' = DOMAIN file
      /\ \A i \in DOMAIN file : file'[i] = Forgotten(file[i])
      /\ file' = [i \in DOMAIN file |-> Forgotten(file[i])]
  BY DEF PreviousProducerRewrites, Forgotten
<1>2. DOMAIN file = 1 .. Len(file) /\ Len(file) \in Nat
  BY DEF PoolInv, PoolTypeOK
<1>3. ASSUME NEW i \in DOMAIN file
      PROVE  /\ SlotOK(Forgotten(file[i])) /\ SameInFile(Forgotten(file[i]), file[i])
             /\ Forgotten(file[i]).attempt = 0
  <2>1. file[i] \in Slot /\ SlotOK(file[i])
    BY DEF PoolInv, SlotsOK, SlotOK
  <2>2. MaxAttempt \in Nat /\ 0 \in 0 .. MaxAttempt /\ NoTime \in Ticks
    BY MaxAttemptNat DEF Ticks
  <2>3. Forgotten(file[i]) \in Slot
    BY <2>1, <2>2 DEF Forgotten, Slot
  <2>4. SameInFile(Forgotten(file[i]), file[i]) /\ Forgotten(file[i]).attempt = 0
    BY <2>1 DEF Forgotten, SameInFile, SameLease, Slot
  <2> QED BY <2>1, <2>3, <2>4 DEF SlotOK, SameInFile, FencedForResize, Empty
<1>4. \A i \in 1 .. Len(file) : file'[i] \in Slot
  BY <1>1, <1>2, <1>3 DEF SlotOK
<1>5. file' = [i \in 1 .. Len(file) |-> file'[i]]
  BY <1>1, <1>2
<1>6. file' \in Seq(Slot)
  BY <1>2, <1>4, <1>5, SeqOf
<1> QED BY <1>1, <1>3, <1>6

LEMMA RewritePreserves ==
  ASSUME PoolInv, PreviousProducerRewrites
  PROVE  PoolInv'
<1>1. /\ "rewrite" \in faults /\ writing' = writing /\ moved' = moved /\ before' = before
      /\ journal' = journal /\ count' = count /\ granted' = granted /\ faults' = faults
      /\ writing = NoPool /\ moved = "nothing"
  BY DEF PreviousProducerRewrites, Unlocked
<1>2. PoolTypeOK' /\ SlotsOK(file)' /\ SlotsOK(writing)'
  BY <1>1, RewrittenPool DEF PoolInv, PoolTypeOK, SlotsOK
<1>3. JournalComplete'
  BY RewrittenPool DEF JournalComplete
<1> QED BY <1>1, <1>2, <1>3 DEF PoolInv, WritingInv, RebuildInv, JournalAgrees

LEMMA RebuildPreserves ==
  ASSUME PoolInv, SetAsideJournal \/ SetAsidePool \/ rebuildCorruptPoolForRecovery
  PROVE  PoolInv'
<1>1. CASE SetAsideJournal
  <2>1. /\ Unlocked /\ journal' = {} /\ moved' = "journal" /\ before' = Loaded
        /\ file' = file /\ count' = count /\ writing' = writing /\ granted' = granted
        /\ faults' = faults
    BY <1>1 DEF SetAsideJournal
  <2>2. writing = NoPool /\ Loaded \in Seq(Slot) /\ LoadedFrom(Loaded)
    BY <2>1, FreeToWrite
  <2> HIDE DEF Loaded
  <2>3. LoadedFrom(before)'
    BY <2>1, <2>2 DEF LoadedFrom
  <2>4. PoolTypeOK' /\ SlotsOK(file)' /\ SlotsOK(writing)'
    BY <2>1, <2>2 DEF PoolInv, PoolTypeOK, SlotsOK
  <2>5. ~Unlocked'
    BY <2>1 DEF Unlocked
  <2> QED BY <2>1, <2>2, <2>3, <2>4, <2>5
          DEF PoolInv, WritingInv, RebuildInv, JournalAgrees, JournalComplete
<1>2. CASE SetAsidePool
  <2>1. /\ moved = "journal" /\ file' = NoPool /\ moved' = "pool" /\ journal' = journal
        /\ count' = count /\ writing' = writing /\ before' = before /\ granted' = granted
        /\ faults' = faults
    BY <1>2 DEF SetAsidePool
  <2>2. NoPool \in Seq(Slot) /\ DOMAIN NoPool = {} /\ writing = NoPool
    BY <2>1 DEF NoPool, PoolInv, RebuildInv
  <2>3. PoolTypeOK' /\ SlotsOK(file)' /\ SlotsOK(writing)'
    BY <2>1, <2>2 DEF PoolInv, PoolTypeOK, SlotsOK
  <2> QED BY <2>1, <2>2, <2>3 DEF PoolInv, WritingInv, RebuildInv, JournalAgrees, JournalComplete
<1>3. CASE rebuildCorruptPoolForRecovery
  <2> DEFINE slot == [FreshSlot EXCEPT !.state = "quarantined", !.nextRec = 0, !.legacy = TRUE]
             pool == [i \in 1 .. count |-> slot]
  <2>1. moved = "pool" /\ writePool(pool) /\ granted' = granted
    BY <1>3 DEF rebuildCorruptPoolForRecovery
  <2>2. writing = NoPool /\ DOMAIN file = {} /\ IsFiniteSet(granted') /\ before \in Seq(Slot)
    BY <2>1 DEF PoolInv, RebuildInv, PoolTypeOK, NoPool
  <2>3. Seen \in Seq(Slot) /\ LoadedFrom(Seen)
    BY <2>1, <2>2 DEF Seen, Unlocked, LoadedFrom
  <2>4. SlotOK(slot) /\ slot \in Slot
    <3>1. FreshSlot \in Slot /\ 0 \in Ticks
      BY FreshSlotOK DEF SlotOK, Ticks
    <3>2. slot \in Slot /\ slot.state = "quarantined"
      BY <3>1 DEF Slot, States
    <3> QED BY <3>2 DEF SlotOK, FencedForResize
  <2> HIDE DEF slot
  <2>5. count \in Nat \ {0}
    BY PoolAssumption DEF PoolInv, PoolTypeOK, Counts
  <2>6. pool \in Seq(Slot) /\ Len(pool) = count /\ \A i \in DOMAIN pool : pool[i] = slot
    BY <2>4, <2>5
  <2> HIDE DEF pool
  <2>7. MayWrite(pool)
    BY <2>2, <2>4, <2>5, <2>6 DEF MayWrite, SlotsOK, NoPool
  <2> QED BY <2>1, <2>2, <2>3, <2>7, WritePreserves
<1> QED BY <1>1, <1>2, <1>3

LEMMA StutterPreserves ==
  ASSUME PoolInv, UNCHANGED poolVars
  PROVE  PoolInv'
BY DEF PoolInv, poolVars, PoolTypeOK, SlotsOK, WritingInv, RebuildInv, JournalAgrees,
       JournalComplete, LoadedFrom, Unlocked

LEMMA ConfigurePreserves ==
  ASSUME PoolInv, NEW n \in Counts, Configure(n)
  PROVE  PoolInv'
BY DEF Configure, PoolInv, PoolTypeOK, SlotsOK, WritingInv, RebuildInv, JournalAgrees,
       JournalComplete, LoadedFrom, Unlocked

LEMMA PoolInitInv == PoolInit => PoolInv
<1> SUFFICES ASSUME PoolInit PROVE PoolInv
  OBVIOUS
<1>1. PICK legacy \in BOOLEAN : file = [i \in 1 .. count |-> [FreshSlot EXCEPT !.legacy = legacy]]
  BY DEF PoolInit
<1> DEFINE slot == [FreshSlot EXCEPT !.legacy = legacy]
<1>2. SlotOK(slot) /\ slot \in Slot /\ slot.attempt = 0
  BY FreshSlotOK DEF SlotOK, FreshSlot
<1>3. /\ count \in Counts /\ journal = {} /\ writing = NoPool /\ moved = "nothing"
      /\ before = NoPool /\ granted = {} /\ faults \in FaultSets /\ count \in Nat
  BY PoolAssumption DEF PoolInit, Counts
<1>4. file = [i \in 1 .. count |-> slot]
  BY <1>1
<1> HIDE DEF slot
<1>5. file \in Seq(Slot) /\ \A i \in DOMAIN file : file[i] = slot
  BY <1>2, <1>3, <1>4
<1>6. NoPool \in Seq(Slot) /\ DOMAIN NoPool = {}
  BY DEF NoPool
<1>7. PoolTypeOK /\ SlotsOK(file) /\ SlotsOK(writing)
  BY <1>2, <1>3, <1>5, <1>6, FS_EmptySet DEF PoolTypeOK, SlotsOK
<1> QED BY <1>2, <1>3, <1>5, <1>7
        DEF PoolInv, WritingInv, RebuildInv, JournalAgrees, JournalComplete

LEMMA PoolNextInv == PoolInv /\ [PoolNext]_poolVars => PoolInv'
<1> SUFFICES ASSUME PoolInv, [PoolNext]_poolVars PROVE PoolInv'
  OBVIOUS
<1>1. CASE \E i \in 1 .. count : UpdateSlot(i) \/ AcquireSlot(i) \/ FenceLegacySlot(i)
                                    \/ FreeRetiredSlot(i)
  BY <1>1, SlotOperationPreserves
<1>2. CASE PrepareResize \/ GrowPool \/ CommitResize
  BY <1>2, ResizePreserves
<1>3. CASE \E n \in Counts : Configure(n)
  BY <1>3, ConfigurePreserves
<1>4. CASE SetAsideJournal \/ SetAsidePool \/ rebuildCorruptPoolForRecovery
  BY <1>4, RebuildPreserves
<1> QED BY <1>1, <1>2, <1>3, <1>4, ReplacedPreserves, CrashPreserves, RewritePreserves,
           StutterPreserves DEF PoolNext

\* Whatever faults a behaviour shows, one or both: the slots in the file and in
\* the hands of a writer are consistent, a writer never goes more than one
\* operation beyond what the file says, and journal and file agree as far as
\* the fault at work allows (load and writePool in lease.go).
THEOREM PoolInvariant == PoolSpec => []PoolInv
BY PoolInitInv, PoolNextInv, PTL DEF PoolSpec

-----------------------------------------------------------------------------
(* Attempts through loads and faults.                                      *)

\* One kind of fault per behaviour.  With both, a torn write leaves a journal
\* without the entry that a rewrite of the file then loses.
OneFaultAtATime == \A F \in FaultSets : F # Faults

LEMMA OneFault ==
  ASSUME OneFaultAtATime, PoolTypeOK
  PROVE  "crash" \notin faults \/ "rewrite" \notin faults
<1>1. faults \in FaultSets /\ faults \subseteq Faults
  BY PoolAssumption DEF PoolTypeOK
<1>2. faults # Faults
  BY <1>1 DEF OneFaultAtATime
<1> QED BY <1>1, <1>2 DEF Faults

\* The entry that a load takes for a slot depends only on the state and the
\* identity of the slot.
TheEntry(J, i, state, gen, epoch) ==
    CHOOSE e \in J : e.slot = i /\ (gen = e.gen /\ epoch = e.epoch) /\ e.state = state

\* How often a slot has been tried, as a load sees it.
AttemptIn(J, i, slot) ==
    IF \E e \in J : EntryApplies(e, i, slot)
    THEN TheEntry(J, i, slot.state, slot.gen, slot.epoch).attempt
    ELSE slot.attempt

LEMMA MergedAttempt ==
  ASSUME NEW J, NEW i, NEW slot \in Slot
  PROVE  (IF \E e \in J : EntryApplies(e, i, slot)
          THEN LET e == CHOOSE e \in J : EntryApplies(e, i, slot)
               IN  [slot EXCEPT !.incident = e.incident, !.attempt = e.attempt,
                                !.nextRec = e.nextRec]
          ELSE slot).attempt = AttemptIn(J, i, slot)
<1> DEFINE f == CHOOSE e \in J : EntryApplies(e, i, slot)
<1>1. f = TheEntry(J, i, slot.state, slot.gen, slot.epoch)
  BY DEF TheEntry, EntryApplies, slotMatchesLeaseIdentity
<1>2. [slot EXCEPT !.incident = f.incident, !.attempt = f.attempt,
                   !.nextRec = f.nextRec].attempt = f.attempt
  <2> HIDE DEF f
  <2> QED BY DEF Slot
<1> QED BY <1>1, <1>2 DEF AttemptIn

\* Before and after a step.
LEMMA LoadedAttempts ==
  /\ file \in Seq(Slot) => \A i \in DOMAIN file : Loaded[i].attempt = AttemptIn(journal, i, file[i])
  /\ file' \in Seq(Slot) => \A i \in DOMAIN file' :
                               Loaded'[i].attempt = AttemptIn(journal', i, file'[i])
<1>1. ASSUME file \in Seq(Slot), NEW i \in DOMAIN file
      PROVE  Loaded[i].attempt = AttemptIn(journal, i, file[i])
  <2>1. file[i] \in Slot
    BY <1>1
  <2> QED BY <2>1, MergedAttempt DEF Loaded, mergeRecoveryJournal
<1>2. ASSUME file' \in Seq(Slot), NEW i \in DOMAIN file'
      PROVE  Loaded'[i].attempt = AttemptIn(journal', i, file'[i])
  <2>1. file'[i] \in Slot
    BY <1>2
  <2> QED BY <2>1, MergedAttempt DEF Loaded, mergeRecoveryJournal
<1> QED BY <1>1, <1>2

\* What is seen of the pool.
LEMMA SeenPool ==
  ASSUME PoolInv
  PROVE  \A i \in DOMAIN Seen : Seen[i].attempt \in Nat
<1>1. Seen \in Seq(Slot)
  BY FreeToWrite DEF Seen, PoolInv, PoolTypeOK
<1> HIDE DEF Seen
<1>2. \A i \in DOMAIN Seen : Seen[i] \in Slot
  BY <1>1
<1>3. \A i \in DOMAIN Seen : Seen[i].attempt \in 0 .. MaxAttempt
  BY <1>2, MaxAttemptNat DEF Slot
<1> QED BY <1>3, MaxAttemptNat

\* A step that keeps what is seen.
LEMMA SameSeen ==
  ASSUME PoolInv, Seen' = Seen, NEW i \in DOMAIN Seen
  PROVE  Seen'[i].attempt >= Seen[i].attempt
<1>1. Seen[i].attempt \in Nat
  BY SeenPool
<1>2. Seen[i].attempt >= Seen[i].attempt
  BY <1>1
<1> QED BY <1>2

NotForgotten(i) ==
    /\ ~Corrupt /\ ~Corrupt'
    /\ {Seen[i].state, Seen'[i].state} \subseteq {"quarantined", "recovering"}
    /\ Seen[i].gen = Seen'[i].gen /\ Seen[i].epoch = Seen'[i].epoch
    => Seen'[i].attempt >= Seen[i].attempt

LEMMA ReplacedNotForgotten ==
  ASSUME PoolInv, PoolReplaced, NEW i \in DOMAIN file, i \in DOMAIN Seen'
  PROVE  NotForgotten(i)
<1>1. /\ writing # NoPool /\ file' = writing /\ writing' = NoPool
      /\ journal' = journal /\ moved' = moved
  BY DEF PoolReplaced
<1>2. /\ moved = "nothing" /\ journal = JournalOf(writing) /\ writing \in Seq(Slot)
      /\ LoadedFrom(before)
      /\ i \in DOMAIN writing => Steps(before[i], writing[i])
  BY <1>1 DEF PoolInv, WritingInv, PoolTypeOK
<1>3. Seen = before /\ Seen' = Loaded'
  BY <1>1, <1>2 DEF Seen, Unlocked
<1>4. i \in DOMAIN writing
  BY <1>1, <1>3 DEF Loaded, mergeRecoveryJournal
<1>5. Loaded'[i].attempt = AttemptIn(JournalOf(writing), i, writing[i])
  BY <1>1, <1>2, <1>4, LoadedAttempts
<1>6. AttemptIn(JournalOf(writing), i, writing[i]) = writing[i].attempt
  <2> DEFINE e == CHOOSE e \in JournalOf(writing) : EntryApplies(e, i, writing[i])
  <2>1. e = TheEntry(JournalOf(writing), i, writing[i].state, writing[i].gen, writing[i].epoch)
    BY DEF TheEntry, EntryApplies, slotMatchesLeaseIdentity
  <2>2. ASSUME \E g \in JournalOf(writing) : EntryApplies(g, i, writing[i])
        PROVE  e.attempt = writing[i].attempt
    <3>1. e \in JournalOf(writing) /\ EntryApplies(e, i, writing[i])
      BY <2>2
    <3> HIDE DEF e
    <3>2. e = RecoveryEntry(i, writing[i])
      BY <1>2, <3>1, JournalOfPool DEF EntryApplies
    <3> QED BY <3>2 DEF RecoveryEntry
  <2> QED BY <2>1, <2>2 DEF AttemptIn
<1>7. Loaded'[i].state = writing[i].state /\ SameLease(Loaded'[i], writing[i])
  <2>2. writing[i] \in Slot
    BY <1>2, <1>4
  <2>3. Loaded'[i] = IF \E e \in journal' : EntryApplies(e, i, writing[i])
                     THEN LET e == CHOOSE e \in journal' : EntryApplies(e, i, writing[i])
                          IN  [writing[i] EXCEPT !.incident = e.incident,
                                  !.attempt = e.attempt, !.nextRec = e.nextRec]
                     ELSE writing[i]
    BY <1>1, <1>4 DEF Loaded, mergeRecoveryJournal
  <2> QED BY <2>2, <2>3 DEF SameLease, Slot
<1>8. Steps(before[i], writing[i])
  BY <1>2, <1>4
<1> QED BY <1>3, <1>5, <1>6, <1>7, <1>8 DEF NotForgotten, Steps, SameLease, Waiting

LEMMA CrashNotForgotten ==
  ASSUME PoolInv, OneFaultAtATime, Crash, NEW i \in DOMAIN file, i \in DOMAIN Seen
  PROVE  Seen'[i].attempt >= Seen[i].attempt
<1>1. /\ "crash" \in faults /\ ~Unlocked /\ writing' = NoPool /\ moved' = "nothing"
      /\ file' = file /\ journal' = journal
  BY DEF Crash
<1>2. "rewrite" \notin faults
  BY <1>1, OneFault DEF PoolInv
<1>3. Seen = before /\ Seen' = Loaded
  BY <1>1 DEF Seen, Unlocked, Loaded, mergeRecoveryJournal
<1>4. LoadedFrom(before)
  <2>1. file # NoPool
    BY DEF NoPool
  <2> QED BY <1>1, <2>1 DEF Unlocked, PoolInv, PoolTypeOK, WritingInv, RebuildInv
<1>5. before[i].attempt = file[i].attempt /\ Loaded[i].attempt = file[i].attempt
  BY <1>2, <1>4, LoadedSlot DEF LoadedFrom, PoolInv
<1>6. Seen[i].attempt \in Nat
  BY SeenPool
<1>7. Seen'[i].attempt = Seen[i].attempt
  BY <1>3, <1>5
<1> QED BY <1>6, <1>7

LEMMA RewriteNotForgotten ==
  ASSUME PoolInv, OneFaultAtATime, PreviousProducerRewrites, NEW i \in DOMAIN file
  PROVE  Seen'[i].attempt >= Seen[i].attempt
<1>1. "rewrite" \in faults /\ Unlocked /\ Unlocked' /\ journal' = journal
  BY DEF PreviousProducerRewrites, Unlocked
<1>2. "crash" \notin faults
  BY <1>1, OneFault DEF PoolInv
<1>3. Seen = Loaded /\ Seen' = Loaded'
  BY <1>1 DEF Seen
<1>4. /\ file' \in Seq(Slot) /\ DOMAIN file' = DOMAIN file /\ file'[i].attempt = 0
      /\ file'[i].state = file[i].state /\ file'[i].gen = file[i].gen
      /\ file'[i].epoch = file[i].epoch /\ file \in Seq(Slot)
  BY RewrittenPool DEF SameInFile, SameLease, PoolInv, PoolTypeOK
<1>5. /\ Loaded[i].attempt = AttemptIn(journal, i, file[i])
      /\ Loaded'[i].attempt = AttemptIn(journal, i, file'[i])
  BY <1>1, <1>4, LoadedAttempts
<1>6. \A e \in journal : EntryApplies(e, i, file'[i]) <=> EntryApplies(e, i, file[i])
  BY <1>4 DEF EntryApplies, slotMatchesLeaseIdentity
<1>7. file[i].attempt = 0 \/ \E e \in journal : EntryApplies(e, i, file[i])
  BY <1>1, <1>2 DEF PoolInv, JournalComplete
<1>8. AttemptIn(journal, i, file'[i]) = AttemptIn(journal, i, file[i])
  BY <1>4, <1>6, <1>7 DEF AttemptIn
<1>9. Seen[i].attempt \in Nat
  <2>1. i \in DOMAIN Seen
    BY <1>1, FreeToWrite
  <2> QED BY <2>1, SeenPool
<1>10. Seen'[i].attempt = Seen[i].attempt
  BY <1>3, <1>5, <1>8
<1> QED BY <1>9, <1>10

\* While a slot waits for its recovery, no step but the end of an operation
\* changes how often it has been tried, and that one never sets it back
\* (mergeRecoveryJournal, writePool, slotHasRecoveryMetadata).
LEMMA StepNotForgotten ==
  ASSUME OneFaultAtATime, PoolInv, [PoolNext]_poolVars,
         NEW i \in DOMAIN file \cap DOMAIN Seen \cap DOMAIN Seen'
  PROVE  NotForgotten(i)
<1>1. ASSUME Unlocked, NEW pool, MayWrite(pool), writePool(pool)
      PROVE  Seen' = Seen
  <2>1. writing' # NoPool /\ before' = Seen
    BY <1>1 DEF MayWrite, writePool
  <2> QED BY <2>1 DEF Seen, Unlocked
<1>2. CASE \E j \in 1 .. count : UpdateSlot(j) \/ AcquireSlot(j) \/ FenceLegacySlot(j)
                                    \/ FreeRetiredSlot(j)
  BY <1>1, <1>2, SlotOperationPreserves, SameSeen DEF NotForgotten
<1>3. CASE PrepareResize \/ GrowPool \/ CommitResize
  BY <1>1, <1>3, ResizePreserves, SameSeen DEF NotForgotten
<1>4. CASE (\E n \in Counts : Configure(n)) \/ UNCHANGED poolVars
  <2>1. Seen' = Seen
    BY <1>4 DEF Configure, poolVars, Seen, Unlocked, Loaded, mergeRecoveryJournal
  <2> QED BY <2>1, SameSeen DEF NotForgotten
<1>5. CASE SetAsideJournal
  BY <1>5 DEF SetAsideJournal, NotForgotten
<1>6. CASE SetAsidePool
  <2>1. Seen' = Seen
    BY <1>6 DEF SetAsidePool, Seen, Unlocked
  <2> QED BY <2>1, SameSeen DEF NotForgotten
<1>7. CASE rebuildCorruptPoolForRecovery
  BY <1>7 DEF rebuildCorruptPoolForRecovery, PoolInv, RebuildInv, NoPool
<1> QED BY <1>2, <1>3, <1>4, <1>5, <1>6, <1>7, ReplacedNotForgotten, CrashNotForgotten,
           RewriteNotForgotten DEF PoolNext, NotForgotten
-----------------------------------------------------------------------------
(* The theorems.                                                           *)

\* With one kind of fault per behaviour, a write that a crash tears is taken
\* back whole by the next load, for every size of the pool: no slot has the
\* state of one side and the attempts of the other.
THEOREM TornWritesAreAtomic == OneFaultAtATime => (PoolSpec => []TornWriteIsAtomic)
<1> SUFFICES ASSUME OneFaultAtATime PROVE PoolSpec => []TornWriteIsAtomic
  OBVIOUS
<1>1. PoolInv => TornWriteIsAtomic
  <2> SUFFICES ASSUME PoolInv, writing # NoPool, "crash" \in faults, NEW i \in DOMAIN file
               PROVE  Core(Loaded[i]) = Core(before[i])
    BY DEF TornWriteIsAtomic
  <2>1. "rewrite" \notin faults
    BY OneFault DEF PoolInv
  <2>2. SameInFile(Loaded[i], file[i]) /\ Loaded[i].attempt = file[i].attempt
    BY <2>1, LoadedSlot DEF PoolInv
  <2>3. SameInFile(before[i], file[i]) /\ before[i].attempt = file[i].attempt
    BY <2>1 DEF PoolInv, WritingInv, LoadedFrom
  <2> QED BY <2>2, <2>3 DEF Core, SameInFile, SameLease
<1> QED BY <1>1, PoolInvariant, PTL

\* With one kind of fault per behaviour, neither crashes nor rewrites by the
\* previous release set the attempts of a waiting slot back, for every size of
\* the pool and every table of delays.
THEOREM AttemptsAreNotForgotten == OneFaultAtATime => (PoolSpec => RecoveryNotForgotten)
<1> SUFFICES ASSUME OneFaultAtATime PROVE PoolSpec => RecoveryNotForgotten
  OBVIOUS
<1>1. PoolInv /\ [PoolNext]_poolVars =>
        [\A i \in DOMAIN file \cap DOMAIN Seen \cap DOMAIN Seen' :
          /\ ~Corrupt /\ ~Corrupt'
          /\ {Seen[i].state, Seen'[i].state} \subseteq {"quarantined", "recovering"}
          /\ Seen[i].gen = Seen'[i].gen /\ Seen[i].epoch = Seen'[i].epoch
          => Seen'[i].attempt >= Seen[i].attempt]_poolVars
  BY StepNotForgotten DEF NotForgotten
<1> QED BY <1>1, PoolInvariant, PTL DEF PoolSpec, RecoveryNotForgotten

\* A shrinking pool loses no slot that a lease or retained data still occupies,
\* whatever crashes and rewrites happen between PrepareResize and CommitResize.
THEOREM ShrinkingDropsNoLease == PoolSpec => ShrinkDropsNoLease
<1>1. ASSUME PoolInv, [PoolNext]_poolVars, NEW i \in DOMAIN file \ DOMAIN file',
             moved = "nothing"
      PROVE  Loaded[i].lease = 0 /\ ~Loaded[i].legacy
  <2>1. file' # file
    BY <1>1
  <2>2. CASE PoolReplaced
    <3>1. file' = writing /\ writing # NoPool
      BY <2>2 DEF PoolReplaced
    <3>2. Empty(file[i])
      BY <1>1, <3>1 DEF PoolInv, WritingInv
    <3>3. SameInFile(Loaded[i], file[i])
      BY <1>1, LoadedSlot DEF PoolInv
    <3> QED BY <3>2, <3>3 DEF Empty, SameInFile
  <2>3. CASE PreviousProducerRewrites
    BY <1>1, <2>3, RewrittenPool
  <2>4. CASE SetAsidePool
    BY <1>1, <2>4 DEF SetAsidePool
  <2> QED BY <1>1, <2>1, <2>2, <2>3, <2>4
          DEF PoolNext, UpdateSlot, AcquireSlot, FenceLegacySlot, FreeRetiredSlot, Configure,
              PrepareResize, GrowPool, CommitResize, Crash, SetAsideJournal,
              rebuildCorruptPoolForRecovery, writePool, poolVars
<1>2. PoolInv /\ [PoolNext]_poolVars =>
        [\A i \in DOMAIN file \ DOMAIN file' :
          moved = "nothing" => Loaded[i].lease = 0 /\ ~Loaded[i].legacy]_poolVars
  BY <1>1
<1> QED BY <1>2, PoolInvariant, PTL DEF PoolSpec, ShrinkDropsNoLease
=============================================================================
