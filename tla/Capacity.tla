------------------------------ MODULE Capacity ------------------------------
(***************************************************************************)
(* Admission of test environments and of base builders by the memory and   *)
(* the storage that the host has left (capacity.go, allocation_usage.go,   *)
(* admitBuild of images.go).                                               *)
(*                                                                         *)
(* An admission holds the image lock and the store lock, so leases stand   *)
(* still while it measures; the guests do not.  Storage is measured, then  *)
(* the disks of the admitted slots one after the other, then storage       *)
(* again, while guests that run or start keep on writing and guests that   *)
(* are being deleted give their blocks back.                               *)
(***************************************************************************)
EXTENDS Integers

CONSTANTS
    N,             \* slots of the pool, in the order in which they are measured
    GuestRam,      \* commitment of an environment: memory with its overhead,
    GuestDisk,     \* and the limit of its disks
    BuilderRam,    \* commitment of a base builder: memory,
    BuilderDisk,   \* and three times its disk
    ImageMax,      \* bound: what a build may add to the image cache
    TotalRam, RamReserve,
    TotalDisk, DiskReserve,
    ForeignDisk,   \* storage that others use
    DiskBudget,    \* optional quota of the broker; 0 is none
    CacheMax,      \* bound: storage that the image cache may reach
    MaxMoves,      \* bound: disk movements during one admission
    Wrap           \* unsigned numbers are taken modulo Wrap

Slots == 1 .. N
None == 0
Refresh == -1   \* an operator's refresh, which has no slot

\* An image is no larger than the disk of its builder.  The disks of an environment
\* may be larger than what a build reserves: a lease may ask for two disks of 50 GiB,
\* while the base is built on the configured default.  Sums do not overflow, only
\* differences can.
ASSUME CapacityAssumption ==
    /\ N \in Nat /\ GuestRam \in Nat /\ GuestDisk \in Nat /\ BuilderRam \in Nat
    /\ BuilderDisk \in Nat /\ ImageMax \in Nat /\ RamReserve \in Nat
    /\ DiskReserve \in Nat /\ ForeignDisk \in Nat /\ DiskBudget \in Nat
    /\ ImageMax <= BuilderDisk
    /\ Wrap \in Nat /\ TotalRam \in 0 .. Wrap - 1 /\ TotalDisk \in 0 .. Wrap - 1
    /\ N * GuestRam + BuilderRam < Wrap /\ N * GuestDisk + BuilderDisk < Wrap

VARIABLES
    state,      \* state[s]: state of the lease slot
    reserved,   \* reserved[s]: Reserved, the admission was granted
    ready,      \* ready[s]: ReadyAt is set
    machines,   \* machines[s]: its guests may exist, and may still be starting
    ram,        \* ram[s]: memory that the guests of s occupy
    disk,       \* disk[s]: blocks that their disks occupy
    cache,      \* storage of the image cache
    builder,    \* the base builder: for whom, what it occupies, client alive
    imageLock,  \* who holds the image lock
    adm,        \* the admission that is measuring, under the store lock
    grown, freed, \* what moved up and down since it began
    slack       \* what the last granted one may have missed, and what images have
                \* taken of the room of the guests since

leaseVars == <<state, reserved, ready>>
guestVars == <<machines, ram, disk>>
vars == <<state, reserved, ready, machines, ram, disk, cache, builder, imageLock,
          adm, grown, freed, slack>>

NoBuilder == [for |-> None, ram |-> 0, disk |-> 0, alive |-> FALSE]
NoAdmission == [kind |-> "none"]

Init ==
    /\ state = [s \in Slots |-> "available"]
    /\ reserved = [s \in Slots |-> FALSE] /\ ready = [s \in Slots |-> FALSE]
    /\ machines = [s \in Slots |-> FALSE]
    /\ ram = [s \in Slots |-> 0] /\ disk = [s \in Slots |-> 0]
    /\ cache = 0 /\ builder = NoBuilder /\ imageLock = None
    /\ adm = NoAdmission /\ grown = 0 /\ freed = 0 /\ slack = 0

-----------------------------------------------------------------------------
(* What the host reports, and the arithmetic of admission.                 *)

\* The sum of an amount over the slots.
Total(f) ==
    LET upTo[n \in 0 .. N] == IF n = 0 THEN 0 ELSE upTo[n - 1] + f[n]
    IN  upTo[N]

Available == TotalRam - Total(ram) - builder.ram
BudgetUsed == cache + Total(disk) + builder.disk
Used == ForeignDisk + BudgetUsed

\* Unsigned subtraction.
Minus(a, b) == (a - b) % Wrap

Less(a, b) == IF a < b THEN a ELSE b
More(a, b) == IF a < b THEN b ELSE a

\* A cancelled start may still consume the memory that it was promised.
pendingMemory(s) ==
    IF state[s] = "provisioning" \/ (reserved[s] /\ ~ready[s] /\ state[s] # "held")
    THEN GuestRam ELSE 0

\* Slots without an admission of their own hold no commitment.
Counted(s) == state[s] # "available" /\ reserved[s]

\* Differences are taken before the amounts are compared.
FaultCheckCapacity(avail, used, charged, r, d) ==
    /\ RamReserve <= Minus(avail, r)
    /\ DiskReserve <= Minus(Minus(TotalDisk, used), d)
    /\ DiskBudget # 0 => d <= Minus(DiskBudget, charged)

checkCapacity(avail, used, charged, r, d) ==
    LET free == Minus(TotalDisk, used) IN
    /\ r <= avail /\ RamReserve <= Minus(avail, r)
    /\ used <= TotalDisk
    /\ d <= free /\ DiskReserve <= Minus(free, d)
    /\ DiskBudget # 0 => charged <= DiskBudget /\ d <= Minus(DiskBudget, charged)

-----------------------------------------------------------------------------
(* Admission: reserveEnvironment and admitBuild.                           *)

Idle == adm = NoAdmission

acquireSlot(s) ==
    /\ Idle /\ state[s] = "available"
    /\ state' = [state EXCEPT ![s] = "provisioning"]
    /\ UNCHANGED <<reserved, ready, guestVars, cache, builder, imageLock, adm,
                   grown, freed, slack>>

\* Staging that a dead builder left is cleaned before anything else, and a
\* cleanup that fails ends the operation.
Lock(who) ==
    /\ imageLock = None
    /\ imageLock' = who
    /\ builder' = NoBuilder
    /\ UNCHANGED <<leaseVars, guestVars, cache, adm, grown, freed, slack>>

LockForLease(s) == state[s] = "provisioning" /\ ~reserved[s] /\ Lock(s)
LockForRefresh == Lock(Refresh)

\* The image lock and the store lock are held: the first measurement.  Own
\* commitments come first, then those of the other slots.
Begin(kind, r, d) ==
    /\ Idle
    /\ adm' = [kind |-> kind, avail |-> Available, used |-> Used, charged |-> BudgetUsed,
               at |-> 1, ram |-> r, disk |-> d]
    /\ grown' = 0 /\ freed' = 0
    /\ UNCHANGED <<leaseVars, guestVars, cache, builder, imageLock, slack>>

reserveEnvironment(s) ==
    /\ imageLock = s /\ state[s] = "provisioning" /\ ~reserved[s]
    /\ Begin("reserve", GuestRam, GuestDisk)

\* The builder and the guests of its own slot come one after the other.
admitBuild(s) ==
    /\ imageLock = s /\ builder = NoBuilder
    /\ IF s = Refresh THEN Begin("build", BuilderRam, BuilderDisk)
       ELSE /\ state[s] = "provisioning" /\ reserved[s]
            /\ Begin("build", More(BuilderRam, GuestRam), More(BuilderDisk, GuestDisk))

\* The blocks that are credited to the guests of s: a disk that cannot be measured
\* gives no credit.
allocationUsage(s) == 0 .. disk[s]

\* outstandingCommitment of the next slot.
outstandingCommitment ==
    /\ ~Idle /\ adm.at \in Slots
    /\ \E credit \in allocationUsage(adm.at) :
         adm' = IF Counted(adm.at) /\ adm.at # imageLock
                THEN [adm EXCEPT !.at = @ + 1, !.ram = @ + pendingMemory(adm.at),
                        !.disk = @ + GuestDisk - Less(GuestDisk, credit)]
                ELSE [adm EXCEPT !.at = @ + 1]
    /\ UNCHANGED <<leaseVars, guestVars, cache, builder, imageLock, grown, freed, slack>>

\* The verdict on the two measurements; only the later one counts.
FaultVerdict == checkCapacity(Available, Used, BudgetUsed, adm.ram, adm.disk)

\* The worse of the two measurements counts.
Verdict ==
    checkCapacity(Less(adm.avail, Available), More(adm.used, Used),
                  More(adm.charged, BudgetUsed), adm.ram, adm.disk)

Admit ==
    /\ ~Idle /\ adm.at = N + 1 /\ Verdict
    /\ IF adm.kind = "reserve"
       THEN /\ reserved' = [reserved EXCEPT ![imageLock] = TRUE]
            /\ UNCHANGED builder
       ELSE /\ builder' = [NoBuilder EXCEPT !.for = imageLock, !.alive = TRUE]
            /\ UNCHANGED reserved
    /\ slack' = Less(grown, freed)
    /\ adm' = NoAdmission /\ grown' = 0 /\ freed' = 0
    /\ UNCHANGED <<state, ready, guestVars, cache, imageLock>>

\* A refusal, or telemetry that is missing.  Nothing has been created, and
\* AbortProvisioning gives the slot back.
Refuse ==
    /\ ~Idle
    /\ adm' = NoAdmission /\ grown' = 0 /\ freed' = 0
    /\ imageLock' = None
    /\ IF imageLock = Refresh THEN UNCHANGED leaseVars
       ELSE /\ state' = [state EXCEPT ![imageLock] = "available"]
            /\ reserved' = [reserved EXCEPT ![imageLock] = FALSE]
            /\ UNCHANGED ready
    /\ UNCHANGED <<guestVars, cache, builder, slack>>

-----------------------------------------------------------------------------
(* Builders and guests.                                                    *)

Admitted(s) == state[s] = "provisioning" /\ reserved[s]

\* There is a base already, or the lease was lost while it waited for the lock.
UseBase(s) ==
    /\ Idle /\ imageLock = s /\ builder = NoBuilder
    /\ reserved[s] \/ state[s] # "provisioning"
    /\ imageLock' = None
    /\ machines' = [machines EXCEPT ![s] = Admitted(s)]
    /\ UNCHANGED <<leaseVars, ram, disk, cache, builder, adm, grown, freed, slack>>

\* A refresh ends before it asks for admission.
EndRefresh ==
    /\ Idle /\ imageLock = Refresh /\ builder = NoBuilder
    /\ imageLock' = None
    /\ UNCHANGED <<leaseVars, guestVars, cache, builder, adm, grown, freed, slack>>

\* The builder runs as long as it is there, also when its client has died.
BuilderGrows ==
    /\ builder.for # None
    /\ \/ builder.ram < BuilderRam /\ builder' = [builder EXCEPT !.ram = @ + 1]
       \/ builder.disk < BuilderDisk /\ builder' = [builder EXCEPT !.disk = @ + 1]
    /\ UNCHANGED <<leaseVars, guestVars, cache, imageLock, adm, grown, freed, slack>>

\* An admission for a build covers the builder or the guests that wait for it,
\* whichever is larger; the image stays when those guests come.
Overdraft(size) ==
    IF builder.for \in Slots /\ Admitted(builder.for)
    THEN More(0, size + GuestDisk - More(BuilderDisk, GuestDisk)) ELSE 0

\* The image is published, the builder is gone and the lease may create its
\* machines.
PublishImage ==
    /\ builder.alive /\ Idle
    /\ builder' = NoBuilder /\ imageLock' = None
    /\ machines' = [s \in Slots |-> machines[s] \/ (s = builder.for /\ Admitted(s))]
    /\ \E size \in 0 .. ImageMax :
          cache + size <= CacheMax /\ cache' = cache + size /\ slack' = slack + Overdraft(size)
    /\ UNCHANGED <<leaseVars, ram, disk, adm, grown, freed>>

\* The client dies and the lock goes; the builder stays.
ClientDies ==
    /\ builder.alive /\ Idle
    /\ builder' = [builder EXCEPT !.alive = FALSE]
    /\ imageLock' = None
    /\ UNCHANGED <<leaseVars, guestVars, cache, adm, grown, freed, slack>>

\* Guests take the memory that they were promised until they are ready, a
\* cancelled start too.  Ready guests are the host's concern.
GuestOccupies(s) ==
    /\ machines[s] /\ ~ready[s] /\ ram[s] < GuestRam
    /\ ram' = [ram EXCEPT ![s] = @ + 1]
    /\ UNCHANGED <<leaseVars, machines, disk, cache, builder, imageLock, adm, grown,
                   freed, slack>>

GuestWrites(s) ==
    /\ machines[s] /\ disk[s] < GuestDisk /\ grown + freed < MaxMoves
    /\ disk' = [disk EXCEPT ![s] = @ + 1]
    /\ grown' = IF Idle THEN 0 ELSE grown + 1
    /\ UNCHANGED <<leaseVars, machines, ram, cache, builder, imageLock, adm, freed, slack>>

\* The guest discards blocks, and its disk gives them back.
GuestDiscards(s) ==
    /\ machines[s] /\ disk[s] > 0 /\ grown + freed < MaxMoves
    /\ disk' = [disk EXCEPT ![s] = @ - 1]
    /\ freed' = IF Idle THEN 0 ELSE freed + 1
    /\ UNCHANGED <<leaseVars, machines, ram, cache, builder, imageLock, adm, grown, slack>>

MarkHeld(s) ==
    /\ Idle /\ state[s] = "provisioning" /\ machines[s]
    /\ state' = [state EXCEPT ![s] = "held"]
    /\ ready' = [ready EXCEPT ![s] = TRUE]
    /\ UNCHANGED <<reserved, guestVars, cache, builder, imageLock, adm, grown, freed, slack>>

\* Release, cancellation or expiry.
BeginDrain(s) ==
    /\ Idle /\ state[s] \in {"provisioning", "held"}
    /\ state' = [state EXCEPT ![s] = "draining"]
    /\ UNCHANGED <<reserved, ready, guestVars, cache, builder, imageLock, adm, grown,
                   freed, slack>>

\* The machines are deleted without the store lock.
DeleteMachines(s) ==
    /\ state[s] = "draining" /\ machines[s]
    /\ machines' = [machines EXCEPT ![s] = FALSE]
    /\ ram' = [ram EXCEPT ![s] = 0] /\ disk' = [disk EXCEPT ![s] = 0]
    /\ freed' = IF Idle THEN 0 ELSE freed + disk[s]
    /\ UNCHANGED <<leaseVars, cache, builder, imageLock, adm, grown, slack>>

\* Cleanup waits for the acquisition of its slot to end (lifecycle lock).
FinishDrain(s) ==
    /\ Idle /\ state[s] = "draining" /\ ~machines[s] /\ imageLock # s
    /\ state' = [state EXCEPT ![s] = "available"]
    /\ reserved' = [reserved EXCEPT ![s] = FALSE]
    /\ ready' = [ready EXCEPT ![s] = FALSE]
    /\ UNCHANGED <<guestVars, cache, builder, imageLock, adm, grown, freed, slack>>

SlotStep(s) ==
    \/ acquireSlot(s) \/ LockForLease(s) \/ reserveEnvironment(s) \/ UseBase(s)
    \/ GuestOccupies(s) \/ GuestWrites(s) \/ GuestDiscards(s)
    \/ MarkHeld(s) \/ BeginDrain(s) \/ DeleteMachines(s) \/ FinishDrain(s)

Next ==
    \/ \E s \in Slots : SlotStep(s)
    \/ \E s \in Slots \cup {Refresh} : admitBuild(s)
    \/ LockForRefresh \/ outstandingCommitment \/ Admit \/ Refuse
    \/ EndRefresh \/ BuilderGrows \/ PublishImage \/ ClientDies

Spec == Init /\ [][Next]_vars

-----------------------------------------------------------------------------
(* Properties.                                                             *)

\* What slot s may still take: of memory, until its guests are ready, and of
\* storage, as long as there are or will be guests.  The slot for which a base
\* is being built waits for its builder.
Growing(s) == reserved[s] /\ (machines[s] \/ state[s] = "provisioning")
                          /\ builder.for # s
RamGrowth(s) == IF Growing(s) /\ ~ready[s] THEN GuestRam - ram[s] ELSE 0
DiskGrowth(s) == IF Growing(s) THEN GuestDisk - disk[s] ELSE 0

\* What the builder, and the guests that wait for it, may still take.
BuilderRamGrowth ==
    IF builder.for = None THEN 0
    ELSE (IF builder.for = Refresh THEN BuilderRam ELSE More(BuilderRam, GuestRam))
         - builder.ram
BuilderDiskGrowth ==
    IF builder.for = None THEN 0
    ELSE (IF builder.for = Refresh THEN BuilderDisk ELSE More(BuilderDisk, GuestDisk))
         - builder.disk

\* The memory promised to everything that has been admitted and is not ready
\* fits into what the host has, above the reserve: through concurrent requests,
\* cancelled starts, crashed builders, and differences of unsigned numbers
\* (checkCapacity, pendingMemory).  Nothing is promised to a guest that is ready:
\* what it has is in use, and the model lets it take no more.
MemoryPromisesFit ==
    Total([s \in Slots |-> RamGrowth(s)]) + BuilderRamGrowth + RamReserve <= Available

\* All disks may grow to their limits without touching the reserve or the quota,
\* but for two things that the code does not see.  Blocks that one guest gave back
\* between the two measurements of storage and another took may be credited twice
\* (reserveEnvironment); and an image that was built for a lease with large disks
\* takes room that was reserved for those disks (admitBuild, the larger peak).  Each
\* is bounded, and the next admission that is granted sees what they did.
DiskGrowthReserved ==
    LET growth == Total([s \in Slots |-> DiskGrowth(s)]) + BuilderDiskGrowth IN
    /\ Used + growth + DiskReserve <= TotalDisk + slack
    /\ DiskBudget # 0 => BudgetUsed + growth <= DiskBudget + slack
=============================================================================
