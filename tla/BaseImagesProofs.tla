-------------------------- MODULE BaseImagesProofs --------------------------
(***************************************************************************)
(* The safety properties of the base image registry, for any number of     *)
(* slots, builds, leases and faults.                                       *)
(*                                                                         *)
(* ImagesInv relates the registry on disk to the copy of the process that  *)
(* holds the lock, step by step of its program counter: which of the two   *)
(* is ahead, what Incus may still do, and which images are in use.         *)
(***************************************************************************)
EXTENDS BaseImages, WellFoundedInduction, TLAPS

\* The steps of the holder, by what they find in its copy of the registry.
IdlePcs     == {"survey", "prune", "forget", "select", "build", "pin"}
DeletePcs   == {"capture", "receipt", "delete", "images", "cleaned", "clear"}
BuildPcs    == {"create", "creating", "publish", "publishing"}
Pcs         == IdlePcs \cup {"inspect"} \cup DeletePcs \cup BuildPcs \cup {"failed", "unlock"}

Holder == [kind : {"prepare", "refresh", "reap"}, slot : Slots, reg : Registry,
           base : 0 .. MaxBuilds, pins : SUBSET (0 .. MaxBuilds), building : BOOLEAN,
           prev : SUBSET Base, pc : Pcs]

RegistryType == registry \in Registry
HolderType   == holder = NoHolder \/ holder \in Holder
IncusType    == /\ images \subseteq Keys /\ instance \in 0 .. MaxBuilds
                /\ operation = NoOperation
                      \/ operation \in [kind : {"create", "publish"}, key : Keys]
LeaseType    == /\ lease \in [Slots -> {"free", "provisioning", "live", "draining"}]
                /\ pin \in [Slots -> 0 .. MaxBuilds] /\ machine \in [Slots -> 0 .. MaxBuilds]
                /\ leases \in Nat
SpoolType    == incidents \subseteq Keys /\ cleaned \subseteq Keys
WorldType    == upstream \in Upstreams /\ builds \in 0 .. MaxBuilds /\ faults \in Nat

ImagesTypeOK == RegistryType /\ HolderType /\ IncusType /\ LeaseType /\ SpoolType /\ WorldType

KeysOf(bases) == {b.key : b \in bases}

\* A build or a base has a key that was given out, and a base has its own.
BasesOK(bases) == /\ \A b \in bases : b.key <= builds
                  /\ \A b, c \in bases : b.key = c.key => b = c
BuildOK(build) == /\ build.key <= builds
                  /\ build.key = 0 => build = NoBuild
                  /\ build.incident => build.key \in incidents

\* The staging record once its incident is in the spool.
Reported(build) == [key |-> build.key, failure |-> build.failure, incident |-> TRUE]

\* Incus works for the build on record only, and a base that is committed while
\* its staging is still on record has its image.
RecordInv ==
    /\ BasesOK(registry.bases) /\ BuildOK(registry.build)
    /\ instance \in {0, registry.build.key} /\ operation.key \in {0, registry.build.key}
    /\ operation.kind = "create" => instance = 0
    /\ registry.build.key \in KeysOf(registry.bases) => registry.build.key \in images
    /\ \A k \in cleaned : k <= builds

\* The copy and the file differ in what the next write is about, and where the
\* last write of a cleanup has failed.
CopyInv ==
    /\ BasesOK(holder.reg.bases) /\ BuildOK(holder.reg.build) /\ BasesOK(holder.prev)
    /\ \/ holder.reg.bases = registry.bases
       \/ holder.pc \in {"forget", "unlock"} /\ ~holder.building /\ holder.reg.build = NoBuild
    /\ \/ holder.reg.build = registry.build
       \/ holder.pc = "receipt" /\ holder.reg.build = Reported(registry.build)
       \/ /\ holder.pc \in {"failed", "unlock"} /\ "clear" \in Failing
          /\ holder.reg.build = NoBuild /\ instance = 0 /\ operation = NoOperation
    /\ holder.pc = "forget" =>
          /\ holder.reg.bases \subseteq registry.bases
          /\ Latest(registry.bases) \subseteq holder.reg.bases

\* What the holder has reached at each step.
StepInv ==
    LET build == holder.reg.build  pc == holder.pc IN
    /\ pc \in IdlePcs => build = NoBuild /\ ~holder.building
    /\ pc \in {"inspect"} \cup DeletePcs \cup BuildPcs => build.key # 0
    /\ pc \in BuildPcs => /\ holder.building /\ holder.base = 0
                          /\ build.key \notin cleaned
                          /\ build.key \notin KeysOf(holder.reg.bases)
    /\ pc = "creating" => operation.kind # "publish"
    /\ pc = "publishing" => \/ operation.kind = "publish"
                            \/ build.key \in images
    /\ pc \in {"create", "creating", "capture", "receipt"} => ~registry.build.incident
    /\ pc = "receipt" => build.incident
    /\ pc \in DeletePcs => operation = NoOperation
    /\ pc = "delete" /\ build.failure => build.incident
    /\ pc \in {"images", "cleaned", "clear"} => instance = 0
    /\ pc \in {"cleaned", "clear"} /\ build.key \in images
          => build.key \in KeysOf(holder.reg.bases)

\* The base that the holder has built or chosen.
BaseInv ==
    LET pc == holder.pc  base == holder.base IN
    /\ base # 0 => base \in images
    /\ pc \in {"inspect"} \cup DeletePcs /\ base # 0 =>
          /\ base = holder.reg.build.key /\ base \in KeysOf(holder.reg.bases)
    /\ pc = "select" /\ base # 0 => base \in KeysOf(holder.reg.bases)
    /\ pc \in {"survey", "prune", "forget", "build"} => base = 0
    /\ pc = "pin" => base # 0
    /\ holder.building /\ base # 0 => holder.reg.build.key \in {0, base}
                                         /\ ("clear" \notin Failing => holder.reg.build.key = base)
    /\ holder.kind = "refresh" =>
          /\ pc \notin {"survey", "prune", "forget", "pin"}
          /\ pc = "select" => base # 0
          /\ pc = "failed" => base = 0 \/ holder.building
          /\ holder.building /\ base # 0 =>
                base = registry.build.key \/ holder.reg.bases = holder.prev
          /\ base = 0 \/ holder.building =>
                {b \in holder.reg.bases : b.key # base} = {b \in holder.prev : b.key # base}

\* A pruner knows every image that is in use.
PinsInv ==
    holder.pc \in {"prune", "forget"} =>
       \A s \in Slots : {pin[s], machine[s]} \subseteq holder.pins \cup {0}

\* An image has a base or a staging record, unless the last write of a cleanup
\* may fail.
ImagesAccounted(reg) ==
    "clear" \notin Failing => images \subseteq KeysOf(reg.bases) \cup {reg.build.key}

HolderInv == CopyInv /\ StepInv /\ BaseInv /\ PinsInv /\ ImagesAccounted(holder.reg)

ImagesInv ==
    /\ ImagesTypeOK /\ RecordInv /\ ImagesAccounted(registry)
    /\ InUseImageKept /\ CleanedMeansGone
    /\ holder # NoHolder => HolderInv

-----------------------------------------------------------------------------
(* Facts that every step uses.                                             *)

\* A holder is told from a free lock by its kind.
LEMMA HolderIsHeld == holder \in Holder => holder # NoHolder
  BY DEF Holder, NoHolder

LEMMA HolderIsHeldNext == holder' \in Holder => holder' # NoHolder
  BY DEF Holder, NoHolder

\* A holder that goes on with another copy keeps the rest of its record.
LEMMA HolderMoves ==
  ASSUME holder \in Holder, NEW pc \in Pcs, NEW reg \in Registry,
         holder' = [holder EXCEPT !.pc = pc, !.reg = reg]
  PROVE  /\ holder' \in Holder /\ holder' # NoHolder
         /\ holder'.pc = pc /\ holder'.reg = reg
         /\ holder'.kind = holder.kind /\ holder'.slot = holder.slot
         /\ holder'.base = holder.base /\ holder'.pins = holder.pins
         /\ holder'.building = holder.building /\ holder'.prev = holder.prev
<1>1. holder' \in Holder
  BY DEF Holder
<1> QED  BY <1>1, HolderIsHeldNext DEF Holder

\* Changing a record of the registry leaves the rest of it alone.
LEMMA RegistryParts ==
  ASSUME NEW reg \in Registry
  PROVE  /\ reg.bases \subseteq Base /\ reg.build \in Build /\ reg.retry \in BOOLEAN
         /\ reg.build.key \in 0 .. MaxBuilds
         /\ reg.build.failure \in BOOLEAN /\ reg.build.incident \in BOOLEAN
         /\ \A b \in reg.bases : b.key \in Keys /\ b.up \in Upstreams /\ b.unusable \in BOOLEAN
  BY DEF Registry, Build, Base

LEMMA BuildsEqual ==
  ASSUME NEW a \in Build, NEW b \in Build,
         a.key = b.key, a.failure = b.failure, a.incident = b.incident
  PROVE  a = b
  BY DEF Build

LEMMA NoBuildIsABuild == NoBuild \in Build /\ NoBuild.key = 0 /\ ~NoBuild.incident /\ ~NoBuild.failure
  BY ImagesAssumption DEF NoBuild, Build

\* Where an operation goes when it fails.
LEMMA OnErrorIsAStep == OnError \in {"failed", "unlock"}
  BY DEF OnError

\* What a step that touches leases only leaves as it was.
LEMMA LeaseStepsKeep ==
  ASSUME ImagesInv, UNCHANGED <<registry, holder, images, instance, operation, incidents,
                                cleaned, builds>>
  PROVE  /\ RegistryType' /\ HolderType' /\ IncusType' /\ SpoolType'
         /\ RecordInv' /\ ImagesAccounted(registry)' /\ CleanedMeansGone'
         /\ holder' # NoHolder =>
               CopyInv' /\ StepInv' /\ BaseInv' /\ ImagesAccounted(holder.reg)'
<1>1. /\ RegistryType' /\ HolderType' /\ IncusType' /\ SpoolType'
      /\ RecordInv' /\ ImagesAccounted(registry)' /\ CleanedMeansGone'
  BY DEF ImagesInv, ImagesTypeOK, RegistryType, HolderType, IncusType, SpoolType, RecordInv,
         ImagesAccounted, CleanedMeansGone, BasesOK, BuildOK, KeysOf
<1>2. ASSUME holder' # NoHolder
      PROVE  CopyInv' /\ StepInv' /\ BaseInv' /\ ImagesAccounted(holder.reg)'
  BY <1>2 DEF ImagesInv, HolderInv, CopyInv, StepInv, BaseInv, ImagesAccounted, BasesOK,
              BuildOK, KeysOf, Latest, Reported
<1> QED  BY <1>1, <1>2

-----------------------------------------------------------------------------
(* Leases come and go while the lock is held.                              *)

LEMMA AcquireKeeps ==
  ASSUME ImagesInv, NEW s \in Slots, Acquire(s)
  PROVE  ImagesInv'
<1> USE DEF leaseVars, incusVars, spoolVars
<1>1. UNCHANGED <<registry, holder, images, instance, operation, incidents, cleaned, builds>>
  BY DEF Acquire
<1>2. LeaseType' /\ WorldType'
  BY DEF Acquire, ImagesInv, ImagesTypeOK, LeaseType, WorldType
<1>3. InUseImageKept' /\ (holder' # NoHolder => PinsInv')
  BY DEF Acquire, ImagesInv, HolderInv, InUseImageKept, PinsInv
<1> QED  BY <1>1, <1>2, <1>3, LeaseStepsKeep DEF ImagesInv, ImagesTypeOK, HolderInv

LEMMA CreateMachinesKeeps ==
  ASSUME ImagesInv, NEW s \in Slots, CreateMachines(s)
  PROVE  ImagesInv'
<1> USE DEF leaseVars, incusVars, spoolVars
<1>1. UNCHANGED <<registry, holder, images, instance, operation, incidents, cleaned, builds>>
  BY DEF CreateMachines
<1>2. LeaseType' /\ WorldType'
  BY DEF CreateMachines, ImagesInv, ImagesTypeOK, LeaseType, WorldType
<1>3. InUseImageKept' /\ (holder' # NoHolder => PinsInv')
  BY DEF CreateMachines, ImagesInv, ImagesTypeOK, LeaseType, HolderInv, InUseImageKept, PinsInv
<1> QED  BY <1>1, <1>2, <1>3, LeaseStepsKeep DEF ImagesInv, ImagesTypeOK, HolderInv

LEMMA DrainKeeps ==
  ASSUME ImagesInv, NEW s \in Slots, Drain(s)
  PROVE  ImagesInv'
<1> USE DEF leaseVars, incusVars, spoolVars
<1>1. UNCHANGED <<registry, holder, images, instance, operation, incidents, cleaned, builds>>
  BY DEF Drain
<1>2. LeaseType' /\ WorldType'
  BY DEF Drain, ImagesInv, ImagesTypeOK, LeaseType, WorldType
<1>3. InUseImageKept' /\ (holder' # NoHolder => PinsInv')
  BY DEF Drain, ImagesInv, HolderInv, InUseImageKept, PinsInv
<1> QED  BY <1>1, <1>2, <1>3, LeaseStepsKeep DEF ImagesInv, ImagesTypeOK, HolderInv

LEMMA DeleteMachinesKeeps ==
  ASSUME ImagesInv, NEW s \in Slots, DeleteMachines(s)
  PROVE  ImagesInv'
<1> USE DEF leaseVars, incusVars, spoolVars
<1>1. UNCHANGED <<registry, holder, images, instance, operation, incidents, cleaned, builds>>
  BY DEF DeleteMachines
<1>2. LeaseType' /\ WorldType'
  BY ImagesAssumption DEF DeleteMachines, ImagesInv, ImagesTypeOK, LeaseType, WorldType
<1>3. InUseImageKept' /\ (holder' # NoHolder => PinsInv')
  BY DEF DeleteMachines, ImagesInv, ImagesTypeOK, LeaseType, HolderInv, InUseImageKept, PinsInv
<1> QED  BY <1>1, <1>2, <1>3, LeaseStepsKeep DEF ImagesInv, ImagesTypeOK, HolderInv

LEMMA clearLeaseKeeps ==
  ASSUME ImagesInv, NEW s \in Slots, clearLease(s)
  PROVE  ImagesInv'
<1> USE DEF leaseVars, incusVars, spoolVars
<1>1. UNCHANGED <<registry, holder, images, instance, operation, incidents, cleaned, builds>>
  BY DEF clearLease
<1>2. LeaseType' /\ WorldType'
  BY ImagesAssumption DEF clearLease, ImagesInv, ImagesTypeOK, LeaseType, WorldType
<1>3. InUseImageKept' /\ (holder' # NoHolder => PinsInv')
  BY DEF clearLease, ImagesInv, ImagesTypeOK, LeaseType, HolderInv, InUseImageKept, PinsInv
<1> QED  BY <1>1, <1>2, <1>3, LeaseStepsKeep DEF ImagesInv, ImagesTypeOK, HolderInv

LEMMA RebuildPoolKeeps ==
  ASSUME ImagesInv, NEW s \in Slots, RebuildPool(s)
  PROVE  ImagesInv'
<1> USE DEF leaseVars, incusVars, spoolVars
<1>1. UNCHANGED <<registry, holder, images, instance, operation, incidents, cleaned, builds>>
  BY DEF RebuildPool
<1>2. LeaseType' /\ WorldType'
  BY ImagesAssumption DEF RebuildPool, ImagesInv, ImagesTypeOK, LeaseType, WorldType
<1>3. InUseImageKept' /\ (holder' # NoHolder => PinsInv')
  BY DEF RebuildPool, ImagesInv, ImagesTypeOK, LeaseType, HolderInv, InUseImageKept, PinsInv
<1> QED  BY <1>1, <1>2, <1>3, LeaseStepsKeep DEF ImagesInv, ImagesTypeOK, HolderInv

LEMMA UpstreamMovesKeeps ==
  ASSUME ImagesInv, UpstreamMoves
  PROVE  ImagesInv'
<1> USE DEF leaseVars, incusVars, spoolVars
<1>1. UNCHANGED <<registry, holder, images, instance, operation, incidents, cleaned, builds>>
  BY DEF UpstreamMoves
<1>2. LeaseType' /\ WorldType'
  BY DEF UpstreamMoves, ImagesInv, ImagesTypeOK, LeaseType, WorldType
<1>3. InUseImageKept' /\ (holder' # NoHolder => PinsInv')
  BY DEF UpstreamMoves, ImagesInv, HolderInv, InUseImageKept, PinsInv
<1> QED  BY <1>1, <1>2, <1>3, LeaseStepsKeep DEF ImagesInv, ImagesTypeOK, HolderInv

-----------------------------------------------------------------------------
(* Taking and dropping the lock.                                           *)

\* Dropping the lock leaves the registry on disk as the only record.
LEMMA UnlockKeeps ==
  ASSUME ImagesInv, Unlock, faults' \in Nat,
         UNCHANGED <<registry, leaseVars, incusVars, spoolVars, upstream, builds>>
  PROVE  ImagesInv'
<1> USE DEF leaseVars, incusVars, spoolVars, Unlock
<1>1. ImagesTypeOK'
  BY DEF ImagesInv, ImagesTypeOK, RegistryType, HolderType, IncusType, LeaseType, SpoolType,
         WorldType
<1>2. RecordInv' /\ ImagesAccounted(registry)' /\ InUseImageKept' /\ CleanedMeansGone'
  BY DEF ImagesInv, RecordInv, ImagesAccounted, InUseImageKept, CleanedMeansGone, BasesOK,
         BuildOK, KeysOf
<1> QED  BY <1>1, <1>2 DEF ImagesInv

LEMMA ReleaseKeeps ==
  ASSUME ImagesInv, Release
  PROVE  ImagesInv'
  BY UnlockKeeps DEF Release, ImagesInv, ImagesTypeOK, WorldType

LEMMA CrashKeeps ==
  ASSUME ImagesInv, Crash
  PROVE  ImagesInv'
  BY UnlockKeeps DEF Crash, ImagesInv, ImagesTypeOK, WorldType

\* The copy starts as the registry on disk.
LEMMA BeginKeeps ==
  ASSUME ImagesInv, NEW kind \in {"prepare", "refresh", "reap"}, NEW s \in Slots,
         Begin(kind, s)
  PROVE  ImagesInv'
<1> USE DEF leaseVars, incusVars, spoolVars
<1>1. UNCHANGED <<registry, images, instance, operation, lease, pin, machine, upstream,
                  incidents, cleaned, builds, leases, faults>>
  BY DEF Begin
<1>2. /\ holder' \in Holder /\ holder' # NoHolder
      /\ holder'.reg = registry /\ holder'.prev = registry.bases /\ holder'.base = 0
      /\ holder'.building = FALSE /\ holder'.kind = kind
      /\ \/ registry.build # NoBuild /\ holder'.pc = "inspect"
         \/ registry.build = NoBuild /\ holder'.pc = (IF kind = "refresh" THEN "build" ELSE "survey")
  <2>1. registry \in Registry /\ registry.bases \in SUBSET Base /\ 0 \in 0 .. MaxBuilds
    BY ImagesAssumption DEF ImagesInv, ImagesTypeOK, RegistryType, Registry
  <2>2. holder' \in Holder
    BY <2>1 DEF Begin, Holder, Pcs, IdlePcs
  <2> QED  BY <2>2, HolderIsHeldNext DEF Begin
<1>3. ImagesTypeOK'
  BY <1>1, <1>2 DEF ImagesInv, ImagesTypeOK, RegistryType, HolderType, IncusType, LeaseType,
                    SpoolType, WorldType
<1>4. RecordInv' /\ ImagesAccounted(registry)' /\ InUseImageKept' /\ CleanedMeansGone'
  BY <1>1 DEF ImagesInv, RecordInv, ImagesAccounted, InUseImageKept, CleanedMeansGone,
              BasesOK, BuildOK, KeysOf
<1>5. CopyInv'
  BY <1>1, <1>2 DEF ImagesInv, RecordInv, CopyInv, BasesOK, BuildOK
<1>6. StepInv'
  BY <1>1, <1>2 DEF ImagesInv, RecordInv, StepInv, BuildOK, IdlePcs, DeletePcs, BuildPcs
<1>7. BaseInv' /\ PinsInv' /\ ImagesAccounted(holder.reg)'
  BY <1>1, <1>2 DEF ImagesInv, BaseInv, PinsInv, ImagesAccounted, KeysOf, DeletePcs
<1> QED  BY <1>3, <1>4, <1>5, <1>6, <1>7 DEF ImagesInv, HolderInv

-----------------------------------------------------------------------------
(* The world outside.                                                      *)

LEMMA RetryDueKeeps ==
  ASSUME ImagesInv, RetryDue
  PROVE  ImagesInv'
<1> USE DEF leaseVars, incusVars, spoolVars
<1>1. UNCHANGED <<images, instance, operation, lease, pin, machine, upstream,
                  incidents, cleaned, builds, leases, faults>>
  BY DEF RetryDue
<1>2. registry' \in Registry /\ registry'.bases = registry.bases /\ registry'.build = registry.build
  BY DEF RetryDue, ImagesInv, ImagesTypeOK, RegistryType, Registry
<1>3. CASE holder = NoHolder
  <2>1. holder' = NoHolder
    BY <1>3 DEF RetryDue
  <2>2. ImagesTypeOK'
    BY <1>1, <1>2, <2>1 DEF ImagesInv, ImagesTypeOK, RegistryType, HolderType, IncusType,
                            LeaseType, SpoolType, WorldType
  <2>3. RecordInv' /\ ImagesAccounted(registry)' /\ InUseImageKept' /\ CleanedMeansGone'
    BY <1>1, <1>2 DEF ImagesInv, RecordInv, ImagesAccounted, InUseImageKept, CleanedMeansGone,
                BasesOK, BuildOK, KeysOf
  <2> QED  BY <2>1, <2>2, <2>3 DEF ImagesInv
<1>4. CASE holder # NoHolder
  <2>1. holder \in Holder
    BY <1>4 DEF ImagesInv, ImagesTypeOK, HolderType
  <2>2. /\ holder' \in Holder /\ holder'.pc = holder.pc /\ holder'.kind = holder.kind
        /\ holder'.base = holder.base /\ holder'.pins = holder.pins
        /\ holder'.building = holder.building /\ holder'.prev = holder.prev
        /\ holder'.reg.bases = holder.reg.bases /\ holder'.reg.build = holder.reg.build
    <3>1. holder' = [holder EXCEPT !.reg = [holder.reg EXCEPT !.retry = FALSE]]
      BY <1>4, <2>1 DEF RetryDue, Holder
    <3>2. holder.reg \in Registry /\ [holder.reg EXCEPT !.retry = FALSE] \in Registry
      BY <2>1 DEF Holder, Registry
    <3>3. /\ [holder.reg EXCEPT !.retry = FALSE].bases = holder.reg.bases
          /\ [holder.reg EXCEPT !.retry = FALSE].build = holder.reg.build
      BY <3>2 DEF Registry
    <3> QED  BY <2>1, <3>1, <3>2, <3>3 DEF Holder
  <2>3. ImagesTypeOK'
    BY <1>1, <1>2, <2>2 DEF ImagesInv, ImagesTypeOK, RegistryType, HolderType, IncusType,
                            LeaseType, SpoolType, WorldType
  <2>4. RecordInv' /\ ImagesAccounted(registry)' /\ InUseImageKept' /\ CleanedMeansGone'
    BY <1>1, <1>2 DEF ImagesInv, RecordInv, ImagesAccounted, InUseImageKept, CleanedMeansGone,
                BasesOK, BuildOK, KeysOf
  <2>5. CopyInv' /\ StepInv'
    BY <1>1, <1>2, <1>4, <2>2 DEF ImagesInv, HolderInv, CopyInv, StepInv, BasesOK, BuildOK,
          KeysOf, Latest, Reported
  <2>6. BaseInv' /\ PinsInv' /\ ImagesAccounted(holder.reg)'
    BY <1>1, <1>2, <1>4, <2>2 DEF ImagesInv, HolderInv, BaseInv, PinsInv, ImagesAccounted, KeysOf
  <2> QED  BY <2>3, <2>4, <2>5, <2>6 DEF ImagesInv, HolderInv
<1> QED  BY <1>3, <1>4

LEMMA ImageRemovedKeeps ==
  ASSUME ImagesInv, ImageRemoved
  PROVE  ImagesInv'
<1> USE DEF leaseVars, incusVars, spoolVars
<1>1. UNCHANGED <<registry, holder, instance, operation, lease, pin, machine, upstream,
                  incidents, cleaned, builds, leases>> /\ holder = NoHolder
  BY DEF ImageRemoved
<1>2. PICK k \in images \ {registry.build.key} :
         /\ \A s \in Slots : k \notin {pin[s], machine[s]}
         /\ images' = images \ {k}
  BY DEF ImageRemoved
<1>3. ImagesTypeOK'
  BY <1>1, <1>2 DEF ImageRemoved, ImagesInv, ImagesTypeOK, RegistryType, HolderType, IncusType,
                    LeaseType, SpoolType, WorldType
<1>4. RecordInv' /\ ImagesAccounted(registry)' /\ InUseImageKept' /\ CleanedMeansGone'
  BY <1>1, <1>2 DEF ImagesInv, RecordInv, ImagesAccounted, InUseImageKept, CleanedMeansGone,
                    BasesOK, BuildOK, KeysOf
<1> QED  BY <1>1, <1>3, <1>4 DEF ImagesInv

LEMMA IncusFinishesKeeps ==
  ASSUME ImagesInv, IncusFinishes
  PROVE  ImagesInv'
<1> USE DEF leaseVars, incusVars, spoolVars
<1>1. /\ UNCHANGED <<registry, holder, lease, pin, machine, upstream, incidents, cleaned,
                     builds, leases, faults>>
      /\ operation \in [kind : {"create", "publish"}, key : Keys] /\ operation' = NoOperation
      /\ operation.key # 0 /\ operation # NoOperation
      /\ \/ operation.kind = "create" /\ instance' = operation.key /\ images' = images
         \/ /\ operation.kind = "publish" /\ images' = images \cup {operation.key}
            /\ instance' = instance
  BY DEF IncusFinishes, ImagesInv, ImagesTypeOK, IncusType, Keys
<1>a. IncusType'
  <2>1. operation.key \in Keys /\ operation.key \in 0 .. MaxBuilds
    BY <1>1, ImagesAssumption DEF Keys
  <2> QED  BY <1>1, <2>1 DEF ImagesInv, ImagesTypeOK, IncusType
<1>2. ImagesTypeOK'
  BY <1>1, <1>a DEF ImagesInv, ImagesTypeOK, RegistryType, HolderType, LeaseType,
                    SpoolType, WorldType
<1>b. operation.key = registry.build.key
  BY <1>1 DEF ImagesInv, RecordInv
<1>c. RecordInv'
  BY <1>1, <1>b DEF ImagesInv, RecordInv, BasesOK, BuildOK, KeysOf, NoOperation
<1>d. CleanedMeansGone'
  <2>1. \A k \in cleaned : k # 0
    BY ImagesAssumption DEF ImagesInv, ImagesTypeOK, SpoolType, Keys
  <2> QED  BY <1>1, <2>1 DEF ImagesInv, CleanedMeansGone, NoOperation
<1>3. RecordInv' /\ ImagesAccounted(registry)' /\ InUseImageKept' /\ CleanedMeansGone'
  BY <1>1, <1>b, <1>c, <1>d DEF ImagesInv, ImagesAccounted, InUseImageKept, KeysOf
<1>4. ASSUME holder # NoHolder  PROVE HolderInv'
  <2>0. operation.key = registry.build.key /\ HolderInv /\ holder \in Holder
    BY <1>1, <1>4 DEF ImagesInv, RecordInv, ImagesTypeOK, HolderType
  <2>1. CopyInv'
    BY <1>1, <2>0 DEF HolderInv, CopyInv, BasesOK, BuildOK, Latest, Reported
  <2>2. StepInv'
    <3>1. holder.pc \notin DeletePcs
      BY <1>1, <2>0 DEF HolderInv, StepInv
    <3>2. holder.pc = "publishing" => holder.reg.build.key \in images'
      <4>1. ASSUME holder.pc = "publishing"  PROVE holder.reg.build = registry.build
        BY <2>0, <4>1 DEF HolderInv, CopyInv, Reported
      <4> QED  BY <1>1, <2>0, <4>1 DEF HolderInv, StepInv
    <3> QED  BY <1>1, <2>0, <3>1, <3>2 DEF HolderInv, StepInv, DeletePcs, NoOperation
  <2>3. BaseInv' /\ PinsInv'
    BY <1>1, <2>0 DEF HolderInv, BaseInv, PinsInv, KeysOf
  <2>4. operation.key = holder.reg.build.key
    BY <1>1, <2>0 DEF HolderInv, CopyInv, Reported
  <2>5. ImagesAccounted(holder.reg)'
    BY <1>1, <2>0, <2>4 DEF HolderInv, ImagesAccounted, KeysOf
  <2> QED  BY <2>1, <2>2, <2>3, <2>5 DEF HolderInv
<1> QED  BY <1>1, <1>2, <1>3, <1>4 DEF ImagesInv

-----------------------------------------------------------------------------
(* The steps of the holder.                                                *)

\* A step of the holder that leaves Incus, the leases and the spool alone.
LEMMA QuietSteps ==
  ASSUME ImagesInv, registry' \in Registry, holder' \in Holder, faults' \in Nat,
         UNCHANGED <<leaseVars, incusVars, spoolVars, upstream, builds>>
  PROVE  ImagesTypeOK' /\ InUseImageKept' /\ CleanedMeansGone'
  BY DEF ImagesInv, ImagesTypeOK, RegistryType, HolderType, IncusType, LeaseType, SpoolType,
         WorldType, InUseImageKept, CleanedMeansGone, leaseVars, incusVars, spoolVars

\* What holds of the file holds as long as it and what it is about stay.
LEMMA FileKept ==
  ASSUME ImagesInv, UNCHANGED <<registry, images, instance, operation, incidents, cleaned, builds>>
  PROVE  RecordInv' /\ ImagesAccounted(registry)'
  BY DEF ImagesInv, RecordInv, ImagesAccounted, BasesOK, BuildOK, KeysOf

\* The holder goes on with the copy that it has.
LEMMA HolderTypes ==
  ASSUME ImagesInv, holder # NoHolder
  PROVE  /\ holder \in Holder /\ holder.reg \in Registry /\ registry \in Registry
         /\ HolderInv /\ faults \in Nat
  BY DEF ImagesInv, ImagesTypeOK, HolderType, RegistryType, WorldType, Holder

\* An operation that fails ends, or first writes a retry deadline.
LEMMA FailsKeeps ==
  ASSUME ImagesInv, holder # NoHolder, holder.pc # "receipt", Fails, faults' \in Nat,
         UNCHANGED <<leaseVars, incusVars, spoolVars, upstream, builds>>
  PROVE  ImagesInv'
<1> USE DEF leaseVars, incusVars, spoolVars
<1>0. holder \in Holder /\ holder.reg \in Registry /\ registry \in Registry /\ HolderInv
  BY HolderTypes
<1>1. UNCHANGED registry /\ holder' = [holder EXCEPT !.pc = OnError, !.reg = holder.reg]
  BY DEF Fails, Goto
<1>2. OnError \in Pcs /\ OnError \in {"failed", "unlock"}
  BY OnErrorIsAStep DEF Pcs
<1>3. /\ holder' \in Holder /\ holder' # NoHolder /\ holder'.pc = OnError /\ holder'.reg = holder.reg
      /\ holder'.kind = holder.kind /\ holder'.base = holder.base /\ holder'.pins = holder.pins
      /\ holder'.building = holder.building /\ holder'.prev = holder.prev
  BY <1>0, <1>1, <1>2, HolderMoves
<1>4. OnError = "failed" =>
         holder.building \/ (holder.kind = "reap" /\ holder.reg.build # NoBuild)
  BY DEF OnError
<1>5. CopyInv'
  BY <1>0, <1>1, <1>2, <1>3, <1>4 DEF HolderInv, CopyInv, BasesOK, BuildOK, Reported, Latest
<1>6. StepInv'
  BY <1>2, <1>3 DEF StepInv, IdlePcs, DeletePcs, BuildPcs
<1>7. BaseInv'
  BY <1>0, <1>1, <1>2, <1>3, <1>4 DEF HolderInv, BaseInv, KeysOf, DeletePcs
<1>8. PinsInv' /\ ImagesAccounted(holder.reg)'
  BY <1>0, <1>2, <1>3 DEF HolderInv, PinsInv, ImagesAccounted, KeysOf
<1>9. ImagesTypeOK' /\ InUseImageKept' /\ CleanedMeansGone'
  BY <1>0, <1>1, <1>3, QuietSteps
<1>10. RecordInv' /\ ImagesAccounted(registry)'
  BY <1>1, FileKept
<1> QED  BY <1>3, <1>5, <1>6, <1>7, <1>8, <1>9, <1>10 DEF ImagesInv, HolderInv

LEMMA CallFailsKeeps ==
  ASSUME ImagesInv, CallFails
  PROVE  ImagesInv'
<1>1. faults' \in Nat
  BY DEF CallFails, ImagesInv, ImagesTypeOK, WorldType
<1> QED  BY <1>1, FailsKeeps DEF CallFails

LEMMA InspectKeeps ==
  ASSUME ImagesInv, Inspect
  PROVE  ImagesInv'
<1> USE DEF leaseVars, incusVars, spoolVars
<1>0. /\ holder \in Holder /\ holder.reg \in Registry /\ registry \in Registry /\ HolderInv
      /\ holder # NoHolder /\ holder.pc = "inspect" /\ faults \in Nat
  BY HolderTypes DEF Inspect, At
<1>1. CASE Busy
  BY <1>0, <1>1, FailsKeeps DEF Inspect
<1>2. CASE ~Busy
  <2> DEFINE next == IF holder.reg.build.failure /\ ~holder.reg.build.incident
                     THEN "capture" ELSE "delete"
  <2>1. holder' = [holder EXCEPT !.pc = next, !.reg = holder.reg] /\ UNCHANGED registry
    BY <1>2 DEF Inspect, Goto
  <2>2. next \in Pcs /\ next \in {"capture", "delete"}
    BY DEF Pcs, DeletePcs
  <2>3. /\ holder' \in Holder /\ holder' # NoHolder /\ holder'.pc = next /\ holder'.reg = holder.reg
        /\ holder'.kind = holder.kind /\ holder'.base = holder.base /\ holder'.pins = holder.pins
        /\ holder'.building = holder.building /\ holder'.prev = holder.prev
    BY <1>0, <2>1, <2>2, HolderMoves
  <2>4. operation = NoOperation /\ UNCHANGED <<images, instance, operation, incidents, cleaned, builds>>
    BY <1>2 DEF Inspect, Busy, ImagesInv, ImagesTypeOK, IncusType, RecordInv
  <2>a. holder.reg.build = registry.build /\ holder.reg.build.key # 0
    BY <1>0 DEF HolderInv, CopyInv, StepInv
  <2>b. /\ next = "capture" => ~registry.build.incident
        /\ next = "delete" /\ holder.reg.build.failure => holder.reg.build.incident
    BY <2>a
  <2>5. CopyInv'
    BY <1>0, <2>1, <2>2, <2>3, <2>4 DEF HolderInv, CopyInv, BasesOK, BuildOK, Latest
  <2> HIDE DEF next
  <2>6. StepInv'
    BY <1>0, <2>1, <2>2, <2>3, <2>4, <2>a, <2>b DEF HolderInv, StepInv, IdlePcs, DeletePcs, BuildPcs
  <2>7. BaseInv'
    BY <1>0, <2>1, <2>2, <2>3, <2>4 DEF HolderInv, BaseInv, KeysOf, DeletePcs
  <2>8. PinsInv' /\ ImagesAccounted(holder.reg)'
    BY <1>0, <2>2, <2>3, <2>4 DEF HolderInv, PinsInv, ImagesAccounted, KeysOf
  <2>9. ImagesTypeOK' /\ InUseImageKept' /\ CleanedMeansGone'
    BY <1>0, <2>1, <2>3, QuietSteps DEF Inspect
  <2>10. RecordInv' /\ ImagesAccounted(registry)'
    BY <2>1, <2>4, FileKept
  <2> QED  BY <2>3, <2>5, <2>6, <2>7, <2>8, <2>9, <2>10 DEF ImagesInv, HolderInv
<1> QED  BY <1>1, <1>2

LEMMA CaptureKeeps ==
  ASSUME ImagesInv, Capture
  PROVE  ImagesInv'
<1> USE DEF leaseVars, incusVars, spoolVars
<1> DEFINE reg == [holder.reg EXCEPT !.build.incident = TRUE]
<1>0. /\ holder \in Holder /\ holder.reg \in Registry /\ registry \in Registry /\ HolderInv
      /\ holder # NoHolder /\ holder.pc = "capture" /\ faults \in Nat
  BY HolderTypes DEF Capture, At
<1>1. /\ holder' = [holder EXCEPT !.pc = "receipt", !.reg = reg] /\ UNCHANGED registry
      /\ incidents' = incidents \cup {holder.reg.build.key}
      /\ UNCHANGED <<images, instance, operation, lease, pin, machine, leases, cleaned, upstream,
                     builds, faults>>
  BY DEF Capture, Goto
<1>2. /\ reg \in Registry /\ reg.bases = holder.reg.bases
      /\ reg.build = Reported(holder.reg.build) /\ Reported(holder.reg.build) \in Build
      /\ reg.build.key = holder.reg.build.key /\ reg.build.incident
  BY <1>0 DEF Registry, Build, Reported
<1>3. /\ holder.reg.build = registry.build /\ holder.reg.build.key # 0
      /\ holder.reg.build.key \in Keys
  <2>1. holder.reg.build.key \in 0 .. MaxBuilds
    BY <1>0, RegistryParts
  <2> QED  BY <1>0, <2>1, ImagesAssumption DEF HolderInv, CopyInv, StepInv, DeletePcs, Keys
<1> HIDE DEF reg
<1>4. /\ holder' \in Holder /\ holder' # NoHolder /\ holder'.pc = "receipt" /\ holder'.reg = reg
      /\ holder'.kind = holder.kind /\ holder'.base = holder.base /\ holder'.pins = holder.pins
      /\ holder'.building = holder.building /\ holder'.prev = holder.prev
  <2>1. "receipt" \in Pcs
    BY DEF Pcs, DeletePcs
  <2> QED  BY <1>0, <1>1, <1>2, <2>1, HolderMoves
<1>5. CopyInv'
  BY <1>0, <1>1, <1>2, <1>3, <1>4 DEF HolderInv, CopyInv, BasesOK, BuildOK, Latest
<1>6. StepInv'
  BY <1>0, <1>1, <1>2, <1>3, <1>4 DEF HolderInv, StepInv, IdlePcs, DeletePcs, BuildPcs
<1>7. BaseInv'
  BY <1>0, <1>1, <1>2, <1>4 DEF HolderInv, BaseInv, KeysOf, DeletePcs
<1>8. PinsInv' /\ ImagesAccounted(holder.reg)'
  BY <1>0, <1>1, <1>2, <1>4 DEF HolderInv, PinsInv, ImagesAccounted, KeysOf
<1>9. ImagesTypeOK' /\ InUseImageKept' /\ CleanedMeansGone'
  BY <1>0, <1>1, <1>3, <1>4 DEF ImagesInv, ImagesTypeOK, RegistryType, HolderType, IncusType,
     LeaseType, SpoolType, WorldType, InUseImageKept, CleanedMeansGone
<1>10. RecordInv' /\ ImagesAccounted(registry)'
  BY <1>1 DEF ImagesInv, RecordInv, ImagesAccounted, BasesOK, BuildOK, KeysOf
<1> QED  BY <1>4, <1>5, <1>6, <1>7, <1>8, <1>9, <1>10 DEF ImagesInv, HolderInv

LEMMA saveBuilderIncidentKeeps ==
  ASSUME ImagesInv, saveBuilderIncident
  PROVE  ImagesInv'
<1> USE DEF leaseVars, incusVars, spoolVars
<1>0. /\ holder \in Holder /\ holder.reg \in Registry /\ registry \in Registry /\ HolderInv
      /\ holder # NoHolder /\ holder.pc = "receipt" /\ faults \in Nat
      /\ UNCHANGED <<images, instance, operation, lease, pin, machine, leases, incidents,
                     cleaned, upstream, builds>>
  BY HolderTypes DEF saveBuilderIncident, At
<1>a. /\ holder.reg.build.key # 0 /\ holder.reg.build.key = registry.build.key
      /\ holder.reg.build = Reported(registry.build) /\ holder.reg.build.incident
      /\ ~registry.build.incident /\ holder.reg.bases = registry.bases
  <2>1. holder.reg.build.incident /\ ~registry.build.incident /\ holder.reg.build.key # 0
    BY <1>0 DEF HolderInv, StepInv, DeletePcs
  <2> QED  BY <1>0, <2>1 DEF HolderInv, CopyInv, Reported
<1>1. CASE /\ Save(IF holder.base = 0 /\ holder.building THEN "failed" ELSE "delete", holder.reg)
           /\ UNCHANGED faults
  <2> DEFINE next == IF holder.base = 0 /\ holder.building THEN "failed" ELSE "delete"
  <2>1. holder' = [holder EXCEPT !.pc = next, !.reg = holder.reg] /\ registry' = holder.reg
    BY <1>1 DEF Save
  <2>2. /\ next \in Pcs /\ next \in {"failed", "delete"}
        /\ next = "failed" => holder.base = 0
    BY DEF Pcs, DeletePcs
  <2> HIDE DEF next
  <2>3. /\ holder' \in Holder /\ holder' # NoHolder /\ holder'.pc = next /\ holder'.reg = holder.reg
        /\ holder'.kind = holder.kind /\ holder'.base = holder.base /\ holder'.pins = holder.pins
        /\ holder'.building = holder.building /\ holder'.prev = holder.prev
    BY <1>0, <2>1, <2>2, HolderMoves
  <2>5. CopyInv'
    BY <1>0, <2>1, <2>2, <2>3 DEF HolderInv, CopyInv, BasesOK, BuildOK, Latest
  <2>6. StepInv'
    BY <1>0, <1>a, <2>1, <2>2, <2>3 DEF HolderInv, StepInv, IdlePcs, DeletePcs, BuildPcs
  <2>7. BaseInv'
    BY <1>0, <1>a, <2>1, <2>2, <2>3 DEF HolderInv, BaseInv, KeysOf, DeletePcs
  <2>8. PinsInv' /\ ImagesAccounted(holder.reg)'
    BY <1>0, <2>2, <2>3 DEF HolderInv, PinsInv, ImagesAccounted, KeysOf
  <2>9. ImagesTypeOK' /\ InUseImageKept' /\ CleanedMeansGone'
    BY <1>0, <1>1, <2>1, <2>3, QuietSteps
  <2>10. RecordInv'
    BY <1>0, <1>a, <2>1 DEF ImagesInv, RecordInv, HolderInv, CopyInv, BasesOK, BuildOK, KeysOf
  <2>11. ImagesAccounted(registry)'
    BY <1>0, <2>1 DEF HolderInv, ImagesAccounted, KeysOf
  <2> QED  BY <2>3, <2>5, <2>6, <2>7, <2>8, <2>9, <2>10, <2>11 DEF ImagesInv, HolderInv
<1>2. CASE /\ faults' = faults + 1 /\ UNCHANGED registry
           /\ holder' = [holder EXCEPT !.reg.build.incident = FALSE, !.pc = OnError]
  <2> DEFINE reg == [holder.reg EXCEPT !.build.incident = FALSE]
  <2>1. holder' = [holder EXCEPT !.pc = OnError, !.reg = reg]
    BY <1>0, <1>2 DEF Holder
  <2>2. reg \in Registry /\ reg.bases = holder.reg.bases
    BY <1>0 DEF Registry, Build
  <2>3. reg.build = registry.build
    <3>1. registry.build \in Build /\ holder.reg.build \in Build
      BY <1>0 DEF Registry
    <3>2. /\ reg.build = [holder.reg.build EXCEPT !.incident = FALSE]
          /\ registry.build.incident = FALSE
      BY <1>0, <1>a, <3>1 DEF Registry, Build
    <3>3. /\ reg.build.key = holder.reg.build.key /\ reg.build.failure = holder.reg.build.failure
          /\ reg.build.incident = FALSE /\ reg.build \in Build
      BY <3>1, <3>2 DEF Build
    <3>4. holder.reg.build.failure = registry.build.failure
      BY <1>a DEF Reported
    <3> QED  BY <1>a, <3>1, <3>2, <3>3, <3>4, BuildsEqual
  <2> HIDE DEF reg
  <2>4. OnError \in Pcs /\ OnError \in {"failed", "unlock"}
    BY OnErrorIsAStep DEF Pcs
  <2>5. /\ holder' \in Holder /\ holder' # NoHolder /\ holder'.pc = OnError /\ holder'.reg = reg
        /\ holder'.kind = holder.kind /\ holder'.base = holder.base /\ holder'.pins = holder.pins
        /\ holder'.building = holder.building /\ holder'.prev = holder.prev
    BY <1>0, <2>1, <2>2, <2>4, HolderMoves
  <2>6. CopyInv'
    BY <1>0, <1>2, <1>a, <2>2, <2>3, <2>4, <2>5
       DEF ImagesInv, RecordInv, HolderInv, CopyInv, BasesOK, BuildOK
  <2>7. StepInv'
    BY <2>4, <2>5 DEF StepInv, IdlePcs, DeletePcs, BuildPcs
  <2>8. OnError = "failed" => holder.building \/ holder.kind = "reap"
    BY DEF OnError
  <2>a. UNCHANGED registry
    BY <1>2
  <2>9. BaseInv'
    BY <1>0, <1>a, <2>a, <2>2, <2>3, <2>4, <2>5, <2>8 DEF HolderInv, BaseInv, KeysOf, DeletePcs
  <2>10. PinsInv' /\ ImagesAccounted(holder.reg)'
    BY <1>0, <1>a, <2>2, <2>3, <2>4, <2>5 DEF HolderInv, PinsInv, ImagesAccounted, KeysOf
  <2>11. ImagesTypeOK' /\ InUseImageKept' /\ CleanedMeansGone'
    <3>1. faults' \in Nat
      BY <1>0, <1>2
    <3> QED  BY <1>0, <1>2, <2>5, <3>1, QuietSteps
  <2>12. RecordInv' /\ ImagesAccounted(registry)'
    BY <1>0, <1>2, FileKept
  <2> QED  BY <2>5, <2>6, <2>7, <2>9, <2>10, <2>11, <2>12 DEF ImagesInv, HolderInv
<1> QED  BY <1>1, <1>2 DEF saveBuilderIncident

LEMMA DeleteInstanceKeeps ==
  ASSUME ImagesInv, DeleteInstance
  PROVE  ImagesInv'
<1> USE DEF leaseVars, incusVars, spoolVars
<1>0. /\ holder \in Holder /\ holder.reg \in Registry /\ registry \in Registry /\ HolderInv
      /\ holder # NoHolder /\ holder.pc = "delete" /\ faults \in Nat
  BY HolderTypes DEF DeleteInstance, At
<1>1. /\ holder' = [holder EXCEPT !.pc = "images", !.reg = holder.reg] /\ UNCHANGED registry
      /\ instance' = 0
      /\ UNCHANGED <<images, operation, lease, pin, machine, leases, incidents, cleaned, upstream,
                     builds, faults>>
  BY DEF DeleteInstance, Goto
<1>2. "images" \in Pcs
  BY DEF Pcs, DeletePcs
<1>3. /\ holder' \in Holder /\ holder' # NoHolder /\ holder'.pc = "images"
      /\ holder'.reg = holder.reg
      /\ holder'.kind = holder.kind /\ holder'.base = holder.base /\ holder'.pins = holder.pins
      /\ holder'.building = holder.building /\ holder'.prev = holder.prev
  BY <1>0, <1>1, <1>2, HolderMoves
<1>4. CopyInv'
  BY <1>0, <1>1, <1>3 DEF HolderInv, CopyInv, BasesOK, BuildOK, Latest
<1>5. StepInv'
  BY <1>0, <1>1, <1>3 DEF HolderInv, StepInv, IdlePcs, DeletePcs, BuildPcs
<1>6. BaseInv' /\ PinsInv' /\ ImagesAccounted(holder.reg)'
  BY <1>0, <1>1, <1>3 DEF HolderInv, BaseInv, PinsInv, ImagesAccounted, KeysOf, DeletePcs
<1>7. ImagesTypeOK' /\ InUseImageKept'
  BY <1>0, <1>1, <1>3, ImagesAssumption DEF ImagesInv, ImagesTypeOK, RegistryType, HolderType,
     IncusType, LeaseType, SpoolType, WorldType, InUseImageKept
<1>8. CleanedMeansGone'
  BY <1>1, ImagesAssumption DEF ImagesInv, ImagesTypeOK, SpoolType, Keys, CleanedMeansGone
<1>9. RecordInv' /\ ImagesAccounted(registry)'
  BY <1>1 DEF ImagesInv, RecordInv, ImagesAccounted, BasesOK, BuildOK, KeysOf
<1> QED  BY <1>3, <1>4, <1>5, <1>6, <1>7, <1>8, <1>9 DEF ImagesInv, HolderInv

LEMMA DeleteUncommittedKeeps ==
  ASSUME ImagesInv, DeleteUncommitted
  PROVE  ImagesInv'
<1> USE DEF leaseVars, incusVars, spoolVars
<1> DEFINE key == holder.reg.build.key
           committed == key \in KeysOf(holder.reg.bases)
           used == \E s \in Slots : key \in {pin[s], machine[s]}
<1>0. /\ holder \in Holder /\ holder.reg \in Registry /\ registry \in Registry /\ HolderInv
      /\ holder # NoHolder /\ holder.pc = "images" /\ faults \in Nat
  BY HolderTypes DEF DeleteUncommitted, At
<1>1. UNCHANGED <<instance, operation, lease, pin, machine, leases, incidents, cleaned, upstream,
                  builds, faults>>
  BY DEF DeleteUncommitted
<1>2. \/ Fails /\ images' = images
      \/ /\ key \in images /\ ~committed /\ ~used
         /\ images' = images \ {key} /\ Goto("cleaned", holder.reg)
      \/ (key \notin images \/ committed) /\ images' = images /\ Goto("cleaned", holder.reg)
  BY DEF DeleteUncommitted, KeysOf
<1>3. CASE Fails /\ images' = images
  BY <1>0, <1>1, <1>3, FailsKeeps
<1>4. CASE Goto("cleaned", holder.reg) /\ images \ {key} \subseteq images' /\ images' \subseteq images
           /\ (key \notin images' \/ (committed /\ images' = images))
           /\ (images' # images => ~used /\ ~committed)
  <2>1. "cleaned" \in Pcs /\ holder' = [holder EXCEPT !.pc = "cleaned", !.reg = holder.reg]
        /\ UNCHANGED registry
    BY <1>4 DEF Pcs, DeletePcs, Goto
  <2>2. /\ holder' \in Holder /\ holder' # NoHolder /\ holder'.pc = "cleaned"
        /\ holder'.reg = holder.reg
        /\ holder'.kind = holder.kind /\ holder'.base = holder.base /\ holder'.pins = holder.pins
        /\ holder'.building = holder.building /\ holder'.prev = holder.prev
    BY <1>0, <2>1, HolderMoves
  <2>3. registry.build = holder.reg.build /\ registry.bases = holder.reg.bases
    BY <1>0 DEF HolderInv, CopyInv
  <2>4. holder.base # 0 => holder.base = key /\ committed
    BY <1>0 DEF HolderInv, BaseInv, DeletePcs
  <2>5. CopyInv'
    BY <1>0, <1>1, <2>1, <2>2 DEF HolderInv, CopyInv, BasesOK, BuildOK, Latest
  <2>6. StepInv'
    BY <1>0, <1>1, <1>4, <2>1, <2>2 DEF HolderInv, StepInv, IdlePcs, DeletePcs, BuildPcs, KeysOf
  <2>7. BaseInv'
    BY <1>0, <1>1, <1>4, <2>1, <2>2, <2>4 DEF HolderInv, BaseInv, KeysOf, DeletePcs
  <2>8. PinsInv' /\ ImagesAccounted(holder.reg)'
    BY <1>0, <1>1, <1>4, <2>2 DEF HolderInv, PinsInv, ImagesAccounted, KeysOf
  <2>9. ImagesTypeOK'
    BY <1>0, <1>1, <1>4, <2>1, <2>2 DEF ImagesInv, ImagesTypeOK, RegistryType, HolderType,
       IncusType, LeaseType, SpoolType, WorldType
  <2>10. InUseImageKept' /\ CleanedMeansGone'
    BY <1>1, <1>4 DEF ImagesInv, InUseImageKept, CleanedMeansGone
  <2>11. RecordInv' /\ ImagesAccounted(registry)'
    BY <1>1, <1>4, <2>1, <2>3 DEF ImagesInv, RecordInv, ImagesAccounted, BasesOK, BuildOK, KeysOf
  <2> QED  BY <2>2, <2>5, <2>6, <2>7, <2>8, <2>9, <2>10, <2>11 DEF ImagesInv, HolderInv
<1> HIDE DEF key, committed, used
<1> QED  BY <1>2, <1>3, <1>4

LEMMA RecordCleanedKeeps ==
  ASSUME ImagesInv, RecordCleaned
  PROVE  ImagesInv'
<1> USE DEF leaseVars, incusVars, spoolVars
<1>0. /\ holder \in Holder /\ holder.reg \in Registry /\ registry \in Registry /\ HolderInv
      /\ holder # NoHolder /\ holder.pc = "cleaned" /\ faults \in Nat
  BY HolderTypes DEF RecordCleaned, At
<1>1. /\ holder' = [holder EXCEPT !.pc = "clear", !.reg = holder.reg] /\ UNCHANGED registry
      /\ cleaned \subseteq cleaned' /\ cleaned' \subseteq cleaned \cup {holder.reg.build.key}
      /\ UNCHANGED <<images, instance, operation, lease, pin, machine, leases, incidents, upstream,
                     builds, faults>>
  BY DEF RecordCleaned, Goto
<1>2. "clear" \in Pcs
  BY DEF Pcs, DeletePcs
<1>3. /\ holder' \in Holder /\ holder' # NoHolder /\ holder'.pc = "clear"
      /\ holder'.reg = holder.reg
      /\ holder'.kind = holder.kind /\ holder'.base = holder.base /\ holder'.pins = holder.pins
      /\ holder'.building = holder.building /\ holder'.prev = holder.prev
  BY <1>0, <1>1, <1>2, HolderMoves
<1>4. /\ holder.reg.build.key # 0 /\ instance = 0 /\ operation = NoOperation
      /\ holder.reg.build.key \in Keys /\ holder.reg.build.key <= builds
  <2>1. holder.reg.build.key \in 0 .. MaxBuilds
    BY <1>0, RegistryParts
  <2> QED  BY <1>0, <2>1, ImagesAssumption
           DEF HolderInv, StepInv, CopyInv, BuildOK, DeletePcs, Keys
<1>5. CopyInv'
  BY <1>0, <1>1, <1>3 DEF HolderInv, CopyInv, BasesOK, BuildOK, Latest
<1>6. StepInv'
  BY <1>0, <1>1, <1>3 DEF HolderInv, StepInv, IdlePcs, DeletePcs, BuildPcs, KeysOf
<1>7. BaseInv' /\ PinsInv' /\ ImagesAccounted(holder.reg)'
  BY <1>0, <1>1, <1>3 DEF HolderInv, BaseInv, PinsInv, ImagesAccounted, KeysOf, DeletePcs
<1>8. ImagesTypeOK' /\ InUseImageKept'
  BY <1>0, <1>1, <1>3, <1>4 DEF ImagesInv, ImagesTypeOK, RegistryType, HolderType,
     IncusType, LeaseType, SpoolType, WorldType, InUseImageKept
<1>9. CleanedMeansGone'
  BY <1>1, <1>4 DEF ImagesInv, CleanedMeansGone, NoOperation
<1>10. RecordInv' /\ ImagesAccounted(registry)'
  BY <1>1, <1>4 DEF ImagesInv, RecordInv, ImagesAccounted, BasesOK, BuildOK, KeysOf
<1> QED  BY <1>3, <1>5, <1>6, <1>7, <1>8, <1>9, <1>10 DEF ImagesInv, HolderInv

LEMMA ClearBuildKeeps ==
  ASSUME ImagesInv, ClearBuild
  PROVE  ImagesInv'
<1> USE DEF leaseVars, incusVars, spoolVars
<1> DEFINE reg == [holder.reg EXCEPT !.build = NoBuild]
           next == IF holder.base # 0 THEN "select"
                   ELSE IF holder.kind = "refresh" THEN "build" ELSE "survey"
<1>0. /\ holder \in Holder /\ holder.reg \in Registry /\ registry \in Registry /\ HolderInv
      /\ holder # NoHolder /\ holder.pc = "clear" /\ faults \in Nat
      /\ UNCHANGED <<images, instance, operation, lease, pin, machine, leases, incidents,
                     cleaned, upstream, builds>>
  BY HolderTypes DEF ClearBuild, At
<1>1. /\ reg \in Registry /\ reg.bases = holder.reg.bases /\ reg.build = NoBuild
      /\ reg.build.key = 0 /\ ~reg.build.incident /\ 0 <= builds
  <2>1. 0 <= builds
    BY ImagesAssumption DEF ImagesInv, ImagesTypeOK, WorldType
  <2> QED  BY <1>0, <2>1, NoBuildIsABuild DEF Registry
<1>2. /\ instance = 0 /\ operation = NoOperation /\ holder.reg.bases = registry.bases
      /\ holder.reg.build.key \in images => holder.reg.build.key \in KeysOf(holder.reg.bases)
  BY <1>0 DEF HolderInv, CopyInv, StepInv, DeletePcs
<1>3. \A b \in holder.reg.bases : b.key # 0
  BY <1>0, RegistryParts, ImagesAssumption DEF Keys
<1>4. CASE /\ registry' = reg /\ UNCHANGED faults
           /\ holder' = [holder EXCEPT !.pc = next, !.reg = reg, !.building = FALSE]
  <2>1. next \in Pcs
    BY DEF Pcs, IdlePcs
  <2>2. /\ holder' \in Holder /\ holder'.pc = next /\ holder'.reg = reg
        /\ holder'.kind = holder.kind /\ holder'.base = holder.base /\ holder'.pins = holder.pins
        /\ holder'.building = FALSE /\ holder'.prev = holder.prev
    <3> HIDE DEF next, reg
    <3> QED  BY <1>0, <1>1, <1>4, <2>1 DEF Holder
  <2>3. /\ next \in {"select", "build", "survey"}
        /\ next = "select" <=> holder.base # 0
        /\ holder.kind = "refresh" => next # "survey"
    OBVIOUS
  <2> HIDE DEF next, reg
  <2>4. CopyInv'
    BY <1>0, <1>1, <1>4, <2>2, <2>3 DEF HolderInv, CopyInv, BasesOK, BuildOK
  <2>5. StepInv'
    BY <1>1, <2>2, <2>3 DEF StepInv, IdlePcs, DeletePcs, BuildPcs
  <2>6. BaseInv'
    BY <1>0, <1>1, <2>2, <2>3 DEF HolderInv, BaseInv, KeysOf, DeletePcs
  <2>7. PinsInv' /\ ImagesAccounted(holder.reg)' /\ ImagesAccounted(registry)'
    BY <1>0, <1>1, <1>2, <1>4, <2>2, <2>3 DEF HolderInv, PinsInv, ImagesAccounted, KeysOf
  <2>8. ImagesTypeOK' /\ InUseImageKept' /\ CleanedMeansGone'
    BY <1>0, <1>1, <1>4, <2>2, QuietSteps
  <2>9. RecordInv'
    BY <1>0, <1>1, <1>2, <1>3, <1>4 DEF ImagesInv, RecordInv, HolderInv, CopyInv, BasesOK,
       BuildOK, KeysOf, NoOperation
  <2> QED  BY <2>2, <2>4, <2>5, <2>6, <2>7, <2>8, <2>9, HolderIsHeldNext DEF ImagesInv, HolderInv
<1>5. CASE faults' = faults + 1 /\ "clear" \in Failing /\ Goto(OnError, reg)
  <2>1. OnError \in Pcs /\ OnError \in {"failed", "unlock"}
    BY OnErrorIsAStep DEF Pcs
  <2>2. OnError = "failed" => holder.building \/ holder.kind = "reap"
    BY DEF OnError
  <2> HIDE DEF next, reg
  <2>3. /\ holder' \in Holder /\ holder' # NoHolder /\ holder'.pc = OnError /\ holder'.reg = reg
        /\ holder'.kind = holder.kind /\ holder'.base = holder.base /\ holder'.pins = holder.pins
        /\ holder'.building = holder.building /\ holder'.prev = holder.prev
        /\ UNCHANGED registry
    BY <1>0, <1>1, <1>5, <2>1, HolderMoves DEF Goto
  <2>4. CopyInv'
    BY <1>0, <1>1, <1>2, <1>5, <2>1, <2>3 DEF HolderInv, CopyInv, BasesOK, BuildOK
  <2>5. StepInv'
    BY <2>1, <2>3 DEF StepInv, IdlePcs, DeletePcs, BuildPcs
  <2>6. BaseInv'
    BY <1>0, <1>1, <1>5, <2>1, <2>2, <2>3 DEF HolderInv, BaseInv, KeysOf, DeletePcs
  <2>7. PinsInv' /\ ImagesAccounted(holder.reg)'
    BY <1>5, <2>1, <2>3 DEF PinsInv, ImagesAccounted
  <2>8. ImagesTypeOK' /\ InUseImageKept' /\ CleanedMeansGone'
    <3>1. faults' \in Nat
      BY <1>0, <1>5
    <3> QED  BY <1>0, <2>3, <3>1, QuietSteps
  <2>9. RecordInv' /\ ImagesAccounted(registry)'
    BY <1>0, <2>3, FileKept
  <2> QED  BY <2>3, <2>4, <2>5, <2>6, <2>7, <2>8, <2>9 DEF ImagesInv, HolderInv
<1> QED  BY <1>4, <1>5 DEF ClearBuild

-----------------------------------------------------------------------------
(* Keys are numbers, so there is an oldest and a newest base.              *)

\* Every set of numbers has a least one.
LEMMA LeastNumber ==
  ASSUME NEW T, T \subseteq Nat, T # {}
  PROVE  \E x \in T : \A y \in T : x <= y
<1>1. \E x \in T : \A y \in T : ~ (<<y, x>> \in OpToRel(<, Nat))
  BY WFMin, NatLessThanWellFounded
<1>2. PICK x \in T : \A y \in T : ~ (<<y, x>> \in OpToRel(<, Nat))
  BY <1>1
<1>3. ASSUME NEW y \in T  PROVE x <= y
  <2>1. ~ (<<y, x>> \in OpToRel(<, Nat))
    BY <1>2
  <2>2. ~ (y < x)
    BY <2>1 DEF OpToRel
  <2> QED  BY <2>2
<1> QED  BY <1>3

LEMMA OldestBase ==
  ASSUME NEW S, S \subseteq Base, S # {}
  PROVE  \E b \in S : \A c \in S : b.key <= c.key
<1> DEFINE T == {b.key : b \in S}
<1>1. T \subseteq Nat /\ T # {}
  BY ImagesAssumption DEF Base, Keys
<1>2. PICK x \in T : \A y \in T : x <= y
  <2> HIDE DEF T
  <2> QED  BY <1>1, LeastNumber
<1> QED  BY <1>2

LEMMA NewestBase ==
  ASSUME NEW S, S \subseteq Base, S # {}
  PROVE  \E b \in S : \A c \in S : c.key <= b.key
<1> DEFINE T == {MaxBuilds - b.key : b \in S}
<1>0. \A b \in S : b.key \in 1 .. MaxBuilds
  BY DEF Base, Keys
<1>1. T \subseteq Nat /\ T # {}
  BY <1>0, ImagesAssumption
<1>2. PICK x \in T : \A y \in T : x <= y
  <2> HIDE DEF T
  <2> QED  BY <1>1, LeastNumber
<1>3. PICK b \in S : x = MaxBuilds - b.key
  BY <1>2
<1>4. ASSUME NEW c \in S  PROVE c.key <= b.key
  <2>1. x <= MaxBuilds - c.key
    BY <1>2
  <2> QED  BY <1>0, <1>3, <2>1, ImagesAssumption
<1> QED  BY <1>4

-----------------------------------------------------------------------------
(* Failure, pruning and selection.                                         *)

LEMMA FailedKeeps ==
  ASSUME ImagesInv, Failed
  PROVE  ImagesInv'
<1> USE DEF leaseVars, incusVars, spoolVars
<1> DEFINE reg == [holder.reg EXCEPT !.retry = TRUE,
                     !.bases = IF holder.kind = "refresh" THEN holder.prev ELSE @]
<1>0. /\ holder \in Holder /\ holder.reg \in Registry /\ registry \in Registry /\ HolderInv
      /\ holder # NoHolder /\ holder.pc = "failed" /\ faults \in Nat
      /\ holder' = [holder EXCEPT !.pc = "unlock", !.reg = reg] /\ registry' = reg
      /\ UNCHANGED <<images, instance, operation, lease, pin, machine, leases, incidents,
                     cleaned, upstream, builds, faults>>
  BY HolderTypes DEF Failed, At, Save
<1>1. /\ reg \in Registry /\ reg.build = holder.reg.build
      /\ reg.bases = IF holder.kind = "refresh" THEN holder.prev ELSE holder.reg.bases
  <2> DEFINE bases == IF holder.kind = "refresh" THEN holder.prev ELSE holder.reg.bases
  <2>1. bases \in SUBSET Base
    BY <1>0 DEF Holder, Registry
  <2>2. reg = [holder.reg EXCEPT !.retry = TRUE, !.bases = bases]
    BY <1>0 DEF Registry
  <2> HIDE DEF bases, reg
  <2>3. reg \in Registry /\ reg.build = holder.reg.build /\ reg.bases = bases
    BY <1>0, <2>1, <2>2 DEF Registry
  <2> QED  BY <2>3 DEF bases
<1>2. /\ holder.reg.bases = registry.bases
      /\ \/ holder.reg.build = registry.build
         \/ /\ "clear" \in Failing /\ holder.reg.build = NoBuild
            /\ instance = 0 /\ operation = NoOperation
      /\ BasesOK(holder.prev) /\ BasesOK(holder.reg.bases) /\ BuildOK(holder.reg.build)
  BY <1>0 DEF HolderInv, CopyInv
<1>3. /\ holder.base # 0 => holder.base \in images
      /\ holder.kind = "refresh" =>
            /\ holder.base = 0 \/ holder.building
            /\ {b \in holder.reg.bases : b.key # holder.base}
                  = {b \in holder.prev : b.key # holder.base}
      /\ holder.building /\ holder.base # 0 /\ "clear" \notin Failing
            => holder.reg.build.key = holder.base
  BY <1>0 DEF HolderInv, BaseInv
<1>a. \A k : k # holder.base /\ k \in KeysOf(holder.prev) /\ holder.kind = "refresh"
                => k \in KeysOf(holder.reg.bases)
  BY <1>3 DEF KeysOf
<1>b. \A k : k # holder.base /\ k \in KeysOf(holder.reg.bases) /\ holder.kind = "refresh"
                => k \in KeysOf(holder.prev)
  BY <1>3 DEF KeysOf
<1> HIDE DEF reg
<1>c. \A k \in KeysOf(reg.bases) : k # 0
  <2>1. \A b \in reg.bases : b.key \in Keys
    BY <1>1, RegistryParts
  <2> QED  BY <2>1 DEF KeysOf, Keys
<1>4. /\ holder' \in Holder /\ holder' # NoHolder /\ holder'.pc = "unlock" /\ holder'.reg = reg
      /\ holder'.kind = holder.kind /\ holder'.base = holder.base /\ holder'.pins = holder.pins
      /\ holder'.building = holder.building /\ holder'.prev = holder.prev
  <2>1. "unlock" \in Pcs
    BY DEF Pcs
  <2> QED  BY <1>0, <1>1, <2>1, HolderMoves
<1>5. ImagesTypeOK' /\ InUseImageKept' /\ CleanedMeansGone'
  BY <1>0, <1>1, <1>4, QuietSteps
<1>6. reg.build.key \in KeysOf(reg.bases) => reg.build.key \in images
  <2> SUFFICES ASSUME reg.build.key \in KeysOf(reg.bases), reg.build.key # holder.base
               PROVE  reg.build.key \in images
    BY <1>3, <1>c
  <2>1. reg.build.key \in KeysOf(holder.reg.bases)
    BY <1>1, <1>a
  <2>2. reg.build = registry.build
    BY <1>1, <1>2, <1>c, NoBuildIsABuild
  <2> QED  BY <1>2, <2>1, <2>2 DEF ImagesInv, RecordInv
<1>7. BasesOK(reg.bases) /\ BuildOK(reg.build)
  BY <1>1, <1>2
<1>8. RecordInv'
  BY <1>0, <1>1, <1>2, <1>6, <1>7 DEF ImagesInv, RecordInv, BasesOK, BuildOK, KeysOf, NoOperation
<1>9. "clear" \notin Failing => images \subseteq KeysOf(reg.bases) \cup {reg.build.key}
  <2> SUFFICES ASSUME "clear" \notin Failing, NEW k \in images, k # reg.build.key
               PROVE  k \in KeysOf(reg.bases)
    OBVIOUS
  <2>1. k \in KeysOf(holder.reg.bases)
    BY <1>0, <1>1 DEF HolderInv, ImagesAccounted
  <2>2. k # 0
    BY ImagesAssumption DEF ImagesInv, ImagesTypeOK, IncusType, Keys
  <2>3. holder.kind = "refresh" => k # holder.base
    BY <1>1, <1>3, <2>2
  <2> QED  BY <1>1, <1>b, <2>1, <2>3
<1>10. ImagesAccounted(holder.reg)' /\ ImagesAccounted(registry)' /\ PinsInv'
  BY <1>0, <1>4, <1>9 DEF ImagesAccounted, PinsInv, KeysOf
<1>11. CopyInv'
  BY <1>0, <1>2, <1>4, <1>7 DEF CopyInv, BasesOK, BuildOK
<1>12. StepInv'
  BY <1>4 DEF StepInv, IdlePcs, DeletePcs, BuildPcs
<1>13. BaseInv'
  BY <1>0, <1>1, <1>4 DEF HolderInv, BaseInv, DeletePcs, KeysOf
<1> QED  BY <1>4, <1>5, <1>8, <1>10, <1>11, <1>12, <1>13 DEF ImagesInv, HolderInv

LEMMA SurveyKeeps ==
  ASSUME ImagesInv, Survey
  PROVE  ImagesInv'
<1> USE DEF leaseVars, incusVars, spoolVars
<1> DEFINE inUse == {pin[s] : s \in Slots} \cup {machine[s] : s \in Slots}
<1>0. /\ holder \in Holder /\ registry \in Registry /\ HolderInv
      /\ holder # NoHolder /\ holder.pc = "survey" /\ faults \in Nat
      /\ holder' = [holder EXCEPT !.pc = "prune", !.pins = inUse]
      /\ UNCHANGED <<registry, images, instance, operation, lease, pin, machine, leases, incidents,
                     cleaned, upstream, builds, faults>>
  BY HolderTypes DEF Survey, At
<1>1. inUse \in SUBSET (0 .. MaxBuilds) /\ \A s \in Slots : {pin[s], machine[s]} \subseteq inUse
  BY DEF ImagesInv, ImagesTypeOK, LeaseType
<1> HIDE DEF inUse
<1>2. "prune" \in Pcs
  BY DEF Pcs, IdlePcs
<1>3. /\ holder' \in Holder /\ holder'.pc = "prune" /\ holder'.reg = holder.reg
      /\ holder'.kind = holder.kind /\ holder'.base = holder.base /\ holder'.pins = inUse
      /\ holder'.building = holder.building /\ holder'.prev = holder.prev
  BY <1>0, <1>1, <1>2 DEF Holder
<1>4. CopyInv'
  BY <1>0, <1>3 DEF HolderInv, CopyInv, BasesOK, BuildOK
<1>5. StepInv'
  BY <1>0, <1>3 DEF HolderInv, StepInv, IdlePcs, DeletePcs, BuildPcs
<1>6. BaseInv' /\ ImagesAccounted(holder.reg)'
  BY <1>0, <1>3 DEF HolderInv, BaseInv, ImagesAccounted, KeysOf, DeletePcs
<1>7. PinsInv'
  BY <1>0, <1>1, <1>3 DEF PinsInv
<1>8. ImagesTypeOK' /\ InUseImageKept' /\ CleanedMeansGone'
  BY <1>0, <1>3, QuietSteps
<1>9. RecordInv' /\ ImagesAccounted(registry)'
  BY <1>0, FileKept
<1> QED  BY <1>3, <1>4, <1>5, <1>6, <1>7, <1>8, <1>9, HolderIsHeldNext DEF ImagesInv, HolderInv

LEMMA PruneImageKeeps ==
  ASSUME ImagesInv, PruneImage
  PROVE  ImagesInv'
<1> USE DEF leaseVars, incusVars, spoolVars
<1> DEFINE drop == Droppable(holder.reg, holder.pins)
           b == CHOOSE b \in drop : \A c \in drop : b.key <= c.key
           reg == [holder.reg EXCEPT !.bases = @ \ {b}]
           next == IF holder.kind = "reap" THEN "unlock" ELSE "select"
<1>0. /\ holder \in Holder /\ holder.reg \in Registry /\ registry \in Registry /\ HolderInv
      /\ holder # NoHolder /\ holder.pc = "prune" /\ faults \in Nat
      /\ UNCHANGED <<instance, operation, lease, pin, machine, leases, incidents,
                     cleaned, upstream, builds, faults>>
  BY HolderTypes DEF PruneImage, At
<1>1. /\ holder.reg.build = NoBuild /\ ~holder.building /\ holder.reg.bases = registry.bases
      /\ registry.build = NoBuild /\ holder.base = 0 /\ holder.kind # "refresh"
  BY <1>0 DEF HolderInv, CopyInv, StepInv, BaseInv, IdlePcs
<1>2. \A c \in holder.reg.bases : c.key \in Keys /\ c.key # 0
  <2>1. \A c \in holder.reg.bases : c.key \in Keys
    BY <1>0, RegistryParts
  <2> QED  BY <2>1, ImagesAssumption DEF Keys
<1>3. CASE drop # {}
  <2>1. b \in drop
    <3>1. drop \subseteq Base
      BY <1>0 DEF Droppable, Registry
    <3> HIDE DEF drop
    <3> QED  BY <1>3, <3>1, OldestBase
  <2>2. b \in holder.reg.bases /\ b.key \notin holder.pins /\ b \notin Latest(holder.reg.bases)
    <3> HIDE DEF b
    <3> QED  BY <2>1 DEF Droppable
  <2>3. /\ images' = images \ {b.key} /\ UNCHANGED registry
        /\ holder' = [holder EXCEPT !.pc = "forget", !.reg = reg]
    BY <1>3 DEF PruneImage, Goto
  <2> HIDE DEF b, drop
  <2>4. reg \in Registry /\ reg.bases = holder.reg.bases \ {b} /\ reg.build = NoBuild
    BY <1>0, <1>1 DEF Registry
  <2> HIDE DEF reg
  <2>5. /\ holder' \in Holder /\ holder' # NoHolder /\ holder'.pc = "forget" /\ holder'.reg = reg
        /\ holder'.kind = holder.kind /\ holder'.base = holder.base /\ holder'.pins = holder.pins
        /\ holder'.building = holder.building /\ holder'.prev = holder.prev
    <3>1. "forget" \in Pcs
      BY DEF Pcs, IdlePcs
    <3> QED  BY <1>0, <2>3, <2>4, <3>1, HolderMoves
  <2>6. CopyInv'
    BY <1>0, <1>1, <2>2, <2>3, <2>4, <2>5 DEF HolderInv, CopyInv, BasesOK, BuildOK, Latest
  <2>7. StepInv'
    BY <1>1, <2>4, <2>5 DEF StepInv, IdlePcs, DeletePcs, BuildPcs
  <2>8. BaseInv'
    BY <1>1, <2>4, <2>5 DEF BaseInv, DeletePcs
  <2>9. PinsInv'
    BY <1>0, <2>5 DEF HolderInv, PinsInv
  <2>10. ImagesAccounted(holder.reg)' /\ ImagesAccounted(registry)'
    BY <1>0, <1>1, <2>3, <2>4, <2>5 DEF ImagesInv, HolderInv, ImagesAccounted, KeysOf
  <2>11. ImagesTypeOK' /\ CleanedMeansGone'
    BY <1>0, <2>3, <2>5 DEF ImagesInv, ImagesTypeOK, RegistryType, HolderType, IncusType,
       LeaseType, SpoolType, WorldType, CleanedMeansGone
  <2>12. InUseImageKept'
    <3>1. \A s \in Slots : b.key \notin {pin[s], machine[s]}
      BY <1>0, <1>2, <2>2 DEF HolderInv, PinsInv
    <3> QED  BY <1>0, <2>3, <3>1 DEF ImagesInv, InUseImageKept
  <2>13. RecordInv'
    <3>1. registry.build.key = 0
      BY <1>1, NoBuildIsABuild
    <3> QED  BY <1>0, <1>1, <1>2, <2>3, <3>1 DEF ImagesInv, RecordInv, BasesOK, BuildOK, KeysOf
  <2> QED  BY <2>5, <2>6, <2>7, <2>8, <2>9, <2>10, <2>11, <2>12, <2>13 DEF ImagesInv, HolderInv
<1>4. CASE drop = {}
  <2>1. /\ images' = images /\ UNCHANGED registry
        /\ holder' = [holder EXCEPT !.pc = next, !.reg = holder.reg]
    BY <1>4 DEF PruneImage, Goto
  <2>2. next \in Pcs /\ next \in {"unlock", "select"}
    BY DEF Pcs, IdlePcs
  <2> HIDE DEF next, b, drop
  <2>3. /\ holder' \in Holder /\ holder' # NoHolder /\ holder'.pc = next
        /\ holder'.reg = holder.reg
        /\ holder'.kind = holder.kind /\ holder'.base = holder.base /\ holder'.pins = holder.pins
        /\ holder'.building = holder.building /\ holder'.prev = holder.prev
    BY <1>0, <2>1, <2>2, HolderMoves
  <2>4. CopyInv'
    BY <1>0, <1>1, <2>1, <2>2, <2>3 DEF HolderInv, CopyInv, BasesOK, BuildOK
  <2>5. StepInv'
    BY <1>1, <2>2, <2>3 DEF StepInv, IdlePcs, DeletePcs, BuildPcs
  <2>6. BaseInv' /\ PinsInv'
    BY <1>1, <2>2, <2>3 DEF BaseInv, PinsInv, DeletePcs
  <2>7. ImagesAccounted(holder.reg)'
    BY <1>0, <2>1, <2>3 DEF HolderInv, ImagesAccounted, KeysOf
  <2>8. ImagesTypeOK' /\ InUseImageKept' /\ CleanedMeansGone'
    BY <1>0, <2>1, <2>3, QuietSteps
  <2>9. RecordInv' /\ ImagesAccounted(registry)'
    BY <1>0, <2>1, FileKept
  <2> QED  BY <2>3, <2>4, <2>5, <2>6, <2>7, <2>8, <2>9 DEF ImagesInv, HolderInv
<1> QED  BY <1>3, <1>4

LEMMA ForgetKeeps ==
  ASSUME ImagesInv, Forget
  PROVE  ImagesInv'
<1> USE DEF leaseVars, incusVars, spoolVars
<1>0. /\ holder \in Holder /\ holder.reg \in Registry /\ registry \in Registry /\ HolderInv
      /\ holder # NoHolder /\ holder.pc = "forget" /\ faults \in Nat
      /\ holder' = [holder EXCEPT !.pc = "prune", !.reg = holder.reg] /\ registry' = holder.reg
      /\ UNCHANGED <<images, instance, operation, lease, pin, machine, leases, incidents,
                     cleaned, upstream, builds, faults>>
  BY HolderTypes DEF Forget, At, Save
<1>1. /\ holder.reg.build = NoBuild /\ ~holder.building /\ registry.build = NoBuild
      /\ holder.base = 0 /\ holder.kind # "refresh"
  BY <1>0 DEF HolderInv, CopyInv, StepInv, BaseInv, IdlePcs
<1>2. \A c \in holder.reg.bases : c.key # 0
  <2>1. \A c \in holder.reg.bases : c.key \in Keys
    BY <1>0, RegistryParts
  <2> QED  BY <2>1, ImagesAssumption DEF Keys
<1>3. /\ holder' \in Holder /\ holder' # NoHolder /\ holder'.pc = "prune"
      /\ holder'.reg = holder.reg
      /\ holder'.kind = holder.kind /\ holder'.base = holder.base /\ holder'.pins = holder.pins
      /\ holder'.building = holder.building /\ holder'.prev = holder.prev
  <2>1. "prune" \in Pcs
    BY DEF Pcs, IdlePcs
  <2> QED  BY <1>0, <2>1, HolderMoves
<1>4. CopyInv'
  BY <1>0, <1>1, <1>3 DEF HolderInv, CopyInv, BasesOK, BuildOK
<1>5. StepInv'
  BY <1>1, <1>3 DEF StepInv, IdlePcs, DeletePcs, BuildPcs
<1>6. BaseInv'
  BY <1>1, <1>3 DEF BaseInv, DeletePcs
<1>7. PinsInv' /\ ImagesAccounted(holder.reg)' /\ ImagesAccounted(registry)'
  BY <1>0, <1>3 DEF HolderInv, PinsInv, ImagesAccounted, KeysOf
<1>8. ImagesTypeOK' /\ InUseImageKept' /\ CleanedMeansGone'
  BY <1>0, <1>3, QuietSteps
<1>9. RecordInv'
  <2>1. registry.build.key = 0
    BY <1>1, NoBuildIsABuild
  <2> QED  BY <1>0, <1>1, <1>2, <2>1 DEF ImagesInv, RecordInv, HolderInv, CopyInv, BasesOK,
           BuildOK, KeysOf
<1> QED  BY <1>3, <1>4, <1>5, <1>6, <1>7, <1>8, <1>9 DEF ImagesInv, HolderInv

LEMMA SelectKeeps ==
  ASSUME ImagesInv, Select
  PROVE  ImagesInv'
<1> USE DEF leaseVars, incusVars, spoolVars
<1>0. /\ holder \in Holder /\ holder.reg \in Registry /\ registry \in Registry /\ HolderInv
      /\ holder # NoHolder /\ holder.pc = "select" /\ faults \in Nat
      /\ UNCHANGED <<images, instance, operation, lease, pin, machine, leases, incidents,
                     cleaned, upstream, builds, faults>>
  BY HolderTypes DEF Select, At
<1>1. /\ holder.reg.build = NoBuild /\ ~holder.building /\ holder.reg.bases = registry.bases
      /\ registry.build = NoBuild
      /\ holder.kind = "refresh" => holder.base # 0
      /\ holder.base # 0 => holder.base \in KeysOf(holder.reg.bases) /\ holder.base \in images
      /\ BasesOK(holder.reg.bases) /\ BasesOK(holder.prev)
      /\ registry.build.key = 0
  BY <1>0, NoBuildIsABuild DEF HolderInv, CopyInv, StepInv, BaseInv, IdlePcs
<1>2. \A c \in holder.reg.bases : c \in Base /\ c.key \in Keys /\ c.key # 0
  <2>1. \A c \in holder.reg.bases : c \in Base /\ c.key \in Keys
    BY <1>0, RegistryParts
  <2> QED  BY <2>1, ImagesAssumption DEF Keys
<1>3. PICK known \in BOOLEAN :
          LET fit == IF holder.base # 0 THEN {b \in holder.reg.bases : b.key = holder.base}
                     ELSE Fitting(holder.reg, known)
              best == CHOOSE b \in fit : \A c \in fit : c.key <= b.key
              lost == [holder.reg EXCEPT !.bases = (@ \ {best})
                                           \cup {[best EXCEPT !.unusable = TRUE]}]
              next == IF ~known \/ holder.reg.retry THEN "unlock" ELSE "build"
          IN IF fit = {} THEN Goto(next, holder.reg)
             ELSE IF best.key \notin images THEN Save(next, lost)
             ELSE /\ registry' = [holder.reg EXCEPT
                                    !.retry = IF holder.base # 0 THEN FALSE ELSE @]
                  /\ holder' = [holder EXCEPT !.base = best.key, !.reg = registry',
                       !.pc = IF holder.kind = "refresh" THEN "unlock" ELSE "pin"]
  BY DEF Select
<1> DEFINE fit == IF holder.base # 0 THEN {b \in holder.reg.bases : b.key = holder.base}
                  ELSE Fitting(holder.reg, known)
           best == CHOOSE b \in fit : \A c \in fit : c.key <= b.key
           lost == [holder.reg EXCEPT !.bases = (@ \ {best})
                                        \cup {[best EXCEPT !.unusable = TRUE]}]
           next == IF ~known \/ holder.reg.retry THEN "unlock" ELSE "build"
<1>4. next \in Pcs /\ next \in {"unlock", "build"}
  BY DEF Pcs, IdlePcs
<1>5. fit \subseteq holder.reg.bases /\ fit \subseteq Base
  BY <1>2 DEF Fitting
<1>6. CASE fit = {}
  <2>1. UNCHANGED registry /\ holder' = [holder EXCEPT !.pc = next, !.reg = holder.reg]
    BY <1>3, <1>6 DEF Goto
  <2>2. holder.base = 0
    BY <1>1, <1>6 DEF KeysOf
  <2> HIDE DEF next, fit, best, lost
  <2>3. /\ holder' \in Holder /\ holder' # NoHolder /\ holder'.pc = next
        /\ holder'.reg = holder.reg
        /\ holder'.kind = holder.kind /\ holder'.base = holder.base /\ holder'.pins = holder.pins
        /\ holder'.building = holder.building /\ holder'.prev = holder.prev
    BY <1>0, <1>4, <2>1, HolderMoves
  <2>4. CopyInv'
    BY <1>0, <1>1, <1>4, <2>1, <2>3 DEF HolderInv, CopyInv, BasesOK, BuildOK
  <2>5. StepInv'
    BY <1>1, <1>4, <2>3 DEF StepInv, IdlePcs, DeletePcs, BuildPcs
  <2>6. BaseInv' /\ PinsInv'
    BY <1>1, <1>4, <2>2, <2>3 DEF BaseInv, PinsInv, DeletePcs
  <2>7. ImagesAccounted(holder.reg)'
    BY <1>0, <2>3 DEF HolderInv, ImagesAccounted, KeysOf
  <2>8. ImagesTypeOK' /\ InUseImageKept' /\ CleanedMeansGone'
    BY <1>0, <2>1, <2>3, QuietSteps
  <2>9. RecordInv' /\ ImagesAccounted(registry)'
    BY <1>0, <2>1, FileKept
  <2> QED  BY <2>3, <2>4, <2>5, <2>6, <2>7, <2>8, <2>9 DEF ImagesInv, HolderInv
<1>7. CASE fit # {}
  <2>1. best \in fit
    <3> HIDE DEF fit
    <3> QED  BY <1>5, <1>7, NewestBase
  <2>2. best \in holder.reg.bases /\ (holder.base # 0 => best.key = holder.base)
    <3> HIDE DEF best
    <3> QED  BY <1>5, <2>1
  <2>3. CASE best.key \notin images
    <3>1. registry' = lost /\ holder' = [holder EXCEPT !.pc = next, !.reg = lost]
      BY <1>3, <1>7, <2>3 DEF Save
    <3>2. holder.base = 0
      BY <1>1, <2>2, <2>3
    <3> HIDE DEF next, fit, best
    <3> DEFINE worn == [best EXCEPT !.unusable = TRUE]
    <3>3. worn \in Base /\ worn.key = best.key
      BY <1>2, <2>2 DEF Base
    <3>4. lost \in Registry /\ lost.build = NoBuild /\ lost.bases = (holder.reg.bases \ {best}) \cup {worn}
      <4> HIDE DEF worn
      <4>1. holder.reg.bases \subseteq Base
        BY <1>2
      <4>2. lost = [holder.reg EXCEPT !.bases = (@ \ {best}) \cup {worn}]
        BY DEF worn
      <4> HIDE DEF lost
      <4> QED  BY <1>0, <1>1, <3>3, <4>1, <4>2 DEF Registry
    <3> HIDE DEF worn, lost
    <3>5. KeysOf(lost.bases) = KeysOf(holder.reg.bases)
      BY <2>2, <3>3, <3>4 DEF KeysOf
    <3>6. BasesOK(lost.bases)
      BY <1>1, <2>2, <3>3, <3>4 DEF BasesOK
    <3>7. /\ holder' \in Holder /\ holder' # NoHolder /\ holder'.pc = next
          /\ holder'.reg = lost
          /\ holder'.kind = holder.kind /\ holder'.base = holder.base /\ holder'.pins = holder.pins
          /\ holder'.building = holder.building /\ holder'.prev = holder.prev
      BY <1>0, <1>4, <3>1, <3>4, HolderMoves
    <3>8. BuildOK(NoBuild)' /\ BasesOK(registry.bases)' /\ BasesOK(holder.prev)'
          /\ 0 \notin KeysOf(registry.bases)'
      <4>1. BuildOK(NoBuild)
        BY <1>0, <1>1 DEF HolderInv, CopyInv
      <4> QED  BY <1>0, <1>1, <1>2, <3>1, <3>5, <3>6, <3>7, <4>1 DEF BuildOK, BasesOK, KeysOf
    <3>9. CopyInv'
      BY <1>4, <3>1, <3>4, <3>7, <3>8 DEF CopyInv
    <3>10. StepInv'
      BY <1>1, <1>4, <3>4, <3>7 DEF StepInv, IdlePcs, DeletePcs, BuildPcs
    <3>11. BaseInv' /\ PinsInv'
      BY <1>1, <1>4, <3>2, <3>7 DEF BaseInv, PinsInv, DeletePcs
    <3>12. ImagesAccounted(holder.reg)' /\ ImagesAccounted(registry)'
      BY <1>0, <1>1, <3>1, <3>4, <3>5, <3>7 DEF HolderInv, ImagesAccounted, KeysOf
    <3>13. ImagesTypeOK' /\ InUseImageKept' /\ CleanedMeansGone'
      BY <1>0, <3>1, <3>4, <3>7, QuietSteps
    <3>14. RecordInv'
      BY <1>0, <1>1, <3>1, <3>4, <3>8 DEF ImagesInv, RecordInv
    <3> QED  BY <3>7, <3>9, <3>10, <3>11, <3>12, <3>13, <3>14 DEF ImagesInv, HolderInv
  <2>4. CASE best.key \in images
    <3> DEFINE reg == [holder.reg EXCEPT !.retry = IF holder.base # 0 THEN FALSE ELSE @]
               step == IF holder.kind = "refresh" THEN "unlock" ELSE "pin"
    <3>1. registry' = reg /\ holder' = [holder EXCEPT !.base = best.key, !.reg = reg, !.pc = step]
      BY <1>3, <1>7, <2>4
    <3>2. best.key \in 0 .. MaxBuilds /\ best.key # 0
      BY <1>2, <2>2, ImagesAssumption DEF Keys
    <3>3. step \in Pcs /\ step = IF holder.kind = "refresh" THEN "unlock" ELSE "pin"
      BY DEF Pcs, IdlePcs
    <3> HIDE DEF next, fit, best, lost, step
    <3>4. reg \in Registry /\ reg.bases = holder.reg.bases /\ reg.build = holder.reg.build
      BY <1>0 DEF Registry
    <3> HIDE DEF reg
    <3>5. /\ holder' \in Holder /\ holder'.pc = step /\ holder'.reg = reg
          /\ holder'.kind = holder.kind /\ holder'.base = best.key /\ holder'.pins = holder.pins
          /\ holder'.building = holder.building /\ holder'.prev = holder.prev
      BY <1>0, <3>1, <3>2, <3>3, <3>4 DEF Holder
    <3>6. CopyInv'
      BY <1>0, <1>1, <3>1, <3>3, <3>4, <3>5 DEF HolderInv, CopyInv, BasesOK, BuildOK
    <3>7. StepInv'
      BY <1>1, <3>3, <3>4, <3>5 DEF StepInv, IdlePcs, DeletePcs, BuildPcs
    <3>8. BaseInv' /\ PinsInv'
      BY <1>0, <1>1, <2>4, <3>2, <3>3, <3>5 DEF BaseInv, PinsInv, DeletePcs
    <3>9. ImagesAccounted(holder.reg)' /\ ImagesAccounted(registry)'
      BY <1>0, <3>1, <3>4, <3>5 DEF HolderInv, ImagesAccounted, KeysOf
    <3>10. ImagesTypeOK' /\ InUseImageKept' /\ CleanedMeansGone'
      BY <1>0, <3>1, <3>4, <3>5, QuietSteps
    <3>11. RecordInv'
      BY <1>0, <1>1, <3>1, <3>4 DEF ImagesInv, RecordInv, BasesOK, BuildOK, KeysOf
    <3> QED  BY <3>5, <3>6, <3>7, <3>8, <3>9, <3>10, <3>11, HolderIsHeldNext DEF ImagesInv, HolderInv
  <2> QED  BY <2>3, <2>4
<1> QED  BY <1>6, <1>7

-----------------------------------------------------------------------------
(* Building a base.                                                        *)

LEMMA StageBuildKeeps ==
  ASSUME ImagesInv, StageBuild
  PROVE  ImagesInv'
<1> USE DEF leaseVars, incusVars, spoolVars
<1> DEFINE build == [key |-> builds + 1, failure |-> TRUE, incident |-> FALSE]
           reg == [holder.reg EXCEPT !.build = build]
<1>0. /\ holder \in Holder /\ holder.reg \in Registry /\ registry \in Registry /\ HolderInv
      /\ holder # NoHolder /\ holder.pc = "build" /\ faults \in Nat
      /\ builds < MaxBuilds /\ builds' = builds + 1 /\ builds \in 0 .. MaxBuilds
      /\ registry' = reg
      /\ holder' = [holder EXCEPT !.pc = "create", !.building = TRUE, !.reg = reg]
      /\ UNCHANGED <<images, instance, operation, lease, pin, machine, leases, incidents,
                     cleaned, upstream, faults>>
  <2>1. builds \in 0 .. MaxBuilds
    BY DEF ImagesInv, ImagesTypeOK, WorldType
  <2> QED  BY <2>1, HolderTypes DEF StageBuild, At
<1>1. /\ holder.reg.build = NoBuild /\ holder.reg.bases = registry.bases
      /\ registry.build = NoBuild /\ registry.build.key = 0
      /\ BasesOK(holder.reg.bases) /\ BasesOK(holder.prev) /\ holder.base = 0
  BY <1>0, NoBuildIsABuild DEF HolderInv, CopyInv, StepInv, BaseInv, IdlePcs
<1>2. \A c \in holder.reg.bases : c.key \in Keys
  BY <1>0, RegistryParts
<1>3. /\ builds + 1 \in Keys /\ builds + 1 \in 0 .. MaxBuilds /\ builds + 1 # 0
      /\ builds + 1 \notin KeysOf(holder.reg.bases)
      /\ builds + 1 \notin cleaned /\ builds + 1 <= builds'
      /\ \A k \in Int : k <= builds => k <= builds'
  <2>1. builds + 1 \in Keys /\ builds + 1 \in 0 .. MaxBuilds /\ builds + 1 # 0
    BY <1>0, ImagesAssumption DEF Keys
  <2>2. builds + 1 \notin KeysOf(holder.reg.bases)
    BY <1>0, <1>1, <1>2, ImagesAssumption DEF BasesOK, KeysOf, Keys
  <2>3. \A k \in cleaned : k \in Int /\ k <= builds
    BY ImagesAssumption DEF ImagesInv, ImagesTypeOK, SpoolType, Keys, RecordInv
  <2> QED  BY <1>0, <2>1, <2>2, <2>3
<1>4. build \in Build /\ build.key = builds + 1 /\ ~build.incident
  BY <1>3 DEF Build
<1> HIDE DEF build
<1>5. reg \in Registry /\ reg.bases = holder.reg.bases /\ reg.build = build
  BY <1>0, <1>4 DEF Registry
<1> HIDE DEF reg
<1>6. /\ holder' \in Holder /\ holder'.pc = "create" /\ holder'.reg = reg
      /\ holder'.kind = holder.kind /\ holder'.base = holder.base /\ holder'.pins = holder.pins
      /\ holder'.building = TRUE /\ holder'.prev = holder.prev
  <2>1. "create" \in Pcs
    BY DEF Pcs, BuildPcs
  <2> QED  BY <1>0, <1>5, <2>1 DEF Holder
<1>7. BasesOK(holder.reg.bases)' /\ BasesOK(holder.prev)' /\ BasesOK(registry.bases)'
  <2>1. holder.prev \subseteq Base /\ holder.reg.bases \subseteq Base
    BY <1>0, RegistryParts DEF Holder
  <2>2. \A c \in Base : c.key \in Int
    BY ImagesAssumption DEF Base, Keys
  <2> QED  BY <1>0, <1>1, <1>3, <1>5, <1>6, <2>1, <2>2 DEF BasesOK
<1>8. BuildOK(holder.reg.build)' /\ BuildOK(registry.build)'
  BY <1>0, <1>3, <1>4, <1>5, <1>6 DEF BuildOK
<1>9. CopyInv'
  BY <1>0, <1>6, <1>7, <1>8 DEF CopyInv
<1>10. StepInv'
  BY <1>0, <1>3, <1>4, <1>5, <1>6, <1>1 DEF StepInv, IdlePcs, DeletePcs, BuildPcs, KeysOf
<1>11. BaseInv' /\ PinsInv'
  BY <1>0, <1>1, <1>5, <1>6 DEF HolderInv, BaseInv, PinsInv, DeletePcs
<1>12. ImagesAccounted(holder.reg)' /\ ImagesAccounted(registry)'
  <2>1. 0 \notin images
    BY DEF ImagesInv, ImagesTypeOK, IncusType, Keys
  <2> QED  BY <1>0, <1>1, <1>5, <1>6, <2>1 DEF HolderInv, ImagesAccounted, KeysOf
<1>13. ImagesTypeOK' /\ InUseImageKept' /\ CleanedMeansGone'
  BY <1>0, <1>3, <1>5, <1>6 DEF ImagesInv, ImagesTypeOK, RegistryType, HolderType, IncusType,
     LeaseType, SpoolType, WorldType, InUseImageKept, CleanedMeansGone
<1>14. RecordInv'
  <2>1. \A k \in cleaned : k \in Int
    BY DEF ImagesInv, ImagesTypeOK, SpoolType, Keys
  <2>2. registry'.build.key \notin KeysOf(registry'.bases)
    BY <1>0, <1>3, <1>4, <1>5
  <2>3. \A k \in cleaned' : k <= builds'
    BY <1>0, <1>3, <2>1 DEF ImagesInv, RecordInv
  <2> QED  BY <1>0, <1>1, <1>7, <1>8, <2>2, <2>3 DEF ImagesInv, RecordInv
<1> QED  BY <1>6, <1>9, <1>10, <1>11, <1>12, <1>13, <1>14, HolderIsHeldNext DEF ImagesInv, HolderInv

LEMMA RefuseBuildKeeps ==
  ASSUME ImagesInv, RefuseBuild
  PROVE  ImagesInv'
<1> USE DEF leaseVars, incusVars, spoolVars
<1>0. /\ holder \in Holder /\ holder.reg \in Registry /\ registry \in Registry /\ HolderInv
      /\ holder # NoHolder /\ holder.pc = "build" /\ faults \in Nat
      /\ UNCHANGED <<registry, images, instance, operation, lease, pin, machine, leases, incidents,
                     cleaned, upstream, builds, faults>>
  BY HolderTypes DEF RefuseBuild, At, Goto
<1>1. PICK pc \in {"unlock", "failed"} : holder' = [holder EXCEPT !.pc = pc, !.reg = holder.reg]
  BY DEF RefuseBuild, Goto
<1>2. pc \in Pcs
  BY DEF Pcs
<1>3. /\ holder' \in Holder /\ holder' # NoHolder /\ holder'.pc = pc /\ holder'.reg = holder.reg
      /\ holder'.kind = holder.kind /\ holder'.base = holder.base /\ holder'.pins = holder.pins
      /\ holder'.building = holder.building /\ holder'.prev = holder.prev
  BY <1>0, <1>1, <1>2, HolderMoves
<1>4. CopyInv'
  BY <1>0, <1>3 DEF HolderInv, CopyInv, BasesOK, BuildOK
<1>5. StepInv'
  BY <1>1, <1>3 DEF StepInv, IdlePcs, DeletePcs, BuildPcs
<1>6. BaseInv' /\ PinsInv'
  BY <1>0, <1>1, <1>3 DEF HolderInv, BaseInv, PinsInv, DeletePcs
<1>7. ImagesAccounted(holder.reg)'
  BY <1>0, <1>3 DEF HolderInv, ImagesAccounted, KeysOf
<1>8. ImagesTypeOK' /\ InUseImageKept' /\ CleanedMeansGone'
  BY <1>0, <1>3, QuietSteps
<1>9. RecordInv' /\ ImagesAccounted(registry)'
  BY <1>0, FileKept
<1> QED  BY <1>3, <1>4, <1>5, <1>6, <1>7, <1>8, <1>9 DEF ImagesInv, HolderInv

\* A builder asks Incus for a machine or an image of the build on record.
LEMMA AskIncusKeeps ==
  ASSUME ImagesInv, holder # NoHolder, NEW kind \in {"create", "publish"},
         kind = "create" => holder.pc = "create" /\ instance = 0,
         kind = "publish" => holder.pc = "publish",
         operation' = [kind |-> kind, key |-> holder.reg.build.key],
         Goto(IF kind = "create" THEN "creating" ELSE "publishing", holder.reg),
         UNCHANGED <<images, instance, leaseVars, spoolVars, upstream, builds, faults>>
  PROVE  ImagesInv'
<1> USE DEF leaseVars, incusVars, spoolVars
<1> DEFINE next == IF kind = "create" THEN "creating" ELSE "publishing"
<1>0. /\ holder \in Holder /\ holder.reg \in Registry /\ registry \in Registry /\ HolderInv
      /\ faults \in Nat /\ holder.pc \in BuildPcs
      /\ holder.pc \in {"create", "publish"}
      /\ holder' = [holder EXCEPT !.pc = next, !.reg = holder.reg] /\ UNCHANGED registry
  BY HolderTypes DEF BuildPcs, Goto
<1>1. /\ holder.reg.build = registry.build /\ holder.reg.bases = registry.bases
      /\ holder.reg.build.key # 0 /\ holder.reg.build.key \in Keys
      /\ holder.reg.build.key \notin cleaned
      /\ holder.building /\ holder.base = 0 /\ holder.reg.build.key \notin KeysOf(holder.reg.bases)
  <2>1. holder.reg.build.key \in 0 .. MaxBuilds
    BY <1>0, RegistryParts
  <2>2. holder.reg.build.key # 0 /\ holder.reg.build.key \notin cleaned
        /\ holder.building /\ holder.base = 0 /\ holder.reg.build.key \notin KeysOf(holder.reg.bases)
    BY <1>0 DEF HolderInv, StepInv
  <2>3. holder.reg.build = registry.build /\ holder.reg.bases = registry.bases
    BY <1>0 DEF HolderInv, CopyInv
  <2> QED  BY <2>1, <2>2, <2>3, ImagesAssumption DEF Keys
<1>2. next \in Pcs /\ next \in {"creating", "publishing"} /\ (next = "creating" <=> kind = "create")
  BY DEF Pcs, BuildPcs
<1> HIDE DEF next
<1>3. /\ holder' \in Holder /\ holder' # NoHolder /\ holder'.pc = next /\ holder'.reg = holder.reg
      /\ holder'.kind = holder.kind /\ holder'.base = holder.base /\ holder'.pins = holder.pins
      /\ holder'.building = holder.building /\ holder'.prev = holder.prev
  BY <1>0, <1>2, HolderMoves
<1>4. CopyInv'
  BY <1>0, <1>1, <1>3 DEF HolderInv, CopyInv, BasesOK, BuildOK, Latest
<1>5. next = "creating" => ~registry.build.incident
  BY <1>0, <1>2 DEF HolderInv, StepInv
<1>6. StepInv'
  BY <1>0, <1>1, <1>2, <1>3, <1>5 DEF StepInv, IdlePcs, DeletePcs, BuildPcs
<1>7. BaseInv' /\ PinsInv'
  BY <1>0, <1>2, <1>3 DEF HolderInv, BaseInv, PinsInv, DeletePcs
<1>8. ImagesAccounted(holder.reg)'
  BY <1>0, <1>3 DEF HolderInv, ImagesAccounted, KeysOf
<1>9. ImagesTypeOK' /\ InUseImageKept'
  BY <1>0, <1>1, <1>3 DEF ImagesInv, ImagesTypeOK, RegistryType, HolderType, IncusType,
     LeaseType, SpoolType, WorldType, InUseImageKept
<1>10. CleanedMeansGone'
  BY <1>1 DEF ImagesInv, CleanedMeansGone
<1>11. RecordInv' /\ ImagesAccounted(registry)'
  BY <1>0, <1>1 DEF ImagesInv, RecordInv, ImagesAccounted, BasesOK, BuildOK, KeysOf
<1> QED  BY <1>3, <1>4, <1>6, <1>7, <1>8, <1>9, <1>10, <1>11 DEF ImagesInv, HolderInv

LEMMA CreateInstanceKeeps ==
  ASSUME ImagesInv, CreateInstance
  PROVE  ImagesInv'
  BY AskIncusKeeps DEF CreateInstance, At

LEMMA PublishKeeps ==
  ASSUME ImagesInv, Publish
  PROVE  ImagesInv'
  BY AskIncusKeeps DEF Publish, At

LEMMA ValidateKeeps ==
  ASSUME ImagesInv, Validate
  PROVE  ImagesInv'
<1> USE DEF leaseVars, incusVars, spoolVars
<1>0. /\ holder \in Holder /\ holder.reg \in Registry /\ registry \in Registry /\ HolderInv
      /\ holder # NoHolder /\ holder.pc = "creating" /\ faults \in Nat
      /\ instance = holder.reg.build.key
      /\ UNCHANGED <<images, instance, operation, lease, pin, machine, leases, incidents,
                     cleaned, upstream, builds, faults>>
  BY HolderTypes DEF Validate, At
<1>1. /\ holder.reg.build = registry.build /\ holder.reg.bases = registry.bases
      /\ holder.reg.build.key # 0 /\ holder.reg.build.key \notin cleaned
      /\ holder.building /\ holder.base = 0 /\ holder.reg.build.key \notin KeysOf(holder.reg.bases)
      /\ ~holder.reg.build.incident /\ operation.kind # "publish"
  BY <1>0 DEF HolderInv, CopyInv, StepInv, BuildPcs
<1>2. operation = NoOperation
  BY <1>0, <1>1 DEF ImagesInv, ImagesTypeOK, IncusType, RecordInv
<1>3. ASSUME NEW next \in {"publish", "capture"}, NEW build \in Build,
             build.key = holder.reg.build.key, ~build.incident,
             Save(next, [holder.reg EXCEPT !.build = build])
      PROVE  ImagesInv'
  <2> DEFINE reg == [holder.reg EXCEPT !.build = build]
  <2>1. reg \in Registry /\ reg.bases = holder.reg.bases /\ reg.build = build
    BY <1>0, <1>3 DEF Registry
  <2>2. registry' = reg /\ holder' = [holder EXCEPT !.pc = next, !.reg = reg] /\ next \in Pcs
    BY <1>3 DEF Save, Pcs, BuildPcs, DeletePcs
  <2> HIDE DEF reg
  <2>3. /\ holder' \in Holder /\ holder' # NoHolder /\ holder'.pc = next /\ holder'.reg = reg
        /\ holder'.kind = holder.kind /\ holder'.base = holder.base /\ holder'.pins = holder.pins
        /\ holder'.building = holder.building /\ holder'.prev = holder.prev
    BY <1>0, <2>1, <2>2, HolderMoves
  <2>4. BuildOK(build)
    BY <1>0, <1>1, <1>3 DEF HolderInv, CopyInv, BuildOK
  <2>5. CopyInv'
    BY <1>0, <1>1, <1>3, <2>1, <2>2, <2>3, <2>4 DEF HolderInv, CopyInv, BasesOK, BuildOK
  <2>6. StepInv'
    BY <1>0, <1>1, <1>2, <1>3, <2>1, <2>2, <2>3 DEF StepInv, IdlePcs, DeletePcs, BuildPcs, KeysOf
  <2>7. BaseInv' /\ PinsInv'
    BY <1>0, <1>1, <1>3, <2>1, <2>3 DEF HolderInv, BaseInv, PinsInv, DeletePcs, KeysOf
  <2>8. ImagesAccounted(holder.reg)' /\ ImagesAccounted(registry)'
    BY <1>0, <1>3, <2>1, <2>2, <2>3 DEF HolderInv, ImagesAccounted, KeysOf
  <2>9. ImagesTypeOK' /\ InUseImageKept' /\ CleanedMeansGone'
    BY <1>0, <2>1, <2>2, <2>3, QuietSteps
  <2>10. RecordInv'
    BY <1>0, <1>1, <1>3, <2>1, <2>2, <2>4 DEF ImagesInv, RecordInv, BasesOK, BuildOK, KeysOf
  <2> QED  BY <2>3, <2>5, <2>6, <2>7, <2>8, <2>9, <2>10 DEF ImagesInv, HolderInv
<1>4. CASE Save("publish", [holder.reg EXCEPT !.build.failure = FALSE])
  <2> DEFINE build == [holder.reg.build EXCEPT !.failure = FALSE]
  <2>1. [holder.reg EXCEPT !.build.failure = FALSE] = [holder.reg EXCEPT !.build = build]
    OBVIOUS
  <2>2. build \in Build /\ build.key = holder.reg.build.key /\ ~build.incident
    BY <1>0, <1>1 DEF Registry, Build
  <2> HIDE DEF build
  <2> QED  BY <1>3, <1>4, <2>1, <2>2
<1>5. CASE Save("capture", holder.reg)
  <2>1. holder.reg = [holder.reg EXCEPT !.build = holder.reg.build] /\ holder.reg.build \in Build
    BY <1>0 DEF Registry
  <2> QED  BY <1>1, <1>3, <1>5, <2>1
<1>6. CASE Fails
  BY <1>0, <1>6, FailsKeeps
<1> QED  BY <1>4, <1>5, <1>6 DEF Validate

LEMMA CommitBaseKeeps ==
  ASSUME ImagesInv, CommitBase
  PROVE  ImagesInv'
<1> USE DEF leaseVars, incusVars, spoolVars
<1> DEFINE key == holder.reg.build.key
           base == [key |-> key, up |-> upstream, unusable |-> FALSE]
           reg == [holder.reg EXCEPT !.bases = @ \cup {base}]
<1>0. /\ holder \in Holder /\ holder.reg \in Registry /\ registry \in Registry /\ HolderInv
      /\ holder # NoHolder /\ holder.pc = "publishing" /\ faults \in Nat
      /\ operation = NoOperation
      /\ UNCHANGED <<images, instance, operation, lease, pin, machine, leases, incidents,
                     cleaned, upstream, builds, faults>>
  BY HolderTypes DEF CommitBase, At
<1>1. CASE Fails
  BY <1>0, <1>1, FailsKeeps
<1>2. CASE /\ registry' = reg
           /\ holder' = [holder EXCEPT !.reg = reg, !.pc = "inspect", !.base = key]
  <2>1. /\ holder.reg.build = registry.build /\ holder.reg.bases = registry.bases
        /\ key # 0 /\ key \notin KeysOf(holder.reg.bases) /\ key \in images
        /\ holder.building /\ holder.base = 0
        /\ BasesOK(holder.reg.bases) /\ BasesOK(holder.prev) /\ BuildOK(holder.reg.build)
    <3>1. operation.kind # "publish"
      BY <1>0 DEF NoOperation
    <3> QED  BY <1>0, <3>1 DEF HolderInv, CopyInv, StepInv, BuildPcs
  <2>2. key \in 0 .. MaxBuilds /\ key \in Keys
    <3>1. key \in 0 .. MaxBuilds
      BY <1>0, RegistryParts
    <3> QED  BY <2>1, <3>1, ImagesAssumption DEF Keys
  <2>3. base \in Base /\ base.key = key
    BY <2>2 DEF Base, ImagesInv, ImagesTypeOK, WorldType
  <2> HIDE DEF base
  <2>4. /\ reg \in Registry /\ reg.bases = holder.reg.bases \cup {base}
        /\ reg.build = holder.reg.build
    BY <1>0, <2>3 DEF Registry
  <2> HIDE DEF reg
  <2>5. /\ holder' \in Holder /\ holder'.pc = "inspect" /\ holder'.reg = reg
        /\ holder'.kind = holder.kind /\ holder'.base = key /\ holder'.pins = holder.pins
        /\ holder'.building = holder.building /\ holder'.prev = holder.prev
    <3>1. "inspect" \in Pcs
      BY DEF Pcs
    <3> HIDE DEF key
    <3> QED  BY <1>0, <1>2, <2>2, <2>4, <3>1 DEF Holder
  <2>6. BasesOK(reg.bases) /\ KeysOf(reg.bases) = KeysOf(holder.reg.bases) \cup {key}
    <3>1. KeysOf(reg.bases) = KeysOf(holder.reg.bases) \cup {key}
      BY <2>3, <2>4 DEF KeysOf
    <3>2. \A b \in holder.reg.bases : b.key # key
      BY <2>1 DEF KeysOf
    <3>3. key <= builds
      BY <2>1 DEF BuildOK
    <3> HIDE DEF key
    <3> QED  BY <2>1, <2>3, <2>4, <3>1, <3>2, <3>3 DEF BasesOK
  <2>7. CopyInv'
    BY <1>0, <1>2, <2>1, <2>4, <2>5, <2>6 DEF CopyInv, BasesOK, BuildOK
  <2>8. StepInv'
    BY <2>1, <2>4, <2>5 DEF StepInv, IdlePcs, DeletePcs, BuildPcs
  <2>9. holder.kind = "refresh" =>
          {b \in reg.bases : b.key # key} = {b \in holder.prev : b.key # key}
    <3> SUFFICES ASSUME holder.kind = "refresh"
                 PROVE  {b \in reg.bases : b.key # key} = {b \in holder.prev : b.key # key}
      OBVIOUS
    <3>1. {b \in holder.reg.bases : b.key # 0} = {b \in holder.prev : b.key # 0}
      BY <1>0, <2>1 DEF HolderInv, BaseInv
    <3>2. \A b \in Base : b.key # 0
      BY DEF Base, Keys
    <3>3. holder.reg.bases = holder.prev
      <4>1. holder.reg.bases \subseteq Base /\ holder.prev \subseteq Base
        BY <1>0 DEF Registry, Holder
      <4> QED  BY <3>1, <3>2, <4>1
    <3> QED  BY <2>3, <2>4, <3>3
  <2>10. BaseInv' /\ PinsInv'
    BY <1>0, <1>2, <2>1, <2>4, <2>5, <2>6, <2>9 DEF BaseInv, PinsInv, DeletePcs, KeysOf
  <2>11. ImagesAccounted(holder.reg)' /\ ImagesAccounted(registry)'
    BY <1>0, <1>2, <2>4, <2>5 DEF HolderInv, ImagesAccounted, KeysOf
  <2>12. ImagesTypeOK' /\ InUseImageKept' /\ CleanedMeansGone'
    BY <1>0, <1>2, <2>4, <2>5, QuietSteps
  <2>13. RecordInv'
    BY <1>0, <1>2, <2>1, <2>4, <2>6 DEF ImagesInv, RecordInv, BasesOK, BuildOK, KeysOf
  <2> QED  BY <2>5, <2>7, <2>8, <2>10, <2>11, <2>12, <2>13, HolderIsHeldNext DEF ImagesInv, HolderInv
<1> QED  BY <1>1, <1>2 DEF CommitBase

LEMMA PinKeeps ==
  ASSUME ImagesInv, Pin
  PROVE  ImagesInv'
<1> USE DEF leaseVars, incusVars, spoolVars
<1>0. /\ holder \in Holder /\ HolderInv /\ holder # NoHolder /\ holder.pc = "pin"
      /\ holder' = NoHolder
      /\ UNCHANGED <<registry, images, instance, operation, lease, machine, leases, incidents,
                     cleaned, upstream, builds, faults>>
      /\ pin' = IF lease[holder.slot] = "provisioning"
                THEN [pin EXCEPT ![holder.slot] = holder.base] ELSE pin
  BY HolderTypes DEF Pin, At, Unlock
<1>1. holder.base \in images /\ holder.base \in 0 .. MaxBuilds /\ holder.slot \in Slots
  BY <1>0 DEF HolderInv, BaseInv, Holder
<1>2. pin' \in [Slots -> 0 .. MaxBuilds]
  BY <1>0, <1>1 DEF ImagesInv, ImagesTypeOK, LeaseType
<1>3. ImagesTypeOK'
  BY <1>0, <1>2 DEF ImagesInv, ImagesTypeOK, RegistryType, HolderType, IncusType,
     LeaseType, SpoolType, WorldType
<1>4. InUseImageKept' /\ CleanedMeansGone'
  BY <1>0, <1>1 DEF ImagesInv, ImagesTypeOK, LeaseType, InUseImageKept, CleanedMeansGone
<1>5. RecordInv' /\ ImagesAccounted(registry)'
  BY <1>0, FileKept
<1> QED  BY <1>0, <1>3, <1>4, <1>5 DEF ImagesInv

-----------------------------------------------------------------------------
(* The invariant, and what follows from it.                                *)

LEMMA ImagesInit == Init => ImagesInv
<1> SUFFICES ASSUME Init  PROVE ImagesInv
  OBVIOUS
<1>1. [bases |-> {}, build |-> NoBuild, retry |-> FALSE] \in Registry
  BY NoBuildIsABuild DEF Registry
<1>2. ImagesTypeOK
  BY <1>1, ImagesAssumption DEF Init, ImagesTypeOK, RegistryType, HolderType, IncusType, LeaseType,
     SpoolType, WorldType
<1>3. RecordInv /\ ImagesAccounted(registry)
  BY ImagesAssumption, NoBuildIsABuild DEF Init, RecordInv, ImagesAccounted, BasesOK, BuildOK, KeysOf,
     NoOperation
<1>4. InUseImageKept /\ CleanedMeansGone
  BY DEF Init, InUseImageKept, CleanedMeansGone
<1> QED  BY <1>2, <1>3, <1>4 DEF ImagesInv, Init

LEMMA ImagesNext == ImagesInv /\ [Next]_vars => ImagesInv'
<1> SUFFICES ASSUME ImagesInv, [Next]_vars  PROVE ImagesInv'
  OBVIOUS
<1>1. ASSUME NEW s \in Slots, prepareEnvironment(s)  PROVE ImagesInv'
  BY <1>1, BeginKeeps DEF prepareEnvironment
<1>2. ASSUME NEW s \in Slots, LeaseStep(s)  PROVE ImagesInv'
  BY <1>2, AcquireKeeps, CreateMachinesKeeps, DrainKeeps, DeleteMachinesKeeps, clearLeaseKeeps,
     RebuildPoolKeeps DEF LeaseStep
<1>3. CASE RefreshBase \/ ReapImages
  <2>1. (CHOOSE s \in Slots : TRUE) \in Slots
    BY ImagesAssumption
  <2> QED  BY <1>3, <2>1, BeginKeeps DEF RefreshBase, ReapImages
<1>4. CASE Step
  BY <1>4, ReleaseKeeps, FailedKeeps, InspectKeeps, CaptureKeeps, saveBuilderIncidentKeeps,
     DeleteInstanceKeeps, DeleteUncommittedKeeps, RecordCleanedKeeps, ClearBuildKeeps,
     SurveyKeeps, PruneImageKeeps, ForgetKeeps, SelectKeeps, StageBuildKeeps, RefuseBuildKeeps,
     CreateInstanceKeeps, ValidateKeeps, PublishKeeps, CommitBaseKeeps, PinKeeps DEF Step
<1>5. CASE Crash \/ CallFails \/ IncusFinishes \/ RetryDue \/ UpstreamMoves \/ ImageRemoved
  BY <1>5, CrashKeeps, CallFailsKeeps, IncusFinishesKeeps, RetryDueKeeps, UpstreamMovesKeeps,
     ImageRemovedKeeps
<1>6. CASE UNCHANGED vars
  <2>1. UNCHANGED <<registry, holder, images, instance, operation, incidents, cleaned, builds>>
    BY <1>6 DEF vars
  <2>2. LeaseType' /\ WorldType' /\ InUseImageKept' /\ (holder' # NoHolder => PinsInv')
    BY <1>6 DEF vars, ImagesInv, ImagesTypeOK, LeaseType, WorldType, InUseImageKept, HolderInv,
       PinsInv
  <2> QED  BY <2>1, <2>2, LeaseStepsKeep DEF ImagesInv, ImagesTypeOK, HolderInv
<1> QED  BY <1>1, <1>2, <1>3, <1>4, <1>5, <1>6 DEF Next

\* The registry on disk, the copy of the process that has the lock, and what
\* exists in Incus agree at every step of buildBase, cleanupImageBuild and
\* pruneImages, whatever fails and wherever a process dies.
THEOREM ImagesInvariant == Spec => []ImagesInv
  BY ImagesInit, ImagesNext, PTL DEF Spec

\* The image that a lease has pinned, or that machines run on, is never deleted
\* (pruneImages, cleanupImageBuild).
THEOREM InUseImagesAreKept == Spec => []InUseImageKept
<1>1. ImagesInv => InUseImageKept
  BY DEF ImagesInv
<1> QED  BY <1>1, ImagesInvariant, PTL

\* Whatever exists in Incus can be found from images.json, as long as the last
\* write of a cleanup does not fail (buildBase, cleanupImageBuild).
THEOREM EverythingIsAccounted == ("clear" \notin Failing) => (Spec => []StagingAccounted)
<1> SUFFICES ASSUME "clear" \notin Failing  PROVE Spec => []StagingAccounted
  OBVIOUS
<1>1. ImagesInv => StagingAccounted
  BY DEF ImagesInv, RecordInv, ImagesAccounted, StagingAccounted, KeysOf
<1> QED  BY <1>1, ImagesInvariant, PTL

\* A receipt base_builder.cleaned is the truth for ever (cleanupImageBuild).
THEOREM CleanedBuildersAreGone == Spec => []CleanedMeansGone
<1>1. ImagesInv => CleanedMeansGone
  BY DEF ImagesInv
<1> QED  BY <1>1, ImagesInvariant, PTL

-----------------------------------------------------------------------------
(* What a step may never do.                                               *)

\* Only cleanupImageBuild deletes a builder machine.
LEMMA OnlyDeleteInstanceDeletes ==
  ASSUME ImagesInv, Next, instance # 0, instance' = 0
  PROVE  DeleteInstance
<1> USE DEF leaseVars, incusVars, spoolVars
<1>1. ASSUME NEW s \in Slots, prepareEnvironment(s) \/ LeaseStep(s)  PROVE FALSE
  BY <1>1 DEF prepareEnvironment, Begin, LeaseStep, Acquire, CreateMachines, Drain,
              DeleteMachines, clearLease, RebuildPool
<1>2. CASE RefreshBase \/ ReapImages \/ Crash \/ CallFails \/ RetryDue \/ UpstreamMoves \/ ImageRemoved
  BY <1>2 DEF RefreshBase, ReapImages, Begin, Crash, CallFails, RetryDue, UpstreamMoves,
              ImageRemoved
<1>3. CASE IncusFinishes
  BY <1>3 DEF IncusFinishes, ImagesInv, ImagesTypeOK, IncusType, Keys
<1>4. CASE Step
  BY <1>4 DEF Step, Release, Failed, Inspect, Capture, saveBuilderIncident, DeleteUncommitted,
              RecordCleaned, ClearBuild, Survey, PruneImage, Forget, Select, StageBuild,
              RefuseBuild, CreateInstance, Validate, Publish, CommitBase, Pin
<1> QED  BY <1>1, <1>2, <1>3, <1>4 DEF Next

\* The machine of a build that failed goes only after its incident and the
\* receipt of it are durable (saveBuilderIncident).
THEOREM EvidenceComesFirst == Spec => EvidenceBeforeDeletion
<1> DEFINE Evidence == instance # 0 /\ instance' = 0 /\ registry.build.failure
                         => registry.build.incident /\ instance \in incidents
<1>1. ImagesInv /\ [Next]_vars => [Evidence]_vars
  <2> SUFFICES ASSUME ImagesInv, Next, instance # 0, instance' = 0, registry.build.failure
               PROVE  registry.build.incident /\ instance \in incidents
    OBVIOUS
  <2>1. holder # NoHolder /\ holder.pc = "delete"
    BY OnlyDeleteInstanceDeletes DEF DeleteInstance, At
  <2>2. holder.reg.build = registry.build /\ registry.build.incident
    BY <2>1 DEF ImagesInv, HolderInv, CopyInv, StepInv
  <2> QED  BY <2>2 DEF ImagesInv, RecordInv, BuildOK
<1> HIDE DEF Evidence
<1>2. Spec => [][Evidence]_vars
  BY <1>1, ImagesInvariant, PTL DEF Spec
<1> QED  BY <1>2 DEF Evidence, EvidenceBeforeDeletion

-----------------------------------------------------------------------------
(* There is always a base to issue.                                        *)

\* A base is current when it is the newest usable one whose build is over.
LEMMA CurrentMeans ==
  ASSUME NEW b
  PROVE  b \in Current <=>
            /\ b \in registry.bases /\ b.key # registry.build.key /\ ~b.unusable
            /\ b.key \in images
            /\ \A c \in registry.bases :
                  c.key # registry.build.key /\ ~c.unusable => c.key <= b.key
  BY DEF Current, Latest

LEMMA CurrentMeansNext ==
  ASSUME NEW b
  PROVE  b \in Current' <=>
            /\ b \in registry'.bases /\ b.key # registry'.build.key /\ ~b.unusable
            /\ b.key \in images'
            /\ \A c \in registry'.bases :
                  c.key # registry'.build.key /\ ~c.unusable => c.key <= b.key
  BY DEF Current, Latest

\* A step that changes nothing but the build on record and the base that it has
\* committed keeps the current base or puts the new one in its place.
LEMMA CurrentSurvives ==
  ASSUME ImagesInv, registry' \in Registry,
         {c \in registry'.bases : c.key # registry.build.key}
            = {c \in registry.bases : c.key # registry.build.key},
         registry'.build.key \in {registry.build.key, 0},
         registry.build.key \in KeysOf(registry'.bases) => registry.build.key \in images',
         images \ {registry.build.key} \subseteq images',
         Current # {}
  PROVE  Current' # {}
<1>1. PICK b \in Current : TRUE
  OBVIOUS
<1>2. /\ b \in registry.bases /\ b.key # registry.build.key /\ ~b.unusable /\ b.key \in images
      /\ \A c \in registry.bases : c.key # registry.build.key /\ ~c.unusable => c.key <= b.key
  BY <1>1, CurrentMeans
<1>3. /\ b \in registry'.bases /\ b.key \in images'
      /\ \A c \in registry'.bases : c.key # registry.build.key /\ ~c.unusable => c.key <= b.key
  BY <1>2
<1>4. \A c \in registry'.bases : c.key \in Int /\ c.key # 0
  <2>1. \A c \in registry'.bases : c.key \in Keys
    BY RegistryParts
  <2> QED  BY <2>1 DEF Keys
<1>5. CASE \E d \in registry'.bases : d.key = registry.build.key /\ ~d.unusable
                                        /\ d.key > b.key /\ registry'.build.key # d.key
  <2>1. PICK d \in registry'.bases : d.key = registry.build.key /\ ~d.unusable
                                        /\ d.key > b.key /\ registry'.build.key # d.key
    BY <1>5
  <2>2. d.key \in images'
    BY <2>1 DEF KeysOf
  <2>3. \A c \in registry'.bases : ~c.unusable => c.key <= d.key
    BY <1>3, <1>4, <2>1
  <2>4. d \in Current'
    BY <2>1, <2>2, <2>3, CurrentMeansNext
  <2> QED  BY <2>4
<1>6. CASE ~ \E d \in registry'.bases : d.key = registry.build.key /\ ~d.unusable
                                        /\ d.key > b.key /\ registry'.build.key # d.key
  <2>1. \A c \in registry'.bases : c.key # registry'.build.key /\ ~c.unusable => c.key <= b.key
    BY <1>3, <1>4, <1>6
  <2>2. b.key # registry'.build.key
    BY <1>2, <1>3, <1>4
  <2>3. b \in Current'
    BY <1>2, <1>3, <2>1, <2>2, CurrentMeansNext
  <2> QED  BY <2>3
<1> QED  BY <1>5, <1>6

\* A step that leaves bases and build of the registry alone and deletes no image.
LEMMA CurrentStays ==
  ASSUME ImagesInv, registry'.bases = registry.bases,
         registry'.build.key = registry.build.key,
         images \subseteq images', Current # {}
  PROVE  Current' # {}
<1>1. PICK b \in Current : TRUE
  OBVIOUS
<1>2. b \in Current'
  BY <1>1, CurrentMeans, CurrentMeansNext
<1> QED  BY <1>2

\* Steps that write no base and delete no image.
LEMMA CurrentQuiet ==
  ASSUME ImagesInv, Current # {},
         \/ \E s \in Slots : prepareEnvironment(s) \/ LeaseStep(s)
         \/ RefreshBase \/ ReapImages \/ Crash \/ CallFails \/ IncusFinishes \/ RetryDue
         \/ UpstreamMoves
         \/ Release \/ Inspect \/ Capture \/ DeleteInstance \/ RecordCleaned \/ Survey
         \/ RefuseBuild \/ CreateInstance \/ Publish \/ Pin
  PROVE  Current' # {}
<1> USE DEF leaseVars, incusVars, spoolVars
<1>1. CASE RetryDue
  <2>1. registry'.bases = registry.bases /\ registry'.build = registry.build /\ images' = images
    BY <1>1 DEF RetryDue, ImagesInv, ImagesTypeOK, RegistryType, Registry
  <2> QED  BY <2>1, CurrentStays
<1>2. CASE ~RetryDue
  <2>1. UNCHANGED registry /\ images \subseteq images'
    BY <1>2 DEF prepareEnvironment, RefreshBase, ReapImages, Begin, LeaseStep, Acquire,
       CreateMachines, Drain, DeleteMachines, clearLease, RebuildPool, Crash, CallFails, Fails,
       IncusFinishes, UpstreamMoves, Release, Inspect, Capture, DeleteInstance, RecordCleaned,
       Survey, RefuseBuild, CreateInstance, Publish, Pin, Goto
  <2> QED  BY <2>1, CurrentStays
<1> QED  BY <1>1, <1>2

LEMMA CurrentReceipt ==
  ASSUME ImagesInv, saveBuilderIncident \/ Validate, Current # {}
  PROVE  Current' # {}
<1> USE DEF leaseVars, incusVars, spoolVars
<1>0. /\ holder \in Holder /\ holder.reg \in Registry /\ registry \in Registry /\ HolderInv
      /\ holder # NoHolder /\ holder.pc \in {"receipt", "creating"} /\ images' = images
  BY HolderTypes DEF saveBuilderIncident, Validate, At
<1>1. holder.reg.bases = registry.bases /\ holder.reg.build.key = registry.build.key
  BY <1>0 DEF HolderInv, CopyInv, Reported
<1>2. \/ UNCHANGED registry
      \/ registry' = holder.reg
      \/ registry' = [holder.reg EXCEPT !.build.failure = FALSE]
  BY DEF saveBuilderIncident, Validate, Save, Fails, Goto
<1>3. /\ [holder.reg EXCEPT !.build.failure = FALSE].bases = holder.reg.bases
      /\ [holder.reg EXCEPT !.build.failure = FALSE].build.key = holder.reg.build.key
  BY <1>0 DEF Registry, Build
<1>4. registry'.bases = registry.bases /\ registry'.build.key = registry.build.key
  BY <1>1, <1>2, <1>3
<1> QED  BY <1>0, <1>4, CurrentStays

LEMMA CurrentDeleteUncommitted ==
  ASSUME ImagesInv, DeleteUncommitted, Current # {}
  PROVE  Current' # {}
<1>0. /\ HolderInv /\ holder # NoHolder /\ holder.pc = "images" /\ registry \in Registry
  BY HolderTypes DEF DeleteUncommitted, At
<1>1. holder.reg.bases = registry.bases /\ holder.reg.build = registry.build
  BY <1>0 DEF HolderInv, CopyInv
<1>2. /\ UNCHANGED registry /\ images \ {registry.build.key} \subseteq images'
      /\ registry.build.key \in KeysOf(registry.bases) => images' = images
  BY <1>1 DEF DeleteUncommitted, Fails, Goto, KeysOf
<1>3. registry.build.key \in KeysOf(registry'.bases) => registry.build.key \in images'
  BY <1>2 DEF ImagesInv, RecordInv
<1> QED  BY <1>0, <1>2, <1>3, CurrentSurvives

LEMMA CurrentClearBuild ==
  ASSUME ImagesInv, ClearBuild, Current # {}
  PROVE  Current' # {}
<1> USE DEF leaseVars, incusVars, spoolVars
<1> DEFINE reg == [holder.reg EXCEPT !.build = NoBuild]
<1>0. /\ holder.reg \in Registry /\ registry \in Registry /\ HolderInv
      /\ holder # NoHolder /\ holder.pc = "clear" /\ images' = images
  BY HolderTypes DEF ClearBuild, At
<1>1. holder.reg.bases = registry.bases
  BY <1>0 DEF HolderInv, CopyInv
<1>2. reg \in Registry /\ reg.bases = registry.bases /\ reg.build.key = 0
  BY <1>0, <1>1, NoBuildIsABuild DEF Registry
<1>3. registry' \in {reg, registry}
  BY DEF ClearBuild, Goto
<1> HIDE DEF reg
<1>4. registry' \in Registry /\ registry'.bases = registry.bases
      /\ registry'.build.key \in {registry.build.key, 0}
  BY <1>0, <1>2, <1>3
<1>5. registry.build.key \in KeysOf(registry'.bases) => registry.build.key \in images'
  BY <1>0, <1>4 DEF ImagesInv, RecordInv, KeysOf
<1> QED  BY <1>0, <1>4, <1>5, CurrentSurvives

LEMMA CurrentCommitBase ==
  ASSUME ImagesInv, CommitBase, Current # {}
  PROVE  Current' # {}
<1> USE DEF leaseVars, incusVars, spoolVars
<1> DEFINE base == [key |-> holder.reg.build.key, up |-> upstream, unusable |-> FALSE]
           reg == [holder.reg EXCEPT !.bases = @ \cup {base}]
<1>0. /\ holder.reg \in Registry /\ registry \in Registry /\ HolderInv
      /\ holder # NoHolder /\ holder.pc = "publishing" /\ images' = images
      /\ operation = NoOperation
  BY HolderTypes DEF CommitBase, At
<1>1. /\ holder.reg.bases = registry.bases /\ holder.reg.build = registry.build
      /\ registry.build.key \in images
  <2>1. operation.kind # "publish"
    BY <1>0 DEF NoOperation
  <2> QED  BY <1>0, <2>1 DEF HolderInv, CopyInv, StepInv
<1>2. reg.bases = registry.bases \cup {base} /\ reg.build = registry.build
      /\ base.key = registry.build.key
  BY <1>0, <1>1 DEF Registry
<1>3. registry' \in {reg, registry}
  BY DEF CommitBase, Fails, Goto
<1>4. registry' \in Registry
  BY CommitBaseKeeps DEF ImagesInv, ImagesTypeOK, RegistryType
<1> HIDE DEF reg, base
<1>5. {c \in registry'.bases : c.key # registry.build.key}
        = {c \in registry.bases : c.key # registry.build.key}
      /\ registry'.build.key = registry.build.key
  BY <1>2, <1>3
<1> QED  BY <1>0, <1>1, <1>4, <1>5, CurrentSurvives

LEMMA CurrentFailed ==
  ASSUME ImagesInv, Failed, Current # {}
  PROVE  Current' # {}
<1> USE DEF leaseVars, incusVars, spoolVars
<1> DEFINE bases == IF holder.kind = "refresh" THEN holder.prev ELSE holder.reg.bases
<1>0. /\ holder \in Holder /\ holder.reg \in Registry /\ registry \in Registry /\ HolderInv
      /\ holder # NoHolder /\ holder.pc = "failed" /\ images' = images
  BY HolderTypes DEF Failed, At
<1>1. registry'.bases = bases /\ registry'.build = holder.reg.build
  BY <1>0 DEF Failed, Save, Registry
<1>2. registry' \in Registry
  BY FailedKeeps DEF ImagesInv, ImagesTypeOK, RegistryType
<1>3. /\ holder.reg.bases = registry.bases
      /\ holder.reg.build = registry.build \/ holder.reg.build = NoBuild
  BY <1>0 DEF HolderInv, CopyInv
<1>4. holder.kind = "refresh" =>
        /\ holder.base # 0 => holder.base \in images
        /\ holder.base = registry.build.key \/ holder.reg.bases = holder.prev \/ holder.base = 0
        /\ {b \in holder.reg.bases : b.key # holder.base}
             = {b \in holder.prev : b.key # holder.base}
  BY <1>0 DEF HolderInv, BaseInv
<1>5. holder.kind = "refresh" /\ holder.base = 0 => holder.reg.bases = holder.prev
  <2>1. \A b \in Base : b.key # 0
    BY DEF Base, Keys
  <2>2. holder.reg.bases \subseteq Base /\ holder.prev \subseteq Base
    BY <1>0 DEF Registry, Holder
  <2> QED  BY <1>4, <2>1, <2>2
<1>6. bases = registry.bases \/
        /\ holder.base = registry.build.key /\ holder.base # 0 /\ holder.base \in images
        /\ {b \in registry.bases : b.key # holder.base} = {b \in bases : b.key # holder.base}
  BY <1>3, <1>4, <1>5
<1> HIDE DEF bases
<1>7. {c \in registry'.bases : c.key # registry.build.key}
        = {c \in registry.bases : c.key # registry.build.key}
  BY <1>1, <1>6
<1>8. registry'.build.key \in {registry.build.key, 0}
  BY <1>1, <1>3, NoBuildIsABuild
<1>9. registry.build.key \in KeysOf(registry'.bases) => registry.build.key \in images'
  BY <1>0, <1>1, <1>6 DEF ImagesInv, RecordInv
<1> QED  BY <1>0, <1>2, <1>7, <1>8, <1>9, CurrentSurvives

LEMMA CurrentStageBuild ==
  ASSUME ImagesInv, StageBuild, Current # {}
  PROVE  Current' # {}
<1> USE DEF leaseVars, incusVars, spoolVars
<1>0. /\ holder.reg \in Registry /\ HolderInv /\ holder # NoHolder /\ holder.pc = "build"
      /\ images' = images /\ builds \in 0 .. MaxBuilds /\ registry \in Registry
      /\ registry' = [holder.reg EXCEPT
            !.build = [key |-> builds + 1, failure |-> TRUE, incident |-> FALSE]]
  <2>1. builds \in 0 .. MaxBuilds
    BY DEF ImagesInv, ImagesTypeOK, WorldType
  <2> QED  BY <2>1, HolderTypes DEF StageBuild, At
<1>1. /\ holder.reg.bases = registry.bases /\ registry.build.key = 0
      /\ \A c \in registry.bases : c.key <= builds
  BY <1>0, NoBuildIsABuild DEF ImagesInv, RecordInv, BasesOK, HolderInv, CopyInv, StepInv, IdlePcs
<1>2. \A c \in registry.bases : c.key \in Int /\ c.key # 0
  <2>1. \A c \in registry.bases : c.key \in Keys
    BY <1>0, RegistryParts
  <2> QED  BY <2>1 DEF Keys
<1>3. registry'.bases = registry.bases /\ registry'.build.key = builds + 1
  BY <1>0, <1>1 DEF Registry
<1>4. PICK b \in Current : TRUE
  OBVIOUS
<1>5. /\ b \in registry.bases /\ ~b.unusable /\ b.key \in images
      /\ \A c \in registry.bases : ~c.unusable => c.key <= b.key
  BY <1>1, <1>2, <1>4, CurrentMeans
<1>6. \A c \in registry.bases : c.key # builds + 1
  BY <1>0, <1>1, <1>2
<1>7. b \in Current'
  BY <1>0, <1>3, <1>5, <1>6, CurrentMeansNext
<1> QED  BY <1>7

LEMMA CurrentPruneImage ==
  ASSUME ImagesInv, PruneImage, Current # {}
  PROVE  Current' # {}
<1> USE DEF leaseVars, incusVars, spoolVars
<1> DEFINE drop == Droppable(holder.reg, holder.pins)
           b == CHOOSE b \in drop : \A c \in drop : b.key <= c.key
<1>0. /\ holder.reg \in Registry /\ registry \in Registry /\ HolderInv /\ holder # NoHolder
      /\ holder.pc = "prune" /\ UNCHANGED registry
  BY HolderTypes DEF PruneImage, At, Goto
<1>1. /\ holder.reg.bases = registry.bases /\ registry.build.key = 0
      /\ BasesOK(registry.bases)
  BY <1>0, NoBuildIsABuild DEF HolderInv, CopyInv, StepInv, IdlePcs
<1>2. \A c \in registry.bases : c.key # 0
  <2>1. \A c \in registry.bases : c.key \in Keys
    BY <1>0, RegistryParts
  <2> QED  BY <2>1 DEF Keys
<1>3. PICK d \in Current : TRUE
  OBVIOUS
<1>4. /\ d \in registry.bases /\ ~d.unusable /\ d.key \in images
      /\ \A c \in registry.bases : ~c.unusable => c.key <= d.key
  BY <1>1, <1>2, <1>3, CurrentMeans
<1>5. d \in Latest(registry.bases)
  BY <1>4 DEF Latest
<1>6. d.key \in images'
  <2>1. CASE drop = {}
    BY <1>4, <2>1 DEF PruneImage
  <2>2. CASE drop # {}
    <3>1. b \in drop
      <4>1. drop \subseteq Base
        BY <1>0 DEF Droppable, Registry
      <4> HIDE DEF drop
      <4> QED  BY <2>2, <4>1, OldestBase
    <3>2. images' = images \ {b.key}
      BY <2>2 DEF PruneImage
    <3> HIDE DEF b
    <3>3. b \in registry.bases /\ b \notin Latest(registry.bases)
      BY <1>1, <3>1 DEF Droppable
    <3>4. b.key # d.key
      BY <1>1, <1>4, <1>5, <3>3 DEF BasesOK
    <3> QED  BY <1>4, <3>2, <3>4
  <2> QED  BY <2>1, <2>2
<1>7. d \in Current'
  BY <1>0, <1>1, <1>2, <1>4, <1>6, CurrentMeansNext
<1> QED  BY <1>7

LEMMA CurrentForget ==
  ASSUME ImagesInv, Forget, Current # {}
  PROVE  Current' # {}
<1> USE DEF leaseVars, incusVars, spoolVars
<1>0. /\ holder.reg \in Registry /\ registry \in Registry /\ HolderInv /\ holder # NoHolder
      /\ holder.pc = "forget" /\ registry' = holder.reg /\ images' = images
  BY HolderTypes DEF Forget, At, Save
<1>1. /\ registry.build.key = 0 /\ holder.reg.build.key = 0
      /\ holder.reg.bases \subseteq registry.bases
      /\ Latest(registry.bases) \subseteq holder.reg.bases
  BY <1>0, NoBuildIsABuild DEF HolderInv, CopyInv, StepInv, IdlePcs
<1>2. \A c \in registry.bases : c.key # 0
  <2>1. \A c \in registry.bases : c.key \in Keys
    BY <1>0, RegistryParts
  <2> QED  BY <2>1 DEF Keys
<1>3. PICK d \in Current : TRUE
  OBVIOUS
<1>4. /\ d \in registry.bases /\ ~d.unusable /\ d.key \in images
      /\ \A c \in registry.bases : ~c.unusable => c.key <= d.key
  BY <1>1, <1>2, <1>3, CurrentMeans
<1>5. d \in Latest(registry.bases)
  BY <1>4 DEF Latest
<1>6. d \in Current'
  BY <1>0, <1>1, <1>2, <1>4, <1>5, CurrentMeansNext
<1> QED  BY <1>6

LEMMA CurrentSelect ==
  ASSUME ImagesInv, Select, Current # {}
  PROVE  Current' # {}
<1> USE DEF leaseVars, incusVars, spoolVars
<1>0. /\ holder.reg \in Registry /\ registry \in Registry /\ HolderInv /\ holder # NoHolder
      /\ holder.pc = "select" /\ images' = images
  BY HolderTypes DEF Select, At
<1>1. holder.reg.bases = registry.bases /\ holder.reg.build = registry.build
      /\ registry.build.key = 0
  BY <1>0, NoBuildIsABuild DEF HolderInv, CopyInv, StepInv, IdlePcs
<1>2. \/ UNCHANGED registry
      \/ \E retry \in BOOLEAN : registry' = [holder.reg EXCEPT !.retry = retry]
      \/ \E best : /\ best.key \notin images
                   /\ registry' = [holder.reg EXCEPT !.bases = (@ \ {best})
                                       \cup {[best EXCEPT !.unusable = TRUE]}]
  <2>1. holder.reg.retry \in BOOLEAN
    BY <1>0, RegistryParts
  <2> QED  BY <2>1, Zenon DEF Select, Goto, Save
<1>3. CASE UNCHANGED registry \/ \E retry \in BOOLEAN : registry' = [holder.reg EXCEPT !.retry = retry]
  <2>1. registry'.bases = registry.bases /\ registry'.build.key = registry.build.key
    BY <1>0, <1>1, <1>3 DEF Registry
  <2> QED  BY <1>0, <2>1, CurrentStays
<1>4. ASSUME NEW best, best.key \notin images,
             registry' = [holder.reg EXCEPT !.bases = (@ \ {best})
                             \cup {[best EXCEPT !.unusable = TRUE]}]
      PROVE  Current' # {}
  <2> DEFINE worn == [best EXCEPT !.unusable = TRUE]
  <2>1. registry'.bases = (registry.bases \ {best}) \cup {worn} /\ registry'.build.key = 0
    BY <1>0, <1>1, <1>4 DEF Registry
  <2>2. registry' \in Registry
    BY SelectKeeps DEF ImagesInv, ImagesTypeOK, RegistryType
  <2>3. worn.unusable
    <3>1. worn \in Base
      BY <2>1, <2>2, RegistryParts
    <3> QED  BY <3>1 DEF Base
  <2> HIDE DEF worn
  <2>4. \A c \in registry.bases \cup registry'.bases : c.key # 0
    <3>1. \A c \in registry.bases \cup registry'.bases : c.key \in Keys
      BY <1>0, <2>2, RegistryParts
    <3> QED  BY <3>1 DEF Keys
  <2>5. PICK d \in Current : TRUE
    OBVIOUS
  <2>6. /\ d \in registry.bases /\ ~d.unusable /\ d.key \in images
        /\ \A c \in registry.bases : ~c.unusable => c.key <= d.key
    BY <1>1, <2>4, <2>5, CurrentMeans
  <2>7. d \in Current'
    BY <1>0, <1>4, <2>1, <2>3, <2>4, <2>6, CurrentMeansNext
  <2> QED  BY <2>7
<1> QED  BY <1>2, <1>3, <1>4

\* Once there is a base to issue there always is one, unless somebody deletes
\* its image by hand: not by a build, a failed refresh, a cleanup or a prune.
THEOREM CurrentBaseIsKept == Spec => CurrentBaseKept
<1> DEFINE Kept == Current # {} /\ ~ImageRemoved => Current' # {}
<1>1. ImagesInv /\ [Next]_vars => [Kept]_vars
  <2> SUFFICES ASSUME ImagesInv, Next, Current # {}, ~ImageRemoved
               PROVE  Current' # {}
    OBVIOUS
  <2>1. CASE Step
    BY <2>1, CurrentQuiet, CurrentReceipt, CurrentDeleteUncommitted, CurrentClearBuild,
       CurrentCommitBase, CurrentFailed, CurrentStageBuild, CurrentPruneImage, CurrentForget,
       CurrentSelect DEF Step
  <2>2. CASE ~Step
    BY <2>2, CurrentQuiet DEF Next
  <2> QED  BY <2>1, <2>2
<1> HIDE DEF Kept
<1>2. Spec => [][Kept]_vars
  BY <1>1, ImagesInvariant, PTL DEF Spec
<1> QED  BY <1>2 DEF Kept, CurrentBaseKept
=============================================================================
