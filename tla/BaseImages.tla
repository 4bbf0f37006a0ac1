---------------------------- MODULE BaseImages -----------------------------
(***************************************************************************)
(* The registry of prepared base images: how an image is built in a        *)
(* private staging project, published, committed to the registry, pinned   *)
(* by a lease and pruned (images.go, refresh.go).                          *)
(*                                                                         *)
(* One process at a time holds the image lock: an acquisition that         *)
(* prepares its environment, an operator's refresh, or the reaper.  It     *)
(* works on a copy of the registry that it read under the lock and writes  *)
(* it back after each step.  It may die between any two steps, a call to   *)
(* Incus or a write may fail, and Incus finishes a creation or publication *)
(* that was asked for even when the process that asked has died.           *)
(***************************************************************************)
EXTENDS Integers, FiniteSets

CONSTANTS
    Slots,       \* lease slots
    Upstreams,   \* fingerprints that the upstream image may have
    MaxBuilds,   \* bound: builds that are started
    MaxLeases,   \* bound: leases that are granted
    MaxFaults,   \* bound: crashes and failed calls
    Failing      \* the steps whose call or write may fail

ASSUME ImagesAssumption ==
    /\ MaxBuilds \in Nat /\ MaxLeases \in Nat /\ MaxFaults \in Nat
    /\ IsFiniteSet(Slots) /\ Slots # {} /\ Upstreams # {}

Keys == 1 .. MaxBuilds

VARIABLES
    registry,   \* images.json
    holder,     \* the process that has the image lock, with its copy
    images,     \* images in Incus that the broker published, by build
    instance,   \* the build whose machine is in the staging project, or 0
    operation,  \* what Incus is still doing for the builder
    lease,      \* lease[s]: how far the lease of slot s is
    pin,        \* pin[s]: BaseFingerprint in the lease store, or 0
    machine,    \* machine[s]: the image that the machines of s run on, or 0
    upstream,   \* what the upstream alias names now
    incidents,  \* builds whose failure is in the incident spool
    cleaned,    \* builds whose base_builder.cleaned receipt is in the spool
    builds,     \* builds started so far
    leases,     \* leases granted so far
    faults      \* crashes and failed calls so far

leaseVars == <<lease, pin, machine, leases>>
incusVars == <<images, instance, operation>>
spoolVars == <<incidents, cleaned>>
vars == <<registry, holder, images, instance, operation, lease, pin, machine,
          upstream, incidents, cleaned, builds, leases, faults>>

Base == [key : Keys, up : Upstreams, unusable : BOOLEAN]
NoBuild == [key |-> 0, failure |-> FALSE, incident |-> FALSE]
Build == [key : 0 .. MaxBuilds, failure : BOOLEAN, incident : BOOLEAN]
Registry == [bases : SUBSET Base, build : Build, retry : BOOLEAN]

NoOperation == [kind |-> "none", key |-> 0]
NoHolder == [kind |-> "none"]

Init ==
    /\ registry = [bases |-> {}, build |-> NoBuild, retry |-> FALSE]
    /\ holder = NoHolder
    /\ images = {} /\ instance = 0 /\ operation = NoOperation
    /\ lease = [s \in Slots |-> "free"]
    /\ pin = [s \in Slots |-> 0] /\ machine = [s \in Slots |-> 0]
    /\ upstream \in Upstreams
    /\ incidents = {} /\ cleaned = {}
    /\ builds = 0 /\ leases = 0 /\ faults = 0

-----------------------------------------------------------------------------
(* The lock and the steps of its holder.                                   *)

\* Where the holder goes next, with its copy of the registry; the file is left
\* alone or written.
Goto(pc, reg) == /\ holder' = [holder EXCEPT !.pc = pc, !.reg = reg]
                 /\ UNCHANGED registry
Save(pc, reg) == /\ holder' = [holder EXCEPT !.pc = pc, !.reg = reg]
                 /\ registry' = reg
Unlock == holder' = NoHolder

\* The callers of buildBase, and the reaper that cleans up, write the registry
\* with a retry deadline when that fails; other errors only end the operation.
OnError ==
    IF holder.building \/ (holder.kind = "reap" /\ holder.reg.build # NoBuild)
    THEN "failed" ELSE "unlock"
Fails == Goto(OnError, holder.reg)

At(pc) == holder # NoHolder /\ holder.pc = pc

\* Staging that an earlier build left is not looked at.
FaultBegin(kind, s) ==
    /\ holder = NoHolder
    /\ holder' = [kind |-> kind, slot |-> s, reg |-> registry, base |-> 0,
                  pins |-> {}, building |-> FALSE, prev |-> registry.bases,
                  pc |-> IF kind = "refresh" THEN "unlock" ELSE "survey"]
    /\ UNCHANGED <<registry, leaseVars, incusVars, spoolVars, upstream, builds,
                   faults>>

\* Staging left behind by an earlier build is cleaned first, in prepareEnvironment
\* and ReapImages once its retry deadline has passed.
Begin(kind, s) ==
    /\ holder = NoHolder
    /\ registry.build # NoBuild /\ kind # "refresh" => ~registry.retry
    /\ holder' = [kind |-> kind, slot |-> s, reg |-> registry, base |-> 0,
                  pins |-> {}, building |-> FALSE, prev |-> registry.bases,
                  pc |-> IF registry.build # NoBuild THEN "inspect"
                         ELSE IF kind = "refresh" THEN "build" ELSE "survey"]
    /\ UNCHANGED <<registry, leaseVars, incusVars, spoolVars, upstream, builds,
                   faults>>

prepareEnvironment(s) == lease[s] = "provisioning" /\ pin[s] = 0 /\ Begin("prepare", s)
RefreshBase == Begin("refresh", CHOOSE s \in Slots : TRUE)
ReapImages == Begin("reap", CHOOSE s \in Slots : TRUE)

Release ==
    /\ At("unlock")
    /\ Unlock
    /\ UNCHANGED <<registry, leaseVars, incusVars, spoolVars, upstream, builds,
                   faults>>

\* The holder dies and its copy of the registry with it.
Crash ==
    /\ holder # NoHolder /\ faults < MaxFaults
    /\ faults' = faults + 1
    /\ Unlock
    /\ UNCHANGED <<registry, leaseVars, incusVars, spoolVars, upstream, builds>>

\* A call to Incus or a write of the registry fails.  (The two writes whose
\* failure also changes the copy in memory are alternatives of their steps.)
CallFails ==
    /\ faults < MaxFaults /\ holder # NoHolder
    /\ holder.pc \in Failing \ {"receipt", "clear"}
    /\ faults' = faults + 1
    /\ Fails
    /\ UNCHANGED <<leaseVars, incusVars, spoolVars, upstream, builds>>

\* The caller of a build that failed: RefreshBase goes back to the bases that
\* it had read.
Failed ==
    LET reg == [holder.reg EXCEPT !.retry = TRUE,
                  !.bases = IF holder.kind = "refresh" THEN holder.prev ELSE @]
    IN /\ At("failed")
       /\ Save("unlock", reg)
       /\ UNCHANGED <<leaseVars, incusVars, spoolVars, upstream, builds, faults>>

-----------------------------------------------------------------------------
(* cleanupImageBuild: remove what an unfinished build left behind.         *)

\* A publication that Incus has not finished, or a creation that it may still
\* carry out, keeps staging as it is.
Busy == operation.kind = "publish" \/ (operation.kind = "create" /\ instance = 0)

FaultInspect ==
    LET build == holder.reg.build IN
    /\ At("inspect")
    /\ Goto(IF build.failure /\ ~build.incident THEN "capture" ELSE "delete", holder.reg)
    /\ UNCHANGED <<leaseVars, incusVars, spoolVars, upstream, builds, faults>>

Inspect ==
    LET build == holder.reg.build IN
    /\ At("inspect")
    /\ IF Busy THEN Fails
       ELSE Goto(IF build.failure /\ ~build.incident THEN "capture" ELSE "delete",
                 holder.reg)
    /\ UNCHANGED <<leaseVars, incusVars, spoolVars, upstream, builds, faults>>

\* saveBuilderIncident saves the incident first,
Capture ==
    /\ At("capture")
    /\ incidents' = incidents \cup {holder.reg.build.key}
    /\ Goto("receipt", [holder.reg EXCEPT !.build.incident = TRUE])
    /\ UNCHANGED <<cleaned, leaseVars, incusVars, upstream, builds, faults>>

\* Staging is deleted before its evidence is durable: a write that fails leaves
\* the receipt in memory, and cleanup goes on.
FaultReceipt ==
    /\ At("receipt")
    /\ \/ Save("delete", holder.reg) /\ UNCHANGED faults
       \/ /\ faults < MaxFaults /\ faults' = faults + 1
          /\ Goto("delete", holder.reg)
    /\ UNCHANGED <<leaseVars, incusVars, spoolVars, upstream, builds>>

\* and then its receipt in the registry, without which nothing is deleted.  The
\* receipt in memory does not survive a write that failed.
saveBuilderIncident ==
    /\ At("receipt")
    /\ \/ Save(IF holder.base = 0 /\ holder.building THEN "failed" ELSE "delete",
               holder.reg) /\ UNCHANGED faults
       \/ /\ faults < MaxFaults /\ "receipt" \in Failing
          /\ faults' = faults + 1
          /\ holder' = [holder EXCEPT !.reg.build.incident = FALSE, !.pc = OnError]
          /\ UNCHANGED registry
    /\ UNCHANGED <<leaseVars, incusVars, spoolVars, upstream, builds>>

DeleteInstance ==
    /\ At("delete")
    /\ instance' = 0
    /\ Goto("images", holder.reg)
    /\ UNCHANGED <<images, operation, leaseVars, spoolVars, upstream, builds, faults>>

\* A crash after publication and before the commit leaves a complete image that
\* no base names.
DeleteUncommitted ==
    LET key == holder.reg.build.key
        committed == \E b \in holder.reg.bases : b.key = key
        used == \E s \in Slots : key \in {pin[s], machine[s]}
    IN
    /\ At("images")
    /\ IF key \in images /\ ~committed
       THEN IF used THEN Fails /\ UNCHANGED images
            ELSE images' = images \ {key} /\ Goto("cleaned", holder.reg)
       ELSE UNCHANGED images /\ Goto("cleaned", holder.reg)
    /\ UNCHANGED <<instance, operation, leaseVars, spoolVars, upstream, builds, faults>>

\* A build that has an incident gets the receipt that closes it.
RecordCleaned ==
    LET build == holder.reg.build IN
    /\ At("cleaned")
    /\ cleaned' = IF build.incident THEN cleaned \cup {build.key} ELSE cleaned
    /\ Goto("clear", holder.reg)
    /\ UNCHANGED <<incidents, leaseVars, incusVars, upstream, builds, faults>>

\* The staging record goes last.  After a build its caller continues, otherwise
\* the operation that found the old staging does.
ClearBuild ==
    LET reg == [holder.reg EXCEPT !.build = NoBuild]
        next == IF holder.base # 0 THEN "select"
                ELSE IF holder.kind = "refresh" THEN "build" ELSE "survey"
    IN
    /\ At("clear")
    /\ \/ /\ registry' = reg
          /\ holder' = [holder EXCEPT !.pc = next, !.reg = reg, !.building = FALSE]
          /\ UNCHANGED faults
       \/ /\ faults < MaxFaults /\ "clear" \in Failing
          /\ faults' = faults + 1
          /\ Goto(OnError, reg)
    /\ UNCHANGED <<leaseVars, incusVars, spoolVars, upstream, builds>>

-----------------------------------------------------------------------------
(* pruneImages.                                                            *)

\* What the leases and the machines use is read once, at the start.
Survey ==
    /\ At("survey")
    /\ holder' = [holder EXCEPT !.pc = "prune",
          !.pins = {pin[s] : s \in Slots} \cup {machine[s] : s \in Slots}]
    /\ UNCHANGED <<registry, leaseVars, incusVars, spoolVars, upstream, builds, faults>>

Latest(bases) ==
    LET usable == {b \in bases : ~b.unusable} IN
    {b \in usable : \A c \in usable : c.key <= b.key}

FaultKeepsPinned(reg, pins) == {b \in reg.bases : b.key \notin pins}
FaultDroppable(reg, pins) == {b \in reg.bases : b \notin Latest(reg.bases)}

\* Neither in use nor the newest image that may still be issued.
Droppable(reg, pins) ==
    {b \in reg.bases : b.key \notin pins /\ b \notin Latest(reg.bases)}

\* The image goes first, so that a crash leaves a base without an image, which
\* the next pass forgets, and never an image without a base.
PruneImage ==
    /\ At("prune")
    /\ LET drop == Droppable(holder.reg, holder.pins) IN
       IF drop # {}
       THEN LET b == CHOOSE b \in drop : \A c \in drop : b.key <= c.key IN
            /\ images' = images \ {b.key}
            /\ Goto("forget", [holder.reg EXCEPT !.bases = @ \ {b}])
       ELSE /\ UNCHANGED images
            /\ Goto(IF holder.kind = "reap" THEN "unlock" ELSE "select", holder.reg)
    /\ UNCHANGED <<instance, operation, leaseVars, spoolVars, upstream, builds, faults>>

Forget ==
    /\ At("forget")
    /\ Save("prune", holder.reg)
    /\ UNCHANGED <<leaseVars, incusVars, spoolVars, upstream, builds, faults>>

-----------------------------------------------------------------------------
(* Selection, and buildBase.                                               *)

\* The newest base that fits.  When the upstream cannot be asked, any does.
Fitting(reg, known) ==
    {b \in reg.bases : ~b.unusable /\ (known => b.up = upstream)}

\* An image that is gone makes its base unusable, and the build that follows
\* is subject to the retry deadline.
Select ==
    /\ At("select")
    /\ \E known \in BOOLEAN :
          LET fit == IF holder.base # 0 THEN {b \in holder.reg.bases : b.key = holder.base}
                     ELSE Fitting(holder.reg, known)
              best == CHOOSE b \in fit : \A c \in fit : c.key <= b.key
              lost == [holder.reg EXCEPT !.bases = (@ \ {best})
                                           \cup {[best EXCEPT !.unusable = TRUE]}]
              next == IF ~known \/ holder.reg.retry THEN "unlock" ELSE "build"
          IN IF fit = {} THEN Goto(next, holder.reg)
             ELSE IF best.key \notin images THEN Save(next, lost)
             ELSE /\ registry' = [holder.reg EXCEPT
                                    !.retry = IF holder.base # 0 THEN FALSE ELSE @]
                  /\ holder' = [holder EXCEPT !.base = best.key, !.reg = registry',
                       !.pc = IF holder.kind = "refresh" THEN "unlock" ELSE "pin"]
    /\ UNCHANGED <<leaseVars, incusVars, spoolVars, upstream, builds, faults>>

\* Staging is recorded before anything exists, and requires evidence until the
\* build has been validated.
StageBuild ==
    /\ At("build") /\ builds < MaxBuilds
    /\ builds' = builds + 1
    /\ registry' = [holder.reg EXCEPT
          !.build = [key |-> builds', failure |-> TRUE, incident |-> FALSE]]
    /\ holder' = [holder EXCEPT !.pc = "create", !.building = TRUE, !.reg = registry']
    /\ UNCHANGED <<leaseVars, incusVars, spoolVars, upstream, faults>>

\* The build ends before anything is staged: refused by admission, or, with a
\* retry deadline, because the upstream could not be asked.
RefuseBuild ==
    /\ At("build")
    /\ \E pc \in {"unlock", "failed"} : Goto(pc, holder.reg)
    /\ UNCHANGED <<leaseVars, incusVars, spoolVars, upstream, builds, faults>>

CreateInstance ==
    /\ At("create") /\ instance = 0 /\ operation = NoOperation
    /\ operation' = [kind |-> "create", key |-> holder.reg.build.key]
    /\ Goto("creating", holder.reg)
    /\ UNCHANGED <<images, instance, leaseVars, spoolVars, upstream, builds, faults>>

\* Incus finishes what it was asked for.
IncusFinishes ==
    /\ operation # NoOperation
    /\ operation' = NoOperation
    /\ IF operation.kind = "create"
       THEN instance' = operation.key /\ UNCHANGED images
       ELSE images' = images \cup {operation.key} /\ UNCHANGED instance
    /\ UNCHANGED <<registry, holder, leaseVars, spoolVars, upstream, builds, faults>>

\* Boot, recipe, second boot and checks.  A readiness failure is captured while
\* the machine is still there; any other error is left to the next cleanup.
Validate ==
    /\ At("creating") /\ instance = holder.reg.build.key
    /\ \/ Save("publish", [holder.reg EXCEPT !.build.failure = FALSE])
       \/ Save("capture", holder.reg)
       \/ Fails
    /\ UNCHANGED <<leaseVars, incusVars, spoolVars, upstream, builds, faults>>

Publish ==
    /\ At("publish") /\ operation = NoOperation
    /\ operation' = [kind |-> "publish", key |-> holder.reg.build.key]
    /\ Goto("publishing", holder.reg)
    /\ UNCHANGED <<images, instance, leaseVars, spoolVars, upstream, builds, faults>>

FaultCommit ==
    LET key == holder.reg.build.key IN
    /\ At("publishing") /\ operation = NoOperation
    /\ registry' = [holder.reg EXCEPT !.build = NoBuild,
          !.bases = @ \cup {[key |-> key, up |-> upstream, unusable |-> FALSE]}]
    /\ holder' = [holder EXCEPT !.reg.bases = registry'.bases, !.pc = "inspect",
                                !.base = key]
    /\ UNCHANGED <<leaseVars, incusVars, spoolVars, upstream, builds, faults>>

\* The image is there: the base is committed while the staging record still
\* exists, so that a crash on either side can be recovered.  The cache budget
\* may be exceeded.
CommitBase ==
    LET key == holder.reg.build.key IN
    /\ At("publishing") /\ operation = NoOperation
    /\ \/ /\ registry' = [holder.reg EXCEPT
                 !.bases = @ \cup {[key |-> key, up |-> upstream, unusable |-> FALSE]}]
          /\ holder' = [holder EXCEPT !.reg = registry', !.pc = "inspect", !.base = key]
       \/ Fails
    /\ UNCHANGED <<leaseVars, incusVars, spoolVars, upstream, builds, faults>>

-----------------------------------------------------------------------------
(* Leases, time and the world outside.                                     *)

\* The pin is written under both locks, and only for a lease that still waits
\* for its machines.
Pin ==
    /\ At("pin")
    /\ pin' = IF lease[holder.slot] = "provisioning"
              THEN [pin EXCEPT ![holder.slot] = holder.base] ELSE pin
    /\ Unlock
    /\ UNCHANGED <<registry, lease, machine, leases, incusVars, spoolVars, upstream,
                   builds, faults>>

Acquire(s) ==
    /\ lease[s] = "free" /\ leases < MaxLeases
    /\ lease' = [lease EXCEPT ![s] = "provisioning"]
    /\ leases' = leases + 1
    /\ UNCHANGED <<registry, holder, incusVars, pin, machine, spoolVars, upstream,
                   builds, faults>>

CreateMachines(s) ==
    /\ lease[s] = "provisioning" /\ pin[s] # 0
    /\ lease' = [lease EXCEPT ![s] = "live"]
    /\ machine' = [machine EXCEPT ![s] = pin[s]]
    /\ UNCHANGED <<registry, holder, incusVars, pin, leases, spoolVars, upstream,
                   builds, faults>>

\* A lease may be revoked at any time, while its base is being prepared too.
Drain(s) ==
    /\ lease[s] \in {"provisioning", "live"}
    /\ lease' = [lease EXCEPT ![s] = "draining"]
    /\ UNCHANGED <<registry, holder, incusVars, pin, machine, leases, spoolVars,
                   upstream, builds, faults>>

\* The machines go first, the pin with the rest of the lease.
DeleteMachines(s) ==
    /\ lease[s] = "draining" /\ machine[s] # 0
    /\ machine' = [machine EXCEPT ![s] = 0]
    /\ UNCHANGED <<registry, holder, incusVars, pin, lease, leases, spoolVars,
                   upstream, builds, faults>>

clearLease(s) ==
    /\ lease[s] = "draining" /\ machine[s] = 0
    /\ ~(holder # NoHolder /\ holder.kind = "prepare" /\ holder.slot = s)
    /\ lease' = [lease EXCEPT ![s] = "free"]
    /\ pin' = [pin EXCEPT ![s] = 0]
    /\ UNCHANGED <<registry, holder, incusVars, machine, leases, spoolVars, upstream,
                   builds, faults>>

\* The pool is rebuilt from quarantine: the pin is lost, the machines are not.
RebuildPool(s) ==
    /\ lease[s] = "live" /\ faults < MaxFaults
    /\ faults' = faults + 1
    /\ lease' = [lease EXCEPT ![s] = "draining"]
    /\ pin' = [pin EXCEPT ![s] = 0]
    /\ UNCHANGED <<registry, holder, incusVars, machine, leases, spoolVars, upstream,
                   builds>>

\* The retry deadline passes.
RetryDue ==
    /\ registry.retry
    /\ registry' = [registry EXCEPT !.retry = FALSE]
    /\ holder' = IF holder = NoHolder THEN holder ELSE [holder EXCEPT !.reg.retry = FALSE]
    /\ UNCHANGED <<leaseVars, incusVars, spoolVars, upstream, builds, faults>>

\* The upstream alias moves on.
UpstreamMoves ==
    /\ upstream' \in Upstreams \ {upstream}
    /\ UNCHANGED <<registry, holder, leaseVars, incusVars, spoolVars, builds, faults>>

\* Somebody deletes by hand an image that no lease uses and no build left behind,
\* while the broker is idle.
ImageRemoved ==
    /\ holder = NoHolder /\ faults < MaxFaults
    /\ faults' = faults + 1
    /\ \E k \in images \ {registry.build.key} :
          /\ \A s \in Slots : k \notin {pin[s], machine[s]}
          /\ images' = images \ {k}
    /\ UNCHANGED <<registry, holder, leaseVars, instance, operation, spoolVars,
                   upstream, builds>>

\* What the process that has the lock does next.
Step ==
    \/ Release \/ Failed \/ Inspect \/ Capture \/ saveBuilderIncident
    \/ DeleteInstance \/ DeleteUncommitted \/ RecordCleaned \/ ClearBuild
    \/ Survey \/ PruneImage \/ Forget \/ Select \/ StageBuild \/ RefuseBuild
    \/ CreateInstance \/ Validate \/ Publish \/ CommitBase \/ Pin

LeaseStep(s) ==
    \/ Acquire(s) \/ CreateMachines(s) \/ Drain(s) \/ DeleteMachines(s)
    \/ clearLease(s) \/ RebuildPool(s)

Next ==
    \/ \E s \in Slots : prepareEnvironment(s) \/ LeaseStep(s)
    \/ RefreshBase \/ ReapImages \/ Step
    \/ Crash \/ CallFails \/ IncusFinishes \/ RetryDue
    \/ UpstreamMoves \/ ImageRemoved

Spec == Init /\ [][Next]_vars

\* The holder runs until it returns, Incus finishes its tasks, deadlines pass,
\* and the reaper, which a timer starts again and again and which gives up when
\* the lock is taken, sometimes finds it free.
FairSpec ==
    /\ Spec /\ WF_vars(Step) /\ WF_vars(IncusFinishes) /\ WF_vars(RetryDue)
    /\ SF_vars(ReapImages)

-----------------------------------------------------------------------------
(* Properties.                                                             *)

\* The image that a lease has pinned, or that its machines run on, is never
\* deleted: pruneImages and cleanupImageBuild read the pins and the machines
\* once and delete later, while leases come, go and lose their records.
InUseImageKept ==
    \A s \in Slots : {pin[s], machine[s]} \ {0} \subseteq images

\* Whatever exists in Incus is accounted for in images.json, so that it can be
\* removed after a crash at any point of buildBase or cleanupImageBuild: an
\* image by its base or its staging record, a builder machine and a task that
\* Incus has not finished by the staging record.
StagingAccounted ==
    /\ images \subseteq {b.key : b \in registry.bases} \cup {registry.build.key}
    /\ instance \in {0, registry.build.key}
    /\ operation.key \in {0, registry.build.key}

\* A receipt base_builder.cleaned in the spool means that the builder machine
\* is gone and does not come back.
CleanedMeansGone ==
    \A k \in cleaned : instance # k /\ operation.key # k

\* The machine of a build that was not validated is deleted only after its
\* incident and the receipt of it are durable (saveBuilderIncident).
EvidenceBeforeDeletion ==
    [][instance # 0 /\ instance' = 0 /\ registry.build.failure
         => registry.build.incident /\ instance \in incidents]_vars

\* The newest usable base whose build is over, when its image is there.
Current ==
    {b \in Latest({c \in registry.bases : c.key # registry.build.key}) : b.key \in images}

\* There is always a base to issue once there was one: no build, failed refresh,
\* cleanup or prune takes the current one away without another in its place.
CurrentBaseKept ==
    [][Current # {} /\ ~ImageRemoved => Current' # {}]_vars

\* What a build leaves behind is cleaned up some day, by the reaper if by
\* nobody else.
StagingReclaimed == registry.build # NoBuild ~> registry.build = NoBuild
=============================================================================
