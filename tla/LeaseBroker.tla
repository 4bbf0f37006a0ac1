---------------------------- MODULE LeaseBroker ----------------------------
(***************************************************************************)
(* The lease store together with the processes that use it and the virtual *)
(* machines that they manage: facade processes that acquire and release    *)
(* (facade.go, acquire_session.go), the reaper, and the operator.          *)
(*                                                                         *)
(* Work on the machines of a slot runs under a lifecycle lock of the slot, *)
(* so a slot has at most one job.  The store's own lock is held only       *)
(* within a step.  A lease may therefore be drained, revoked or expire in  *)
(* the middle of a job, Incus finishes what was asked of it even after the *)
(* process that asked has died, and any process may die between any two    *)
(* steps.                                                                  *)
(***************************************************************************)
EXTENDS LeaseStore

CONSTANTS
    Guests,       \* the virtual machines of an environment
    MaxWaiting    \* bound: requests that wait for a lifecycle lock

ASSUME GuestsAssumption == IsFiniteSet(Guests) /\ Guests # {}

VARIABLES
    job,       \* job[s]: what the holder of the lifecycle lock of s is doing
    session,   \* session[t]: where the process that acquires lease t is
    waiting,   \* requests that published a drain and wait for the lock
    vms,       \* vms[s][v]: the Incus instance v of slot s
    ops,       \* ops[s]: Incus operations still running for slot s
    access     \* access[s]: the lease whose key the bastion forwards, or 0

machineVars == <<vms, ops, access>>
processVars == <<job, session, waiting>>
brokerVars == <<slots, grants, gone, closed, plan, scope,
                job, session, waiting, vms, ops, access>>

NoVM == [st |-> "none", gen |-> 0, epoch |-> 0]

\* A job carries the identity that its process read when it got the lock.
\* vm is the machine whose creation or start it waits for.  A recovery that has
\* begun is the same whoever asked for it.
NoJob == [kind |-> "none", pc |-> "none", lease |-> 0, gen |-> 0, epoch |-> 0,
          vm |-> 0]

Provisioning == {"reserve", "pin", "restrict", "create", "creating",
                 "start", "starting", "open"}
Cleaning == {"stop", "idle", "delete", "verify", "inventory"}

Jobs == [kind  : {"none", "acquire", "quarantine", "drain",
                  "scheduled", "forced", "recovery"},
         pc    : Provisioning \cup Cleaning
                 \cup {"none", "hold", "undo", "fence", "finish", "giveup",
                       "quarantine", "begin", "started"},
         lease : Nat, gen : Nat, epoch : Nat, vm : Guests \cup {0}]

\* v4 is set when the process keeps an acquire session open to its requester.
Sessions == [pc : {"none", "granted", "working", "rejected", "failed", "held",
                   "ack", "quarantine", "closing", "done"},
             v4 : BOOLEAN]

BrokerInit ==
    /\ Init
    /\ job = [s \in Slots |-> NoJob]
    /\ session = [t \in Leases |-> [pc |-> "none", v4 |-> FALSE]]
    /\ waiting = {}
    /\ vms = [s \in Slots |-> [v \in Guests |-> NoVM]]
    /\ ops = [s \in Slots |-> {}]
    /\ access = [s \in Slots |-> 0]

-----------------------------------------------------------------------------
(* The lifecycle lock.                                                     *)

\* id is the grant or the slot record that the process works on.
Lock(s, kind, pc, id) ==
    /\ job[s] = NoJob
    /\ job' = [job EXCEPT ![s] =
                  [kind |-> kind, pc |-> pc, lease |-> id.lease,
                   gen |-> id.gen, epoch |-> id.epoch, vm |-> 0]]

Unlock(s) == job' = [job EXCEPT ![s] = NoJob]

Goto(s, pc) == job' = [job EXCEPT ![s].pc = pc]

At(s, pcs) == job[s].pc \in pcs

WaitFor(s, pc, v) == job' = [job EXCEPT ![s].pc = pc, ![s].vm = v]

Turn(g, pc) == session' = [session EXCEPT ![g.lease] =
                             [pc |-> pc, v4 |-> @.v4 /\ pc # "done"]]

Await(request, g) ==
    /\ waiting' = waiting \cup {<<request, g.lease>>}
    /\ Cardinality(waiting') <= MaxWaiting

-----------------------------------------------------------------------------
(* The acquire process, outside the lifecycle lock (Facade.Run).           *)

Acquire(s, v4) ==
    /\ AcquireV3Slot(s, v4)
    /\ session' = [session EXCEPT ![NextLease] = [pc |-> "granted", v4 |-> v4]]
    /\ UNCHANGED <<job, waiting, machineVars>>

\* The acquire event must be durable before anything is provisioned.  No
\* session is open yet when it is not.
RecordAcquire(g, ok) ==
    /\ session[g.lease].pc = "granted"
    /\ session' = [session EXCEPT ![g.lease] =
                      IF ok THEN [@ EXCEPT !.pc = "working"]
                            ELSE [pc |-> "quarantine", v4 |-> FALSE]]
    /\ UNCHANGED <<storeVars, job, waiting, machineVars>>

\* A v4 requester is told that its slot is reserved before the work starts; if
\* that cannot be written, the session closes.
ReservationNotTold(g) ==
    /\ session[g.lease].pc = "working"
    /\ session[g.lease].v4
    /\ ~(job[g.slot].kind = "acquire" /\ job[g.slot].lease = g.lease)
    /\ Turn(g, "closing")
    /\ UNCHANGED <<storeVars, job, waiting, machineVars>>

\* What follows when the process has nothing more to do for its lease.
Leave(g) == Turn(g, IF session[g.lease].v4 THEN "closing" ELSE "done")

\* A refused admission touched no machine: the slot is simply given back.
AdmissionRejected(g) ==
    /\ session[g.lease].pc = "rejected"
    /\ \/ AbortProvisioning(g)
       \/ /\ ~(Owns(g) /\ Current[g.slot].state = "provisioning")
          /\ UNCHANGED storeVars
    /\ Leave(g)
    /\ UNCHANGED <<job, waiting, machineVars>>

\* A session that was cancelled, or whose slot drains, leaves the cleanup to
\* the release in its close; any other failure quarantines the slot.
ProvisioningFailed(g, cancelled) ==
    /\ session[g.lease].pc = "failed"
    /\ cancelled => session[g.lease].v4
    /\ ~cancelled => ~(session[g.lease].v4 /\ Current[g.slot].state = "draining")
    /\ Turn(g, IF cancelled THEN "closing" ELSE "quarantine")
    /\ Status
    /\ UNCHANGED <<job, waiting, machineVars>>

\* The held event must be durable before the requester is told.
RecordHeld(g, ok) ==
    /\ session[g.lease].pc = "held"
    /\ Turn(g, CASE ~ok -> "quarantine"
                 [] ok /\ session[g.lease].v4 -> "ack"
                 [] OTHER -> "done")
    /\ UNCHANGED <<storeVars, job, waiting, machineVars>>

\* A requester that acknowledges takes the lease over.  Otherwise, and when
\* the lease is no longer held, the session closes and releases it.
Acknowledge(g, acked) ==
    /\ session[g.lease].pc = "ack"
    /\ \/ acked /\ Handoff(g) /\ Turn(g, "done")
       \/ ~acked /\ UNCHANGED storeVars /\ Turn(g, "closing")
    /\ UNCHANGED <<job, waiting, machineVars>>

\* The exit of the process is what AcquireOwner.alive notices; it matters only
\* while the lease has authority.
Exit(g) == IF HasAuthority(g) /\ slots[g.slot].owner
           THEN RequesterGone(g) ELSE UNCHANGED storeVars

\* ReleaseSlot publishes the drain before it waits for the lifecycle lock.
PublishDrain(g) ==
    /\ Await("release", g)
    /\ \/ BeginDrain(g)
       \/ Owns(g) /\ Current[g.slot].state = "draining" /\ Status

CloseSession(g) ==
    /\ session[g.lease].pc = "closing"
    /\ Turn(g, "done")
    /\ IF Current[g.slot].epoch = g.epoch
          /\ Current[g.slot].state \in Live \cup {"draining"}
       THEN PublishDrain(g)
       ELSE Exit(g) /\ UNCHANGED waiting
    /\ UNCHANGED <<job, machineVars>>

\* The process dies, and with it the job that it was running.
SessionDies(g) ==
    /\ session[g.lease].pc \notin {"none", "done"}
    /\ Turn(g, "done")
    /\ job' = IF job[g.slot].kind = "acquire" /\ job[g.slot].lease = g.lease
              THEN [job EXCEPT ![g.slot] = NoJob] ELSE job
    /\ Exit(g)
    /\ UNCHANGED <<waiting, machineVars>>

-----------------------------------------------------------------------------
(* The acquire process under the lifecycle lock (acquireSlotLocked).       *)

Acquiring(g, pcs) == /\ job[g.slot].kind = "acquire"
                     /\ job[g.slot].lease = g.lease
                     /\ At(g.slot, pcs)

EnterAcquire(g) ==
    /\ session[g.lease].pc = "working"
    /\ Lock(g.slot, "acquire", "reserve", g)
    /\ Status
    /\ UNCHANGED <<session, waiting, machineVars>>

\* Fault: the slot is checked, but not that it is still this lease's.
FaultAnyProvisioning(g) == Current[g.slot].state = "provisioning"

\* The condition under which an admission and the pin of its base image are
\* written to the slot.
StillProvisioning(g) == Owns(g) /\ Current[g.slot].state = "provisioning"

ReserveEnvironment(g) ==
    /\ Acquiring(g, {"reserve"})
    /\ StillProvisioning(g)
    /\ Goto(g.slot, "pin")
    /\ Status
    /\ UNCHANGED <<session, waiting, machineVars>>

PinBase(g) ==
    /\ Acquiring(g, {"pin"})
    /\ StillProvisioning(g)
    /\ Goto(g.slot, "restrict")
    /\ Status
    /\ UNCHANGED <<session, waiting, machineVars>>

\* A CapacityError, raised only before any machine is created.
RejectAdmission(g) ==
    /\ Acquiring(g, {"reserve", "pin"})
    /\ Unlock(g.slot)
    /\ Turn(g, "rejected")
    /\ UNCHANGED <<storeVars, waiting, machineVars>>

RestrictAccess(g) ==
    /\ Acquiring(g, {"restrict"})
    /\ access' = [access EXCEPT ![g.slot] = 0]
    /\ Goto(g.slot, "create")
    /\ UNCHANGED <<storeVars, session, waiting, vms, ops>>

\* Every instance that exists in the slot carries the job's identity.
requireAllocationMarker(s) ==
    \A v \in Guests : vms[s][v].st # "none"
                         => slotMatchesLeaseIdentity(vms[s][v], job[s])

Operation(g, kind, v) ==
    [kind |-> kind, vm |-> v, gen |-> g.gen, epoch |-> g.epoch]

\* Ask Incus for one more machine, and wait for the operation to end.
CreateVM(g, v) ==
    /\ Acquiring(g, {"create"})
    /\ vms[g.slot][v].st = "none"
    /\ ops' = [ops EXCEPT ![g.slot] = @ \cup {Operation(g, "create", v)}]
    /\ WaitFor(g.slot, "creating", v)
    /\ UNCHANGED <<storeVars, session, waiting, vms, access>>

StartVM(g, v) ==
    /\ Acquiring(g, {"start"})
    /\ vms[g.slot][v].st = "stopped"
    /\ ops' = [ops EXCEPT ![g.slot] = @ \cup {Operation(g, "start", v)}]
    /\ WaitFor(g.slot, "starting", v)
    /\ UNCHANGED <<storeVars, session, waiting, vms, access>>

\* The operation succeeded; AcquireFails stands for one that did not.
OperationReturns(g) ==
    LET v == job[g.slot].vm IN
    /\ \/ /\ Acquiring(g, {"creating"})
          /\ vms[g.slot][v].st = "stopped"
          /\ WaitFor(g.slot, "create", 0)
       \/ /\ Acquiring(g, {"starting"})
          /\ vms[g.slot][v].st = "running"
          /\ WaitFor(g.slot, "start", 0)
    /\ UNCHANGED <<storeVars, session, waiting, machineVars>>

EnvironmentCreated(g) ==
    /\ Acquiring(g, {"create"})
    /\ \A v \in Guests : vms[g.slot][v].st # "none"
    /\ requireAllocationMarker(g.slot)
    /\ Goto(g.slot, "start")
    /\ UNCHANGED <<storeVars, session, waiting, machineVars>>

EnvironmentStarted(g) ==
    /\ Acquiring(g, {"start"})
    /\ \A v \in Guests : vms[g.slot][v].st = "running"
    /\ Goto(g.slot, "open")
    /\ UNCHANGED <<storeVars, session, waiting, machineVars>>

\* The key file may be in place although enableAgentAccess reports an error.
EnableAgentAccess(g, ok) ==
    /\ Acquiring(g, {"open"})
    /\ access' = [access EXCEPT ![g.slot] = g.lease]
    /\ IF ok THEN Goto(g.slot, "hold") /\ UNCHANGED session
             ELSE Unlock(g.slot) /\ Turn(g, "failed")
    /\ UNCHANGED <<storeVars, waiting, vms, ops>>

Hold(g) ==
    /\ Acquiring(g, {"hold"})
    /\ MarkHeld(g)
    /\ Unlock(g.slot)
    /\ Turn(g, "held")
    /\ UNCHANGED <<waiting, machineVars>>

\* The store refused MarkHeld, or could not be written.
HoldFails(g) ==
    /\ Acquiring(g, {"hold"})
    /\ Goto(g.slot, "undo")
    /\ UNCHANGED <<storeVars, session, waiting, machineVars>>

\* Any error, the end of the request's context included.  Incus goes on with
\* what it was asked to do.
AcquireFails(g) ==
    /\ Acquiring(g, Provisioning)
    /\ Unlock(g.slot)
    /\ Turn(g, "failed")
    /\ UNCHANGED <<storeVars, waiting, machineVars>>

-----------------------------------------------------------------------------
(* Stopping and deleting the machines of a slot.                           *)

Running(s) == {v \in Guests : vms[s][v].st = "running"}
Present(s) == {v \in Guests : vms[s][v].st # "none"}

Stopped(s, vs) == [vms EXCEPT ![s] = [v \in Guests |->
                      IF v \in vs THEN [@[v] EXCEPT !.st = "stopped"] ELSE @[v]]]
Deleted(s, vs) == [vms EXCEPT ![s] = [v \in Guests |->
                      IF v \in vs THEN NoVM ELSE @[v]]]

\* stopRetained after a refused MarkHeld; its errors are ignored, so any part
\* of it may be missing.
UndoAcquire(g) ==
    /\ Acquiring(g, {"undo"})
    /\ \/ UNCHANGED <<access, vms>>
       \/ /\ access' = [access EXCEPT ![g.slot] = 0]
          /\ \E vs \in SUBSET Running(g.slot) :
                /\ vs # {} => requireAllocationMarker(g.slot)
                /\ vms' = Stopped(g.slot, vs)
    /\ Unlock(g.slot)
    /\ Turn(g, "failed")
    /\ UNCHANGED <<storeVars, waiting, ops>>

RestrictRetained(s) ==
    /\ At(s, {"fence"})
    /\ access' = [access EXCEPT ![s] = 0]
    /\ Goto(s, "stop")
    /\ UNCHANGED <<storeVars, session, waiting, vms, ops>>

StopRetained(s) ==
    /\ At(s, {"stop"})
    /\ requireAllocationMarker(s)
    /\ vms' = Stopped(s, Running(s))
    /\ Goto(s, "idle")
    /\ UNCHANGED <<storeVars, session, waiting, ops, access>>

\* Fault: operations that outlived their client are not asked for.
FaultIgnoresOperations(s) == TRUE

\* An Incus client that was killed leaves its operation behind: an empty
\* inventory proves nothing while one is running.
requireAllocationIdle(s) == ops[s] = {}

AllocationIdle(s) ==
    /\ At(s, {"idle", "verify"})
    /\ requireAllocationIdle(s)
    /\ Goto(s, IF At(s, {"idle"}) THEN "delete" ELSE "inventory")
    /\ UNCHANGED <<storeVars, session, waiting, machineVars>>

DeleteInstances(s) ==
    /\ At(s, {"delete"})
    /\ requireAllocationMarker(s)
    /\ Running(s) = {}
    /\ vms' = Deleted(s, Guests)
    /\ Goto(s, "verify")
    /\ UNCHANGED <<storeVars, session, waiting, ops, access>>

NoneRemain(s) ==
    /\ At(s, {"inventory"})
    /\ Present(s) = {}
    /\ Goto(s, "finish")
    /\ UNCHANGED <<storeVars, session, waiting, machineVars>>

\* A step of the cleanup fails, possibly after a part of it was done.
CleanupFails(s) ==
    /\ At(s, Cleaning \cup {"fence"})
    /\ vms' \in {vms}
          \cup (IF At(s, {"stop"}) /\ requireAllocationMarker(s)
                THEN {Stopped(s, vs) : vs \in SUBSET Running(s)} ELSE {})
          \cup (IF At(s, {"delete"}) /\ requireAllocationMarker(s) /\ Running(s) = {}
                THEN {Deleted(s, vs) : vs \in SUBSET Guests} ELSE {})
    /\ Goto(s, "giveup")
    /\ UNCHANGED <<storeVars, session, waiting, ops, access>>

-----------------------------------------------------------------------------
(* Draining a slot: by the client's release, the operator's revocation or  *)
(* the reaper, whichever gets the lock first.                              *)

ReleaseSlot(g) == PublishDrain(g) /\ UNCHANGED <<job, session, machineVars>>

RevokeExpectedSlot(g) ==
    /\ Await("revoke", g)
    /\ \/ BeginExpectedDrain(g.slot, g)
       \/ Expected(g.slot, g) /\ Current[g.slot].state = "draining" /\ Status
    /\ UNCHANGED <<job, session, machineVars>>

DrainAll == BeginDrainAll /\ UNCHANGED <<processVars, machineVars>>

\* Fault: the slot is not looked at again once the lock is ours.
FaultDrainsUnchecked(request, g) == TRUE

\* The slot still drains for the request that waited for the lock.
DrainStillDue(request, g) ==
    /\ Current[g.slot].state = "draining"
    /\ Current[g.slot].epoch = g.epoch
    /\ request = "release" => Current[g.slot].lease = g.lease
    /\ request = "revoke" => Current[g.slot].gen = g.gen

EnterDrain(request, g) ==
    /\ <<request, g.lease>> \in waiting
    /\ job[g.slot] = NoJob
    /\ waiting' = waiting \ {<<request, g.lease>>}
    /\ IF DrainStillDue(request, g)
       THEN Lock(g.slot, "drain", "fence", Current[g.slot])
       ELSE UNCHANGED job
    /\ Status
    /\ UNCHANGED <<session, machineVars>>

ReapDraining(s) ==
    /\ Current[s].state = "draining"
    /\ Lock(s, "drain", "fence", Current[s])
    /\ Status
    /\ UNCHANGED <<session, waiting, machineVars>>

\* The end of finishDrainingSlot.
CompleteDrain(s, ok) ==
    /\ job[s].kind = "drain"
    /\ At(s, {IF ok THEN "finish" ELSE "giveup"})
    /\ FinishDrain(s, ok)
    /\ IF ok THEN Unlock(s) ELSE Goto(s, "quarantine")
    /\ UNCHANGED <<session, waiting, machineVars>>

-----------------------------------------------------------------------------
(* Quarantine and recovery.                                                *)

EnterQuarantine(g) ==
    /\ session[g.lease].pc = "quarantine"
    /\ job[g.slot] = NoJob
    /\ IF Owns(g) /\ Current[g.slot].state # "draining"
       THEN Quarantine(g) /\ Lock(g.slot, "quarantine", "quarantine", g)
       ELSE UNCHANGED <<storeVars, job>>
    /\ Leave(g)
    /\ UNCHANGED <<waiting, machineVars>>

\* It goes on when it cannot fence the access, but not when it cannot make the
\* incident durable.
handleQuarantineLocked(s, fenced, recorded) ==
    /\ At(s, {"quarantine"})
    /\ access' = IF fenced THEN [access EXCEPT ![s] = 0] ELSE access
    /\ IF recorded THEN SetQuarantineIncident(s) ELSE UNCHANGED storeVars
    /\ CASE job[s].kind = "recovery" ->
                Goto(s, IF recorded THEN "started" ELSE "giveup")
         [] job[s].kind \in {"scheduled", "forced"} /\ recorded -> Goto(s, "begin")
         [] OTHER -> Unlock(s)
    /\ UNCHANGED <<session, waiting, vms, ops>>

\* Fault: an interrupted recovery is not taken up again.
FaultLeavesInterrupted(s, force) ==
    /\ Current[s].state = "quarantined"
    /\ force = ~dueForRecovery(Current[s])
    /\ Status
    /\ Lock(s, IF force THEN "forced" ELSE "scheduled",
            IF Current[s].incident THEN "begin" ELSE "quarantine", Current[s])
    /\ UNCHANGED <<session, waiting, machineVars>>

\* RecoverScheduled: the reaper for a slot that is due, the operator for any;
\* force matters only before the slot is due.  A recovering slot without a job
\* was interrupted.
RecoverScheduled(s, force) ==
    /\ \/ /\ ~force
          /\ Lock(s, "scheduled", "quarantine", Current[s])
          /\ InterruptRecovery(s)
       \/ /\ Current[s].state = "quarantined"
          /\ force = ~dueForRecovery(Current[s])
          /\ Status
          /\ Lock(s, IF force THEN "forced" ELSE "scheduled",
                  IF Current[s].incident THEN "begin" ELSE "quarantine", Current[s])
    /\ UNCHANGED <<session, waiting, machineVars>>

BeginRecovery(s) ==
    /\ At(s, {"begin"})
    /\ BeginScheduledRecovery(s, job[s].kind = "forced")
    /\ job' = [job EXCEPT ![s].kind = "recovery", ![s].pc = "started"]
    /\ UNCHANGED <<session, waiting, machineVars>>

RecoverExpectedSlot(g) ==
    /\ Lock(g.slot, "recovery",
            IF Current[g.slot].incident THEN "started" ELSE "quarantine", g)
    /\ BeginExpectedRecovery(g.slot, g)
    /\ UNCHANGED <<session, waiting, machineVars>>

\* The start of the recovery must be durable before machines are destroyed.
RecordRecoveryStart(s, ok) ==
    /\ At(s, {"started"})
    /\ Goto(s, IF ok THEN "fence" ELSE "giveup")
    /\ UNCHANGED <<storeVars, session, waiting, machineVars>>

\* A success that cannot be written to the pool is recorded as a failure.
CompleteRecovery(s, ok) ==
    /\ job[s].kind = "recovery"
    /\ At(s, IF ok THEN {"finish"} ELSE {"finish", "giveup"})
    /\ FinishRecovery(s, ok)
    /\ Unlock(s)
    /\ UNCHANGED <<session, waiting, machineVars>>

\* The process that cleans, quarantines or recovers a slot is killed, or the
\* file system refuses its next store operation.
JobDies(s) ==
    /\ job[s].kind \notin {"none", "acquire"}
    /\ Unlock(s)
    /\ UNCHANGED <<storeVars, session, waiting, machineVars>>

-----------------------------------------------------------------------------
(* Incus, the guests, the lease's heartbeat and time.                      *)

\* An operation ends.  It has an effect only on an instance in the right state.
OperationEnds(s, op, ok) ==
    /\ op \in ops[s]
    /\ ops' = [ops EXCEPT ![s] = @ \ {op}]
    /\ vms' = [vms EXCEPT ![s][op.vm] =
                  CASE ok /\ op.kind = "create" /\ @.st = "none"
                           -> [st |-> "stopped", gen |-> op.gen, epoch |-> op.epoch]
                    [] ok /\ op.kind = "start" /\ @.st = "stopped"
                           -> [@ EXCEPT !.st = "running"]
                    [] OTHER -> @]
    /\ UNCHANGED <<storeVars, processVars, access>>

\* A client may shut its machines down.
GuestPowersOff(s, v) ==
    /\ access[s] # 0
    /\ vms[s][v].st = "running"
    /\ vms' = [vms EXCEPT ![s][v].st = "stopped"]
    /\ UNCHANGED <<storeVars, processVars, ops, access>>

Heartbeat(g) == Renew(g) /\ UNCHANGED <<processVars, machineVars>>

TimePasses == Tick /\ UNCHANGED <<processVars, machineVars>>

-----------------------------------------------------------------------------
SessionStep(g) ==
    \/ \E ok \in BOOLEAN : RecordAcquire(g, ok) \/ RecordHeld(g, ok)
    \/ ReservationNotTold(g)
    \/ AdmissionRejected(g)
    \/ \E cancelled \in BOOLEAN : ProvisioningFailed(g, cancelled)
    \/ \E acked \in BOOLEAN : Acknowledge(g, acked)
    \/ CloseSession(g)

AcquireStep(g) ==
    \/ ReserveEnvironment(g)
    \/ PinBase(g)
    \/ RejectAdmission(g)
    \/ RestrictAccess(g)
    \/ \E v \in Guests : CreateVM(g, v) \/ StartVM(g, v)
    \/ OperationReturns(g)
    \/ EnvironmentCreated(g)
    \/ EnvironmentStarted(g)
    \/ \E ok \in BOOLEAN : EnableAgentAccess(g, ok)
    \/ Hold(g)
    \/ HoldFails(g)
    \/ AcquireFails(g)
    \/ UndoAcquire(g)

CleanStep(s) ==
    \/ RestrictRetained(s)
    \/ StopRetained(s)
    \/ AllocationIdle(s)
    \/ DeleteInstances(s)
    \/ NoneRemain(s)

JobStep(s) ==
    \/ CleanStep(s)
    \/ CleanupFails(s)
    \/ BeginRecovery(s)
    \/ \E ok \in BOOLEAN :
          \/ CompleteDrain(s, ok)
          \/ \E fenced \in BOOLEAN : handleQuarantineLocked(s, fenced, ok)
          \/ RecordRecoveryStart(s, ok)
          \/ CompleteRecovery(s, ok)

BrokerNext ==
    \/ \E s \in Slots, v4 \in BOOLEAN : Acquire(s, v4)
    \/ \E g \in grants :
          \/ SessionStep(g)
          \/ SessionDies(g)
          \/ EnterAcquire(g)
          \/ AcquireStep(g)
          \/ EnterQuarantine(g)
          \/ ReleaseSlot(g)
          \/ RevokeExpectedSlot(g)
          \/ \E request \in {"release", "revoke"} : EnterDrain(request, g)
          \/ RecoverExpectedSlot(g)
          \/ Heartbeat(g)
    \/ \E s \in Slots :
          \/ ReapDraining(s)
          \/ \E force \in BOOLEAN : RecoverScheduled(s, force)
          \/ JobStep(s)
          \/ JobDies(s)
          \/ \E op \in ops[s], ok \in BOOLEAN : OperationEnds(s, op, ok)
          \/ \E v \in Guests : GuestPowersOff(s, v)
    \/ DrainAll
    \/ TimePasses

BrokerSpec == BrokerInit /\ [][BrokerNext]_brokerVars

(***************************************************************************)
(* Fairness.  Processes that hold a lock run on, Incus ends what it was    *)
(* asked to do, time passes, and a systemd timer runs the reaper again and *)
(* again.  Nothing can be reclaimed while every attempt fails or is        *)
(* killed, so failures are assumed to end at some time.                    *)
(***************************************************************************)
Disturbance ==
    \/ \E g \in grants : SessionDies(g)
    \/ \E s \in Slots :
          \/ CleanupFails(s)
          \/ \E fenced \in BOOLEAN : handleQuarantineLocked(s, fenced, FALSE)
          \/ RecordRecoveryStart(s, FALSE)
          \/ At(s, {"finish"}) /\ CompleteRecovery(s, FALSE)
          \/ JobDies(s)

FairBrokerSpec ==
    /\ BrokerSpec
    /\ <>[][~Disturbance]_brokerVars
    /\ WF_brokerVars(TimePasses)
    /\ \A s \in Slots :
          /\ WF_brokerVars(JobStep(s))
          /\ WF_brokerVars(\E g \in grants : g.slot = s /\ AcquireStep(g))
          /\ WF_brokerVars(\E op \in ops[s], ok \in BOOLEAN : OperationEnds(s, op, ok))
          /\ WF_brokerVars(ReapDraining(s))
          /\ WF_brokerVars(RecoverScheduled(s, FALSE))

-----------------------------------------------------------------------------

\* Nothing of an earlier lease is left in a slot that can be acquired.
Clean(s) == Present(s) = {} /\ ops[s] = {} /\ access[s] = 0

\* A slot is offered to the next client only when no machine, no access and
\* no running Incus operation of an earlier lease is left, whoever died when.
AvailableIsClean ==
    \A s \in Slots : slots[s].state = "available" => Clean(s)

\* Whatever exists in a slot, machines still being created included, belongs
\* to the lease recorded for the slot: nobody reaches another lease's machine,
\* and the markers that the cleanup insists on always match.
MachinesBelongToLease ==
    \A s \in Slots :
       /\ access[s] \in {0, slots[s].lease}
       /\ \A v \in Present(s) : slotMatchesLeaseIdentity(vms[s][v], slots[s])
       /\ \A op \in ops[s] : slotMatchesLeaseIdentity(op, slots[s])

\* The client of slot s can reach all of its machines.
Usable(s) ==
    /\ access[s] = slots[s].lease
    /\ Present(s) = Guests
    /\ \A v \in Guests : slotMatchesLeaseIdentity(vms[s][v], slots[s])

\* The slot as a client sees it.  A slot that breaks the promise of its state
\* maps to no phase of DisposableLease.
Phase(s) ==
    CASE slots[s].state = "available" /\ Clean(s)      -> "free"
      [] slots[s].state = "provisioning"               -> "preparing"
      [] slots[s].state = "held" /\ Usable(s)          -> "usable"
      [] slots[s].state \in {"draining", "quarantined", "recovering"} -> "revoked"
      [] OTHER                                         -> "broken"

\* The leases that have ever had slot s.
Past(s) == {g.lease : g \in {h \in grants : h.slot = s}}

Contract(s) == INSTANCE DisposableLease WITH
                  phase <- Phase(s), tenant <- slots[s].lease, past <- Past(s)

\* Every slot keeps the contract of DisposableLease (its Safety), whichever
\* process dies when and however late Incus ends what it was asked to do: a
\* fresh lease each time, reachable machines while it is held, no way back
\* from a revocation, and nothing left of it before the next (AcquireV3Slot,
\* acquireSlotLocked, finishDrainingSlot, completeRecovery).
BrokerKeepsLeaseContract ==
    /\ \A s \in Slots : Contract(s)!Init
    /\ [][\A s \in Slots : UNCHANGED Contract(s)!vars \/ Contract(s)!Next]_brokerVars

\* Machines are stopped and deleted only for the lease that the process saw
\* when it took the lock, and only once that lease has lost its authority.
CleansOnlyRevoked ==
    \A s \in Slots :
       At(s, Cleaning \cup {"fence", "finish"}) =>
          /\ slots[s].state = (IF job[s].kind = "drain" THEN "draining"
                                                        ELSE "recovering")
          /\ slotMatchesLeaseIdentity(slots[s], job[s])
=============================================================================
