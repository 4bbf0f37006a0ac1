---------------------------- MODULE AndroidPool ----------------------------
(***************************************************************************)
(* The Android emulator pool (config/profiles/android/pool.py): a service  *)
(* of one process whose threads share the slots under one lock.  Requests, *)
(* provisioning workers, the reaper in the main loop, the operator's revoke*)
(* and drain and the shutdown all stop slots; each section under the lock  *)
(* is one action here, and what happens between two sections of one thread *)
(* (resolving an image, downloading it, launching or stopping a runtime,   *)
(* joining a worker) is interleaved with everything else.                  *)
(*                                                                         *)
(* pool.json is written in the same section as every change of a slot, so  *)
(* that slot, size and floor are what a restart reads.  Workers, calls,    *)
(* tombstones and SDK locks live in the process and die with it; runtimes  *)
(* are systemd units and do not, at once.                                  *)
(***************************************************************************)
EXTENDS Integers

CONSTANTS
    Tokens,        \* lease credentials; a client makes one per allocation
    NoToken,
    Images,        \* system images by key
    NoImage,
    MaxSize,       \* bound on the configured size of the pool
    TTL,           \* ticks to the expiry of a lease that is not renewed
    Used,          \* how often each slot was leased before
    MaxFaults,     \* bound on deaths, unconfirmed stops and lost emulators
    MaxOps         \* bound on what operators start: stops, setup, preparation

ASSUME AndroidAssumption ==
    /\ MaxSize \in Nat \ {0} /\ TTL \in Nat \ {0} /\ Used \in Nat
    /\ MaxFaults \in Nat /\ MaxOps \in Nat
    /\ NoImage \notin Images
    /\ \A c \in {NoToken, "admin", "main"} : c \notin Tokens

VARIABLES
    config,        \* the size in /etc/subyard-android.json
    size,          \* pool.json: how many slots there are
    floor,         \* pool.json: generation_floor
    slot,          \* pool.json: the slots
    main,          \* the main thread: where it is, what the reaper has left
    closed,        \* admission is closed by a drain or by the shutdown
    worker,        \* the provisioning thread of each slot
    call,          \* the threads in stop_slot: releases, operator, shutdown
    client,        \* the reserve request of each token
    asked,         \* tokens whose client has asked for release
    answered,      \* tokens whose release was answered: released
    cancelled,     \* tombstones of releases that overtook their reserve
    sdk,           \* slots that hold the SDK lock shared
    maintenance,   \* setup holds the SDK lock exclusively
    prepare,       \* the cache preparation
    cached,        \* images in the cache
    unit,          \* runtimes (systemd units) that run
    tunnel,        \* open connections, by slot and generation
    faults,
    ops,
    granted        \* history: the generations that each slot was leased for

disk    == <<config, size, floor>>
threads == <<main, closed, call>>
clients == <<client, asked, answered, cancelled>>
files   == <<maintenance, prepare, cached>>
vars    == <<disk, slot, threads, worker, clients, sdk, files, unit, tunnel,
             faults, ops, granted>>

Slots   == 1 .. MaxSize
Present == 1 .. size
Callers == Tokens \cup {"admin", "main"}
Up      == main.pc \notin {"down", "recover"}

NoWorker == [pc |-> "none", cancel |-> FALSE]
NoCall   == [pc |-> "idle", op |-> "none", slot |-> 1, gen |-> 0]
NoMain   == [pc |-> "down", todo |-> {}]
Fresh(g) == [state |-> "available", gen |-> g, cred |-> NoToken,
             image |-> NoImage, ttl |-> 0]

\* The service is to be started, for the first time (Used = 0) or on a pool
\* of whatever size that had MaxSize slots when each was leased Used times.
Init ==
    /\ config \in Slots /\ size = config /\ floor = Used
    /\ slot = [s \in Slots |-> Fresh(IF s <= size THEN Used ELSE 0)]
    /\ main = NoMain /\ closed = FALSE
    /\ worker = [s \in Slots |-> NoWorker]
    /\ call = [c \in Callers |-> NoCall]
    /\ client = [t \in Tokens |-> "sent"]
    /\ asked = {} /\ answered = {} /\ cancelled = {}
    /\ sdk = {} /\ maintenance = FALSE
    /\ prepare = [pc |-> "none", image |-> NoImage]
    /\ cached = {} /\ unit = {} /\ tunnel = {} /\ faults = 0 /\ ops = 0
    /\ granted = [s \in Slots |-> 1 .. Used]

Busy(s)    == slot[s].state # "available"
Live(s)    == slot[s].state \in {"provisioning", "held"}
Expired(s) == slot[s].ttl = 0
Running(s) == {u \in unit : u.slot = s /\ u.gen = slot[s].gen}

\* One more thing that an operator does.
Operate == ops < MaxOps /\ ops' = ops + 1

SdkExclusive == maintenance \/ prepare.pc # "none"
ImageBusy    == prepare.pc = "download" \/ \E s \in Slots : worker[s].pc = "download"

----------------------------------------------------------------------------
(* Ending a lease: fence and finish_stop. *)

\* Authority ends at once: the worker is cancelled, connections are closed.
Fenced(S) == [s \in Slots |->
    IF s \in S THEN [slot[s] EXCEPT !.state = "draining"] ELSE slot[s]]
Cancelled(S) == [s \in Slots |->
    IF s \in S /\ worker[s].pc # "none" THEN [worker[s] EXCEPT !.cancel = TRUE]
    ELSE worker[s]]
fence(S) ==
    /\ slot' = Fenced(S)
    /\ worker' = Cancelled(S)
    /\ tunnel' = {c \in tunnel : c[1] \notin S}

\* Only the credential stays, for an idempotent release.
Emptied(s) == [slot[s] EXCEPT !.state = "available", !.image = NoImage, !.ttl = 0]

StopConfirmed(s) ==
    /\ unit' = unit \ Running(s)
    /\ slot' = [slot EXCEPT ![s] = Emptied(s)]
    /\ sdk' = sdk \ {s}
    /\ UNCHANGED faults

\* Plausible mistake: the SDK lock is given back although the stop failed.
FaultClosesSdkLock(s) ==
    /\ faults < MaxFaults /\ faults' = faults + 1
    /\ slot' = [slot EXCEPT ![s].state = "quarantined"]
    /\ sdk' = sdk \ {s}
    /\ UNCHANGED unit

StopUnconfirmed(s) ==
    /\ faults < MaxFaults /\ faults' = faults + 1
    /\ slot' = [slot EXCEPT ![s].state = "quarantined"]
    /\ UNCHANGED <<unit, sdk>>

----------------------------------------------------------------------------
(* Reservation: two sections under the lock, the image resolved between. *)

Free == {s \in Present : ~Busy(s) /\ worker[s].pc = "none"}

ReserveCheck(t) ==
    /\ Up /\ client[t] = "sent" /\ ~closed /\ Free # {}
    /\ client' = [client EXCEPT ![t] = "resolving"]
    /\ UNCHANGED <<disk, slot, threads, worker, asked, answered, cancelled, sdk,
                   files, unit, tunnel, faults, ops, granted>>

\* Plausible mistake: the second section forgets the tombstones.
FaultNoTombstone(t) ==
    /\ ~closed /\ Free # {} /\ ~SdkExclusive
    /\ \A s \in Present : slot[s].cred # t

Reservable(t) ==
    /\ t \notin cancelled /\ ~closed /\ Free # {} /\ ~SdkExclusive
    /\ \A s \in Present : slot[s].cred # t

\* The first free slot.
Reserve(t) ==
    /\ Up /\ client[t] = "resolving" /\ Reservable(t)
    /\ \E s \in Free, i \in Images :
          /\ \A r \in Free : s <= r
          /\ slot' = [slot EXCEPT ![s] = [state |-> "provisioning", gen |-> @.gen + 1,
                                          cred |-> t, image |-> i, ttl |-> TTL]]
          /\ floor' = IF floor <= slot[s].gen THEN slot[s].gen + 1 ELSE floor
          /\ worker' = [worker EXCEPT ![s] = [pc |-> "ensure", cancel |-> FALSE]]
          /\ sdk' = sdk \cup {s}
          /\ granted' = [granted EXCEPT ![s] = @ \cup {slot[s].gen + 1}]
    /\ client' = [client EXCEPT ![t] = "done"]
    /\ UNCHANGED <<config, size, threads, asked, answered, cancelled, files,
                   unit, tunnel, faults, ops>>

\* Only a busy answer is retried, and only by a client that still wants it.
ReserveRefused(t) ==
    /\ Up /\ client[t] = "resolving"
    /\ \/ client' = [client EXCEPT ![t] = "done"]
       \/ /\ t \notin asked /\ (Free = {} \/ SdkExclusive)
          /\ client' = [client EXCEPT ![t] = "sent"]
    /\ UNCHANGED <<disk, slot, threads, worker, asked, answered, cancelled, sdk,
                   files, unit, tunnel, faults, ops, granted>>

----------------------------------------------------------------------------
(* The provisioning worker of a slot. *)

At(s, pc)   == worker[s].pc = pc
Goto(s, pc) == worker' = [worker EXCEPT ![s].pc = pc]

EnsureImage(s) ==
    /\ At(s, "ensure") /\ ~ImageBusy /\ ~worker[s].cancel
    /\ Goto(s, IF slot[s].image \in cached THEN "check" ELSE "download")
    /\ UNCHANGED <<disk, slot, threads, clients, sdk, files, unit, tunnel, faults,
                   ops, granted>>

PublishImage(s) ==
    /\ At(s, "download") /\ Goto(s, "check")
    /\ cached' = cached \cup {slot[s].image}
    /\ UNCHANGED <<disk, slot, threads, clients, sdk, maintenance, prepare, unit,
                   tunnel, faults, ops, granted>>

CheckCapacity(s) ==
    /\ At(s, "check") /\ ~worker[s].cancel /\ Goto(s, "start")
    /\ UNCHANGED <<disk, slot, threads, clients, sdk, files, unit, tunnel, faults,
                   ops, granted>>

\* The cancellation is looked at before the launch, not together with it.
StartRuntime(s) ==
    /\ At(s, "start") /\ Running(s) = {} /\ Goto(s, "boot")
    /\ unit' = unit \cup {[slot |-> s, gen |-> slot[s].gen,
                           image |-> slot[s].image, outlived |-> FALSE]}
    /\ UNCHANGED <<disk, slot, threads, clients, sdk, files, tunnel, faults, ops, granted>>

\* The lock is taken after the runtime has reported that it is ready; it may
\* have exited again by then, and is not looked at once more.
Hold(s) ==
    /\ At(s, "boot")
    /\ slot[s].state = "provisioning" /\ ~worker[s].cancel
    /\ slot' = [slot EXCEPT ![s].state = "held"]
    /\ Goto(s, "ended")
    /\ UNCHANGED <<disk, threads, clients, sdk, files, unit, tunnel, faults, ops,
                   granted>>

ProvisionFails(s) ==
    /\ worker[s].pc \in {"ensure", "download", "check", "start", "boot"}
    /\ slot' = [slot EXCEPT ![s].state = "draining"]
    /\ Goto(s, "stop")
    /\ UNCHANGED <<disk, threads, clients, sdk, files, unit, tunnel, faults, ops, granted>>

\* The worker stops its runtime without the lock and records it with the lock.
WorkerStops(s) ==
    /\ At(s, "stop")
    /\ \/ /\ unit' = unit \ Running(s) /\ Goto(s, "stopped")
          /\ UNCHANGED faults
       \/ /\ faults < MaxFaults /\ faults' = faults + 1
          /\ Goto(s, "unconfirmed")
          /\ UNCHANGED unit
    /\ UNCHANGED <<disk, slot, threads, clients, sdk, files, tunnel, ops, granted>>

WorkerFrees(s) ==
    /\ At(s, "stopped") /\ Goto(s, "ended")
    /\ slot' = [slot EXCEPT ![s] = Emptied(s)]
    /\ sdk' = sdk \ {s}
    /\ UNCHANGED <<disk, threads, clients, files, unit, tunnel, faults, ops, granted>>

WorkerQuarantines(s) ==
    /\ At(s, "unconfirmed") /\ Goto(s, "ended")
    /\ slot' = [slot EXCEPT ![s].state = "quarantined"]
    /\ UNCHANGED <<disk, threads, clients, sdk, files, unit, tunnel, faults, ops, granted>>

WorkerEnds(s) ==
    /\ At(s, "ended")
    /\ worker' = [worker EXCEPT ![s] = NoWorker]
    /\ UNCHANGED <<disk, slot, threads, clients, sdk, files, unit, tunnel, faults,
                   ops, granted>>

Worker(s) ==
    \/ EnsureImage(s) \/ PublishImage(s) \/ CheckCapacity(s) \/ StartRuntime(s)
    \/ Hold(s) \/ ProvisionFails(s) \/ WorkerStops(s)
    \/ WorkerFrees(s) \/ WorkerQuarantines(s) \/ WorkerEnds(s)

----------------------------------------------------------------------------
(* The client's other requests. *)

Renew(t) ==
    /\ Up
    /\ \E s \in Present :
          /\ slot[s].cred = t /\ Live(s) /\ ~Expired(s)
          /\ slot' = [slot EXCEPT ![s].ttl = TTL]
    /\ UNCHANGED <<disk, threads, worker, clients, sdk, files, unit, tunnel, faults,
                   ops, granted>>

OpenTunnel(t) ==
    /\ Up
    /\ \E s \in Present :
          /\ slot[s].cred = t /\ slot[s].state = "held" /\ ~Expired(s)
          /\ Running(s) # {}
          /\ tunnel' = tunnel \cup {<<s, slot[s].gen>>}
    /\ UNCHANGED <<disk, slot, threads, worker, clients, sdk, files, unit, faults,
                   ops, granted>>

CloseTunnel ==
    /\ \E c \in tunnel : tunnel' = tunnel \ {c}
    /\ UNCHANGED <<disk, slot, threads, worker, clients, sdk, files, unit, faults,
                   ops, granted>>

\* An unknown token may belong to a reserve that is still on its way.
Release(t) ==
    /\ Up /\ call[t].pc = "idle"
    /\ asked' = asked \cup {t}
    /\ \/ \E s \in Present :
             /\ slot[s].cred = t
             /\ call' = [call EXCEPT ![t] = [pc |-> "enter", op |-> "release",
                                             slot |-> s, gen |-> slot[s].gen]]
             /\ UNCHANGED <<answered, cancelled>>
       \/ /\ \A s \in Present : slot[s].cred # t
          /\ cancelled' = cancelled \cup {t}
          /\ answered' = answered \cup {t}
          /\ UNCHANGED call
    /\ UNCHANGED <<disk, slot, main, closed, worker, client, sdk, files, unit, tunnel,
                   faults, ops, granted>>

----------------------------------------------------------------------------
(* stop_slot, for a release (bound to a generation), a revocation, a drain *)
(* and the shutdown, which go through the slots one after another.         *)

Revoke ==
    /\ Operate
    /\ Up /\ call["admin"].pc = "idle"
    /\ \E s \in Present :
          call' = [call EXCEPT !["admin"] = [pc |-> "enter", op |-> "revoke",
                                             slot |-> s, gen |-> 0]]
    /\ UNCHANGED <<disk, slot, main, closed, worker, clients, sdk, files, unit, tunnel,
                   faults, granted>>

Drain ==
    /\ Operate
    /\ Up /\ call["admin"].pc = "idle"
    /\ closed' = TRUE
    /\ call' = [call EXCEPT !["admin"] = [pc |-> "enter", op |-> "drain",
                                          slot |-> 1, gen |-> 0]]
    /\ UNCHANGED <<disk, slot, main, worker, clients, sdk, files, unit, tunnel, faults,
                   granted>>

\* A drain goes on after success only and then opens admission, whatever
\* happened; the shutdown goes on in any case.
Return(c, ok) ==
    LET this == call[c]
        more == this.slot < size
        next == [this EXCEPT !.pc = "enter", !.slot = @ + 1, !.gen = 0]
        end  == [NoCall EXCEPT !.pc = IF c = "main" THEN "done" ELSE "idle"]
        goesOn == more /\ (this.op = "shutdown" \/ (this.op = "drain" /\ ok))
    IN /\ call' = [call EXCEPT ![c] = IF goesOn THEN next ELSE end]
       /\ closed' = (closed /\ (this.op = "drain" => goesOn))
       /\ answered' = IF c \in Tokens /\ ok THEN answered \cup {c} ELSE answered

\* Plausible mistake: stop_slot does not compare generations.
FaultStopsSuccessor(c) == FALSE

\* The lease that a release was sent for is over already.
Superseded(c) == call[c].gen \notin {0, slot[call[c].slot].gen}

StopEnter(c) ==
    LET s == call[c].slot IN
    /\ call[c].pc = "enter"
    /\ \/ /\ Superseded(c) \/ ~Busy(s)
          /\ Return(c, TRUE)
          /\ UNCHANGED <<slot, worker, tunnel>>
       \/ /\ ~Superseded(c) /\ Busy(s)
          /\ fence({s})
          /\ call' = [call EXCEPT ![c].pc = "wait", ![c].gen = slot[s].gen]
          /\ UNCHANGED <<closed, answered>>
    /\ UNCHANGED <<disk, main, client, asked, cancelled, sdk, files, unit, faults,
                   ops, granted>>

\* The worker has been joined: it is gone, or a later one has its place.
StopFinish(c) ==
    LET s == call[c].slot IN
    /\ call[c].pc = "wait"
    /\ Superseded(c) \/ worker[s].pc = "none"
    /\ \/ /\ Superseded(c) \/ ~Busy(s)
          /\ Return(c, TRUE)
          /\ UNCHANGED <<slot, sdk, unit, faults>>
       \/ /\ ~Superseded(c) /\ Busy(s)
          /\ \/ StopConfirmed(s) /\ Return(c, TRUE)
             \/ StopUnconfirmed(s) /\ Return(c, FALSE)
    /\ UNCHANGED <<disk, main, worker, client, asked, cancelled, files, tunnel,
                   ops, granted>>

JoinTimeout(c) ==
    /\ call[c].pc = "wait" /\ ~Superseded(c)
    /\ worker[call[c].slot].pc # "none"
    /\ Return(c, FALSE)
    /\ UNCHANGED <<disk, slot, main, worker, client, asked, cancelled, sdk, files,
                   unit, tunnel, faults, ops, granted>>

----------------------------------------------------------------------------
(* The main thread: start, recovery, the reaper, shutdown. *)

\* Plausible mistake: an occupied pool may be shrunk.
FaultShrinksOccupied == FALSE

Refused == \E s \in Present : s > config /\ Busy(s)

\* Plausible mistake: a slot that comes back counts from zero.
FaultForgetsFloor(s) == IF s > config THEN Fresh(0)
                        ELSE IF s \in Present THEN slot[s] ELSE Fresh(0)

\* Pool() and the first section of reap(recovery=True).
Loaded(s) == IF s > config THEN Fresh(0)
             ELSE IF s \in Present THEN slot[s] ELSE Fresh(floor)
Recovering == {s \in Present : Busy(s)}

Start ==
    /\ main.pc = "down" /\ ~Refused
    /\ size' = config
    /\ slot' = [s \in Slots |->
                  IF s \in Recovering THEN [Loaded(s) EXCEPT !.state = "draining"]
                  ELSE Loaded(s)]
    /\ main' = [pc |-> "recover", todo |-> {<<s, slot[s].gen>> : s \in Recovering}]
    /\ UNCHANGED <<config, floor, closed, call, worker, clients, sdk, files, unit,
                   tunnel, faults, ops, granted>>

Reap ==
    LET victims == {s \in Present : Busy(s) /\ Expired(s)} IN
    /\ main.pc = "serve" /\ victims # {}
    /\ fence(victims)
    /\ main' = [pc |-> "reap", todo |-> {<<s, slot[s].gen>> : s \in victims}]
    /\ UNCHANGED <<disk, closed, call, clients, sdk, files, unit, faults, ops, granted>>

ReapNext ==
    /\ \E v \in main.todo :
          LET s    == v[1]
              mine == slot[s].gen = v[2] /\ Busy(s) /\ worker[s].pc = "none"
          IN /\ \A w \in main.todo : s <= w[1]
             /\ main' = [main EXCEPT !.todo = @ \ {v}]
             /\ \/ ~mine /\ UNCHANGED <<slot, sdk, unit, faults>>
                \/ mine /\ (StopConfirmed(s) \/ StopUnconfirmed(s))
    /\ UNCHANGED <<disk, closed, call, worker, clients, files, tunnel, ops, granted>>

\* Runtime.recover: a unit that pool.json does not name stops the service.
\* It would also stop a unit of an available slot, but there is none.
Recorded == \A u \in unit : u.slot \in Present /\ u.gen = slot[u.slot].gen

Serve ==
    /\ main.pc \in {"recover", "reap"} /\ main.todo = {}
    /\ main.pc = "recover" => Recorded
    /\ main' = [main EXCEPT !.pc = "serve"]
    /\ UNCHANGED <<disk, slot, closed, call, worker, clients, sdk, files, unit, tunnel,
                   faults, ops, granted>>

Shutdown ==
    /\ main' = [main EXCEPT !.pc = "stop"]
    /\ closed' = TRUE
    /\ call' = [call EXCEPT !["main"] = [pc |-> "enter", op |-> "shutdown",
                                         slot |-> 1, gen |-> 0]]

Terminate ==
    /\ Operate
    /\ main.pc = "serve" /\ Shutdown
    /\ UNCHANGED <<disk, slot, worker, clients, sdk, files, unit, tunnel, faults,
                   granted>>

\* What the end of the process leaves: files and units.
ProcessEnds ==
    /\ main' = NoMain /\ closed' = FALSE
    /\ worker' = [s \in Slots |-> NoWorker]
    /\ call' = [c \in Callers |-> NoCall]
    /\ client' = [t \in Tokens |-> IF client[t] = "resolving" \/ t \in asked
                                   THEN "done" ELSE client[t]]
    /\ cancelled' = {} /\ sdk' = {} /\ tunnel' = {}
    /\ prepare' = [pc |-> "none", image |-> NoImage]
    /\ unit' = {[u EXCEPT !.outlived = TRUE] : u \in unit}
    /\ UNCHANGED <<disk, slot, asked, answered, maintenance, cached, ops, granted>>

Exit == main.pc = "stop" /\ call["main"].pc = "done" /\ ProcessEnds /\ UNCHANGED faults

Die == /\ main.pc # "down" /\ faults < MaxFaults /\ faults' = faults + 1
       /\ ProcessEnds

----------------------------------------------------------------------------
(* The image cache and the SDK. *)

Prepare ==
    /\ Operate
    /\ Up /\ main.pc # "stop" /\ ~closed
    /\ \A s \in Present : ~Busy(s)
    /\ sdk = {} /\ ~SdkExclusive
    /\ \E i \in Images : prepare' = [pc |-> "wait", image |-> i]
    /\ UNCHANGED <<disk, slot, threads, worker, clients, sdk, maintenance, cached, unit,
                   tunnel, faults, granted>>

PrepareImage ==
    /\ \/ /\ prepare.pc = "wait" /\ ~ImageBusy /\ prepare.image \notin cached
          /\ prepare' = [prepare EXCEPT !.pc = "download"]
          /\ UNCHANGED cached
       \/ /\ prepare.pc # "none"
          /\ prepare' = [pc |-> "none", image |-> NoImage]
          /\ \/ UNCHANGED cached
             \/ prepare.pc = "download" /\ cached' = cached \cup {prepare.image}
    /\ UNCHANGED <<disk, slot, threads, worker, clients, sdk, maintenance, unit, tunnel,
                   faults, ops, granted>>

Pinned == {slot[s].image : s \in Present} \ {NoImage}

Prune ==
    /\ Up /\ ~ImageBusy
    /\ cached' = cached \cap Pinned
    /\ UNCHANGED <<disk, slot, threads, worker, clients, sdk, maintenance, prepare, unit,
                   tunnel, faults, ops, granted>>

\* Setup takes the SDK lock; the size of a stopped pool is simply rewritten,
\* and an operator may always correct a size that the service refuses.
Maintain(n) ==
    /\ IF Refused THEN UNCHANGED ops ELSE Operate
    /\ sdk = {} /\ ~SdkExclusive
    /\ maintenance' = TRUE
    /\ config' = IF main.pc = "down" THEN n ELSE config
    /\ UNCHANGED <<size, floor, slot, threads, worker, clients, sdk, prepare, cached,
                   unit, tunnel, faults, granted>>

\* Setup goes on to replace a running service, only when every slot is available.
Replace(n) ==
    /\ maintenance /\ main.pc = "serve" /\ \A s \in Present : ~Busy(s)
    /\ config' = n
    /\ Shutdown
    /\ UNCHANGED <<size, floor, slot, worker, clients, sdk, files, unit, tunnel, faults,
                   ops, granted>>

MaintenanceEnds ==
    /\ maintenance /\ maintenance' = FALSE
    /\ UNCHANGED <<disk, slot, threads, worker, clients, sdk, prepare, cached, unit,
                   tunnel, faults, ops, granted>>

----------------------------------------------------------------------------
(* What happens to the service: time, and emulators that exit, on their    *)
(* own or because systemd stops what is bound to a service that has ended. *)

Tick(s) ==
    /\ slot[s].ttl > 0
    /\ slot' = [slot EXCEPT ![s].ttl = @ - 1]
    /\ UNCHANGED <<disk, threads, worker, clients, sdk, files, unit, tunnel, faults,
                   ops, granted>>

RuntimeExits ==
    /\ \E u \in unit :
          /\ unit' = unit \ {u}
          /\ IF u.outlived THEN UNCHANGED faults
             ELSE faults < MaxFaults /\ faults' = faults + 1
    /\ UNCHANGED <<disk, slot, threads, worker, clients, sdk, files, tunnel, ops,
                   granted>>

Next ==
    \/ \E t \in Tokens : \/ ReserveCheck(t) \/ Reserve(t) \/ ReserveRefused(t)
                         \/ Renew(t) \/ OpenTunnel(t) \/ Release(t)
    \/ \E s \in Slots : Worker(s) \/ Tick(s)
    \/ \E c \in Callers : StopEnter(c) \/ StopFinish(c) \/ JoinTimeout(c)
    \/ \E n \in Slots : Maintain(n) \/ Replace(n)
    \/ Revoke \/ Drain \/ CloseTunnel
    \/ Start \/ Reap \/ ReapNext \/ Serve \/ Terminate \/ Exit \/ Die
    \/ Prepare \/ PrepareImage \/ Prune \/ MaintenanceEnds \/ RuntimeExits

Spec == Init /\ [][Next]_vars

----------------------------------------------------------------------------
(* Properties. *)

\* A slot as the contract of DisposableLease sees it.  A runtime or a
\* connection of another lease than the current one is in no phase of it.
Phase(s) ==
    CASE \/ \E u \in unit : u.slot = s /\ (~Busy(s) \/ u.gen # slot[s].gen)
         \/ \E c \in tunnel : c[1] = s /\ (~Busy(s) \/ c[2] # slot[s].gen) -> "leaked"
      [] ~Busy(s)                         -> "free"
      [] slot[s].state = "provisioning"   -> "preparing"
      [] slot[s].state = "held"           -> "usable"
      [] OTHER                            -> "revoked"

Tenant(s) == IF Busy(s) THEN slot[s].gen ELSE 0

Lease(s) == INSTANCE DisposableLease WITH
               phase <- Phase(s), tenant <- Tenant(s), past <- granted[s]

\* Every slot keeps the contract of DisposableLease (its Safety) through
\* deaths of the service, unconfirmed stops, resizing and every order of the
\* threads: it serves one lease at a time, under a generation that it never
\* had before, never brings a revoked lease back, and is free again only when
\* its runtime and its connections are gone (provision, stop_slot, reap,
\* finish_stop and the start of the service).
PoolKeepsLeaseContract ==
    /\ \A s \in Slots : Lease(s)!Init
    /\ [][\A s \in Slots : UNCHANGED Lease(s)!vars \/ Lease(s)!Next]_vars

\* The worker of the slot, and nobody else, gives up in this step.
GivesUp(s) == worker[s].pc # "stop" /\ worker'[s].pc = "stop"
Stopping(s) == \E c \in {"admin", "main"} : call[c].pc = "enter" /\ call[c].slot = s

\* A lease ends because it expired, because its own client asked for it, by
\* an operator, by its own failed provisioning, or by an end of the service: a
\* release, a reaper or a stop that was delayed while the slot was given to
\* somebody else (the generation checks of stop_slot and reap) never ends the
\* lease of the successor.
EndsOnlyForCause ==
    [][\A s \in Slots :
          Live(s) /\ ~(Live(s))' =>
             \/ Expired(s) \/ slot[s].cred \in asked \/ Stopping(s)
             \/ slot[s].state = "provisioning" /\ GivesUp(s)
             \/ main.pc = "down"]_vars

\* Once release has answered, that credential has no lease and gets none,
\* although the release may have overtaken the reserve of the same client
\* (the tombstone that release leaves for an unknown token).
ReleasedTokenStaysOut ==
    \A t \in answered : \A s \in Present : slot[s].cred = t => ~Live(s)

\* Every runtime belongs to the generation that pool.json records for its
\* slot, wherever the service died and however it was resized: the recovery
\* at start finds and stops it, and never refuses an unrecorded one.
RuntimesAreRecorded == Recorded

\* What a runtime reads stays while it runs: pruning leaves its image alone,
\* and nobody changes the SDK under it, an unconfirmed stop included.  Only a
\* runtime that has outlived its service has lost its SDK lock.
RuntimeFilesAreStable ==
    \A u \in unit : u.image \in cached /\ (SdkExclusive => u.outlived)
=============================================================================
