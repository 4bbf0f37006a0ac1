# A formal model of Subyard's lease pools and release transition

Subyard runs development yards in Incus containers. Three parts of it carry most of what a test
hardly reaches, and this directory models them:

* the **test-VM broker** (`internal/adapters/testvmsruntime`), which lends disposable sets of
  virtual machines to agents: leases, provisioning, recovery, base images, capacity, events;
* the **release transition** (`internal/releasetransition`), which updates an installation by a
  journal of migrations, an exchange of links and a reconciliation;
* the **Android emulator pool** (`config/profiles/android`), a second lease service with threads,
  file locks and systemd units.

TLC checks the modules on small instances; TLAPS checks the proofs, which hold for every instance.
`PROJECT.json` lists components, runs, the source lines behind every definition, findings, hazards
and theorems.

## Inventory

| Part | State | Operations | Correct when |
| --- | --- | --- | --- |
| Lease store (`lease.go`) | one record per slot: state, generation, epoch, lease, deadline, recovery schedule; the admission fence | acquire, abort, mark held, renew, drain, quarantine, recover, inspect, fence, open; all under one file lock that expires stale leases first | a lease that lost its authority never regains it; an operator hits the inspected lease or nothing; a fence covers what was approved |
| Pool files (`lease.go`) | the pool file and the recovery journal beside it | load and merge, write, grow, two-phase shrink, retire, rebuild | a torn write is all or nothing; recovery state stays with its lease; no occupied slot is dropped; the pool stays readable |
| Lifecycle and recovery (`lifecycle.go`, `recovery.go`, `runtime.go`, `access.go`) | a lifecycle lock per slot; Incus instances, operations, access keys; incidents and attempts | provision, release, revoke, reap, drain, retire, quarantine, recover | an available slot is clean; cleanup only hits revoked leases; every broken slot is reclaimed in the end |
| Acquire sessions (`facade.go`, `acquire_session.go`) | three goroutines, two channels, a pipe, the owner recorded in the slot | provision, announce, acknowledge, hand off, close | a client uses only what was handed off; a lease nobody has is reclaimed |
| Base images (`images.go`, `refresh.go`) | the registry, a staging record, a build lock, pins | prepare, build, publish, commit, refresh, clean up, prune | no image in use is deleted; nothing is left in Incus without a record; evidence precedes deletion |
| Capacity (`capacity.go`, `allocation_usage.go`) | reservations on slots, samples of usage | reserve, admit a build | what was promised fits, in unsigned arithmetic and with samples taken one after another |
| Events (`events.go`, `host_sink.go`, `host_telemetry.go`) | a spool in the yard; events, incidents, evidence and a log on the host | record, save, export, ingest, rotate, measure, acknowledge | nothing is lost; open incidents stay; first evidence stays; the spool drains |
| Release transition (`transition_v2.go`, `store_posix.go`, `links_posix.go`, `persistent_cas_linux.go`) | journal, recovery and evidence records, links, ledger, settings, pending files, update lock | inspect, confirm, converge, resume, roll back, replace by a newer release | journal, links, ledger and evidence agree after every crash; only what was confirmed is rewritten; an unfinished update can be ended |
| Android pool (`pool.py`, `client.py`, `provision.sh`, `pool-install.sh`) | slots in `pool.json`; workers, cancellations, tombstones and SDK locks in the process; units, images and SDK on the host | reserve, provision, renew, tunnel, release, revoke, drain, reap, prepare, prune, resize, restart, recover, maintain | the same contract as the broker; no runtime without a record; no file changes under a runtime |

Interactions. Facade processes, a minute timer (the reaper) and operators call the store and the
lifecycle; the store is shared through a file and its lock, the lifecycle through a lock file per
slot. Images and capacity are called while the slot's lock is held, and take the image lock and the
store lock. Events are recorded by all of them and fetched by host processes. A service hook fences
admission and drains the pool before the yard stops. The release transition runs in the command line
of the owner and shares nothing with the pools. The Android pool is a process of its own; setup
scripts meet it at the SDK lock and at `pool.json`.

The rest of Subyard (installation state, configuration sync, owner inventory, services, RPC, networks,
credentials, the runtimes that drive Incus, uninstall, the command line, the desktop client) is
listed in `PROJECT.json` with the reason why it is not modelled, and below.

## Modules

| Module | Models |
| --- | --- |
| `LeaseSlot` | the slot record and what each operation writes to it (operators shared by the next three) |
| `LeaseStore` | the operations of `LeaseStore` as atomic actions, with clients and operators as general as possible |
| `LeasePool` | the two files under the store: torn writes, merge on load, resize, retirement, rebuild |
| `LeaseBroker` | extends `LeaseStore` with processes, lifecycle locks, machines, Incus operations and access |
| `AcquireSession` | one acquire session: its goroutines, its frames and its client |
| `BaseImages` | registry, builder, publication, cleanup and pruning, with pins and machines of leases |
| `Capacity` | admission of environments and builders by sampled memory and storage |
| `EventSpool` | the way of an event from the recorder to the log of the host |
| `ReleaseTransition` | update, rollback, resume and replacement of a release |
| `AndroidPool` | the Android emulator pool with its threads and its setup scripts |
| `DisposableLease` | what a lease adapter promises of one slot: implemented by `LeaseBroker` and by `AndroidPool` |
| `LeaseBrokerProofs`, `LeasePoolProofs`, `AcquireSessionProofs`, `BaseImagesProofs`, `CapacityProofs`, `EventSpoolProofs`, `ReleaseTransitionProofs`, `AndroidPoolProofs` | theorems and proofs; the first has those of `LeaseStore` too |
| `MC...` | instances for TLC |

**LeaseSlot and LeaseStore.** `slots[s]` is the persisted record. Absolute times become ticks that
are left (`expires`, `nextRec`; `NoTime` is Go's zero time, 0 is "now or earlier"), and `Tick` lets
them count down. `attempt` saturates at the end of the delay table, where the code's delay no
longer changes. Capability, lease id and client are one number, `lease`; `grants` keeps every grant
ever issued, so that a client may come back with an old one at any time. `Current` is the pool after
`expireStale`, which every operation of the code runs first and whose result it writes. `gone` is
what `AcquireOwner.alive` finds out. `plan` is what an operator last inspected, and is used any
number of steps later. A call that returns an error writes nothing, and so has no action.

**LeaseBroker.** The store's actions are reused unchanged. `job[s]` is the holder of the lifecycle
lock of `s`, with the identity it read on entry and a program counter; `session[t]` is the process
that acquires lease `t`; `waiting` are releases and revocations that published their drain and wait
for the lock. `vms`, `ops` and `access` are Incus instances, operations in flight and the key that
the bastion forwards. `SessionDies` and `JobDies` kill a process between any two steps;
`OperationEnds` lets Incus finish, or fail, at any time.

**LeasePool.** `file` and `journal` are what is on disk. `writePool` replaces the journal and keeps
the lock (`writing`), `PoolReplaced` replaces the pool, and `Crash` may come between. `Loaded` is
the merge that the next load would see.

**AcquireSession.** `main`, `control` and `reader` are the three goroutines; the channels `ready` and
`ack`, the context and the pipe are what they share. The client may acknowledge, fall silent, send
garbage or die, the lease may expire or be revoked, and the worker may die, at any step. Where a
`select` finds several cases ready, either is taken.

**BaseImages.** `holder` is the process that has the build lock, with the copy of the registry that it
read; it writes the copy back after each step, as `imageRegistry` does. A step of `Failing` may
report an error, a process may die between any two steps, and `IncusFinishes` ends a creation or a
publication after its client has gone. Leases pin, run on, drain and lose images meanwhile.

**Capacity.** `adm` is an admission in progress, with the samples it has taken so far; storage is read,
then one slot after another, then storage again. Guests grow, write and discard between two samples,
and guests that are being deleted give back. `Minus` wraps modulo `Wrap`. `slack` is what the code
does not see: the smaller of what guests took and what they gave back while the last granted
admission measured, and the `Overdraft` of an image that was published since (observation 7).

**EventSpool.** A record takes a stamp, a number and a file in separate steps. `sink[k]` is one run
of `HostSink.Sync`: fetch, ingest under the lock of the sink, evidence, acknowledge. A text is the
number of bytes of ASCII, the width of the character after them, and whether that character begins
like U+FFFD, which is all that the cut and the two validations (in memory by `Record`, after JSON by
`Export`) depend on.

**ReleaseTransition.** `journal` is the current journal with its steps, `records` the recovery and
evidence files, `staged` and `stagedLink` the pending files. Every durable write is an action of the
caller `p` that has the lock. Inspection and confirmation run without it, so a plan may be stale
when it is applied. `Edit` and `Restore` are the operator's, take no lock and come at any step, also
between the last comparison of a settings file (`CompareSettings`) and its replacement
(`RenameSettings`). `unseen` records which files were edited since they were last compared; no action
reads it. `Drift` is a part that changes by itself. `acceptsLedger` is the compatibility that a
rollback needs: `Epoch[r]` is what release `r` migrates to, and `Compatible` are the older releases
that every migration declares it works with.

**AndroidPool.** Each section under the pool's lock is one action. `worker[s]` is the provisioning
thread of a slot, `call[c]` a caller in `stop_slot` (a client's release, an operator's revoke or
drain, the shutdown of the main thread), `main` the main loop with the victims that the reaper has
left, `sdk` the slots whose shared lock on the SDK is open. `unit` are the emulators on the host,
which outlive the process. `Die` ends the process at any step.

Operators named `Fault...` are deliberately wrong variants of the definition that follows each
(a dropped check, a missing reset). No specification uses them; `PROJECT.json` says which property
each of them breaks when it takes the place of the right one.

### Abstractions

* Incus projects, networks, profiles, keys and disks are left out: what is kept of an allocation is
  its instances with their markers, its running operations and its access.
* Stopping all machines, and deleting all, is one step when it succeeds. When it fails any subset
  may have been done (`CleanupFails`).
* The reaper's test that a slot is due, and its entry into the lock, are one step; the code tests
  again inside the lock. Releases and revocations do wait between the two.
* `Capacity` charges the quota as the `dir` driver does. `btrfs` and `zfs` charge the whole pool, which
  only asks for more. All slots ask for the same memory and disks. Memory of a
  guest grows until it is ready and stands still then: for a ready guest the code reserves nothing
  and takes what it has from `MemAvailable` (`capacity.go:277`), so `MemoryPromisesFit` says nothing
  of ready guests that go on growing.
* In `LeaseBroker` the image lock is left out and `PinBase` is one step (`BaseImages` has the lock).
* The host does not reboot. A reboot kills every process (modelled) and every machine (not).
* `BaseImages` has one environment and one architecture; what a recipe does in the builder is one
  step with three outcomes. A failure of the last registry write of a cleanup is left out of the run
  (observation 4).
* `ReleaseTransition`: one kind of migration, a settings file followed by the ledger. Native, owner and
  ingress work, checkpoint compaction, the life cycle of recovery receipts, replacement of the owner
  and cleanup after completion are left out. Writes under the update lock cannot lose their
  compare-and-swap to another caller; an edit by the operator can make them. An edited file never
  goes back to an old form by itself. A forward update to an older release (`--version`), failing
  reconcilers, changes of the observation scope and edits that make a file invalid are left out. A
  death may leave any pending settings file torn, one that a later call only reused included, which
  is more than the code does.
* `AndroidPool`: failures to save `pool.json` and systemd requests that outlive the service are left
  out. The tombstone of a cancelled credential never expires in the model. In the code it lasts 1200 s,
  and the reservation that it stops resolves its image meanwhile; each socket operation of that has
  a limit of 30 s, the wait for the metadata lock before it has none.

## Runs

| Run | Instance | Properties |
| --- | --- | --- |
| `store` | 2 slots, 2 leases, symmetric | `ExpectedHitsPlannedLease`, `FenceCoversLiveLeases`, `IdentityNamesOneLease`, `NoRevival`, `StaleLeaseOnlyDrains`, `HandsOverThroughAvailable` |
| `broker` | 1 slot, 1 machine, 2 leases, 1 waiting request | `AvailableIsClean`, `MachinesBelongToLease`, `CleansOnlyRevoked` |
| `broker_contract` | 1 slot, 2 machines, 1 lease, fair | `ImplementsDisposableLease`, liveness included |
| `pool` | up to 2 slots, 2 leases | `TornWriteIsAtomic`, `RecoveryNotForgotten`, `ShrinkDropsNoLease` |
| `session` | 1 session, 2 frames in the pipe, fair | `UsedLeaseIsHandedOff`, `NoAbandonedLease`, `HandedOverOrReclaimed`, `SessionEnds` |
| `images` | 1 slot, 2 builds, 2 leases, 2 faults, fair | `InUseImageKept`, `StagingAccounted`, `CleanedMeansGone`, `EvidenceBeforeDeletion`, `CurrentBaseKept`, `StagingReclaimed` |
| `capacity` | 2 slots, a builder no larger than an environment, 4 movements per admission | `MemoryPromisesFit`, `DiskGrowthReserved` |
| `spool` | 1 slot; texts cut between and inside characters; one sink and a failure, or two sinks; fair | `NothingLost`, `OpenIncidentsKept`, `FirstEvidenceKept`, `SpoolDrains` |
| `transition` | 2 callers, 3 releases (the first or the last active at first), 1 migration, 2 transactions, a death, an edit, a drift, fair | `LinksMatchJournal`, `ActiveIsMigrated`, `EvidenceSupportsJournal`, `ConsentCoversEffects`, `ReplacedJournalKept`, `SettlesUnlessBlocked` |
| `android` | 2 slots, 2 credentials, 1 image, 1 fault, 1 operation, symmetric | `ReleasedTokenStaysOut`, `RuntimesAreRecorded`, `RuntimeFilesAreStable`, `EndsOnlyForCause`, `PoolKeepsLeaseContract` |
| `pool_shrink` | as `pool`, no faults | finding 1 |
| `transition_pending` | 1 caller, a death, fair | finding 2 |

What the passing runs show, part by part:

* **Store and broker.** A stale plan of an operator reaches the lease that it inspected or nothing.
  No late heartbeat, `MarkHeld` or acknowledgement revives a lease. A release that waited for the lock
  while the slot changed hands stops nothing (`CleansOnlyRevoked`), and an Incus operation that
  outlives its client never puts a machine into an available slot (`AvailableIsClean`). The broker
  implements `DisposableLease`: a slot that is available but not clean, or held but not usable, maps to
  no phase, so the refinement would fail.
* **Pool files.** A crash between the two writes gives the state before or after, and a rewrite by the
  previous release loses no recovery state.
* **Session.** In every order of acknowledgement, deadline, expiry and death a session ends, in a
  hand-over or in a reclaimed lease, never in both or in neither.
* **Images.** Pruning deletes nothing that a lease pins or a machine runs on, not even when the lease
  record is lost to a rebuild of the pool. A builder always has a staging record, a record that was
  cleared left nothing behind, and staging is reclaimed in the end.
* **Capacity.** Memory that was promised fits. Storage fits but for `slack`: blocks that one guest gave
  back and another took while the admission measured may be credited twice, and a new image may take
  room that was reserved for the disks of the lease that waits for it.
* **Events.** Nothing leaves the spool before it is on the host, with lost acknowledgements and two
  sinks; an unresolved incident is never rotated away.
* **Transition.** Wherever a call dies, the links are among those that the checkpoint allows, the
  evidence behind each step is on disk, no release is active on data short of its migrations or,
  unless it declares that it is compatible, beyond them, and a file is rewritten only in a form that
  the operator saw, or that it got after the last comparison (observation 8).
* **Android.** A waiter or a reaper never ends the lease of a successor, held or still being
  provisioned; a release that overtakes its
  own reservation leaves nothing behind; every unit has a record after any death and resize; image
  and SDK stay under a runtime even when its stop is unconfirmed.

Bounds. Two leases per slot give a lease and the one that replaces it, which is what every race here
is about. Slots interact only through the admission fence, `BeginDrainAll`, a resize, capacity and
the image and SDK locks; where they do there are two of them. `MaxWaiting` of one lets a late
request enter after the reaper has cleaned up. With two machines a cleanup can fail half-way
(`broker_contract`). Deadlines of one tick separate in time from expired. `FaultSets` gives a
behaviour of `pool` crashes or rewrites by the previous release: both together can lose the attempt
count, and nothing in the code promises otherwise. In `images` two builds and two faults let a
second build find what the first left. In `capacity` the budgets are such that one more environment
fits or not depending on what moves, and image and disks together exceed what a build is admitted
with, so that the overdraft happens. `Horizons` in `spool` are one sink that may fail through a
whole recovery, or two that run at once. In `transition` release 3 is newer than the pinned target
2, one death or edit can hit any step, and an installation may begin with release 3, which makes 2 a
rollback. In `android` every slot was used once before, so that a
generation that is forgotten shows; one operation covers each of revoke, drain, stop, preparation
and maintenance (with the replacement of the service that belongs to it) by itself, against
everything that clients and the reaper do. `broker`, `spool`, `transition` and `android` take two to
three minutes each, the others less.

Deadlock is not checked where a bounded instance really stops: all leases, builds, sessions, records
or transactions used up.

### Fairness

* `FairBrokerSpec`: a process that holds a lifecycle lock goes on, since every external call has a
  deadline; Incus ends its operations; time passes; the reaper runs again and again because a systemd
  timer starts it every minute. Process deaths and failing cleanups are assumed to stop at some time.
  Clients and operators are not assumed to do anything.
* `AcquireSession`: the goroutines run, the heartbeat timer fires, a lease that nobody renews expires,
  and the reaper misses a dead owner and cleans up.
* `BaseImages`: the holder of the lock goes on, Incus ends its operations, and the reaper gets the lock
  again and again (strong fairness, since others may have it in between).
* `EventSpool`: each sink process runs again and again (a timer); failures are bounded.
* `ReleaseTransition`: a caller under the lock goes on, the operator inspects again while an update is
  unfinished, as the documentation asks, and puts back a file whose edit stops the update. The lock
  need not be fair.

## Findings

1. **A shrink can make the pool unreadable** (`pool_shrink`, `lease.go:1096`). A recovered slot keeps
   its attempt count. `PrepareResize` fences such a slot as draining, `writePool` copies it to the
   journal, and `mergeRecoveryJournal` refuses a draining entry. From then on every operation fails
   with corrupt lease state, the rest of the resize included. The retirement of a quarantined legacy
   slot (`lifecycle.go:905-907`) has the same effect for the same reason.
2. **A pending file blocks every later update** (`transition_pending`, `persistent_cas_linux.go:332`).
   A call that dies after creating the pending settings file and before writing it completely leaves a
   file that no later call completes or removes. A pending link of another target
   (`links_posix.go:223-232`) has the same effect. `SettlesUnlessBlocked` shows that nothing else in
   the model stops an update for ever; what the model leaves out is listed under Abstractions.

### Observations

What was met while modelling and is not the subject of a run:

1. **An error text that is cut inside a character is refused or stops the export** (`events.go:560-566`).
   `redactBrokerText` cuts at a byte; `redactBrokerLogTail` (577-579) does move to a rune start. Most
   such texts are refused by `Record` itself (`events.go:144`): redacting again puts U+FFFD in the place
   of the stray bytes, and the text is not what it was. The event is lost, and a quarantine fails until
   its error text changes (`recovery.go:112`). Where the character begins with the bytes of U+FFFD, as
   U+FFFD itself does, which `sanitizeBrokerText` inserts for invalid bytes, the text passes; JSON
   stores each stray byte as three, the record is too long when `Export` validates it
   (`events.go:391`), and every later export fails although `docs/test-vms.md:1679-1681` promises delay
   only. With `<<3, 3, TRUE>>` in `Texts` TLC finds `SpoolDrains` violated.
2. **Shrinking and growing reuses lease identities** (`lease.go:1143`, 1056). A slot that is dropped and
   added again starts its counters again, against the comment at `lease.go:163-165`. Without resizing
   the identities are unique, which is proved. The Android pool keeps a generation floor for this.
3. **A crash during the rebuild of a corrupt pool opens admission** (`lease.go:1025`). Between the rename
   of the old pool and the write of the new one there is no pool file, and load takes that for a new
   installation with available slots (`docs/reference/resource-leases.md:39-40`).
4. **A refresh can orphan a published image** (`images.go:803`). If the last registry write of
   `cleanupImageBuild` fails after the commit, `RefreshBase` writes back the bases it had read before,
   and the published image has no record.
5. **After a restart a quarantined Android slot holds no SDK lock**, so setup may change the SDK under a
   runtime whose stop was never confirmed (`provision.sh:139`; `docs/android.md:276-278`). That is
   `outlived` in `RuntimeFilesAreStable`.
6. Further facts about the Android pool: the end of `drain` reopens admission even during a shutdown;
   a revoke is not bound to a generation and takes whatever lease the slot has when it gets the lock;
   a quarantined slot is tried again only after its `expires_at`; a pool whose size was lowered with
   occupied slots while the service was down refuses to start until the size is corrected.
7. **A build for a lease with large disks overdraws the reserve** (`images.go:613-621`). `buildBase`
   reserves three times the default disk (`images.go:396-398`), 60 GiB at the default of 20 GiB, while a
   pair may ask for 2 x 50 GiB (`facade.go:185-191`, `docs/test-vms.md:233-235`). `admitBuild` takes the
   larger of the two, since the builder goes before the machines come; but the published image stays
   beside them. What is promised then exceeds reserve and quota by up to the image plus the disks
   less the larger of the two (`Overdraft`), until the next admission, which does see the image.
8. **An edit between the last comparison and the rename is lost** (`persistent_cas_linux.go:219-232`).
   The update compares the settings file with what was confirmed, prepares, and renames its own file
   over it; an editor takes no lock, and what it saves in that window is overwritten unseen.
   `ConsentCoversEffects` excepts just these files (`unseen`).

## Proofs

The theorems hold for every value of the constants that meets the assumptions named `...Assumption`
in the modules. An invariant that is to be proved is seldom inductive; each proof module says what
has to be added.

**LeaseBrokerProofs, the store.** Apart from an acquisition, whatever an operation does to a slot is
one of two things (`Keeps`): it leaves the lease and its counters and gives it no new authority, or
it takes the lease off and makes the slot available. `IInv` adds that a slot has a lease exactly while
it is not available, that leases are numbered and no grant is ahead of the counters of its slot, that
the lease on a slot was granted with its epoch, and that an inspected epoch is never ahead. From it
follow `StoreTypeCorrect`, `IdentitiesAreUnique`, `ExpectedTargetsArePlanned`, `FenceIsTight`,
`LeasesAreNeverRevived`, `StaleLeasesDrain` and `SlotsChangeHandsSafely`.

**LeaseBrokerProofs, the broker.** Every step of the broker is a step of the store or leaves the store
alone (`BrokerImplementsStore`), so the store's theorems hold of the broker; `BrokerNeverRevives` is
one. What is said of machines needs `BrokerInv`. That a slot is clean when it becomes available is
the outcome of a cleanup that another process may have begun, so the invariant says what the holder
of the lifecycle lock knows at each of its steps: an acquire job works on the lease that the slot has
or on one that is over, any other job on a lease without authority (`RevokedJobOK`), what a cleanup
has achieved stays so while it holds the lock (`CleaningProgress`), and the slot of a lease whose
process has not begun is still as clean as it was lent (`UntouchedIsClean`). `AvailableSlotsAreClean`,
`MachinesAreTheLeases` and `CleanupsAreOfRevokedLeases` follow, and with the counters of the store the
refinement `BrokerImplementsLease`: each slot implements the safety part of `DisposableLease`.

**LeasePoolProofs.** `PoolInv` says that a writer is one operation beyond what it loaded, and what
the journal says of the file. No operation changes the attempts of a slot without changing its state
or its identity (`Steps`), so the journal of a torn write says nothing new about a slot of the old
file (`JournalAgrees`); and without crashes every slot with attempts has an entry, so a rewrite by
the previous release loses nothing (`JournalComplete`). `TornWritesAreAtomic` and
`AttemptsAreNotForgotten` have the hypothesis `OneFaultAtATime`, a behaviour has crashes or rewrites:
with both the attempt count can be lost (see Bounds). `ShrinkingDropsNoLease` holds with any faults.

**AcquireSessionProofs.** `SessionInv` says what each side may conclude: an acknowledgement was taken
only when the session was ready, the grant was announced after `MarkHeld`, a client that believes it
has the lease was handed it, and an owner leaves the record only by a hand-over or with the lease
ended. `UsedLeasesAreHandedOff` and `LeasesAreNotAbandoned` follow.

**BaseImagesProofs.** `ImagesInv` relates the registry on disk to the copy of the process that has the
build lock, step by step of its program: which of the two is ahead, what Incus may still create after
its client died, which staging record accounts for it, and that whatever is being deleted is in no
use. `InUseImagesAreKept`, `CleanedBuildersAreGone`, `EvidenceComesFirst` and `CurrentBaseIsKept` hold
for any set of failing steps. `EverythingIsAccounted` has the hypothesis that the last registry write
of a cleanup does not fail, `"clear" \notin Failing`: otherwise it is false (observation 4).

**CapacityProofs.** `RamNeed` and `DiskNeed` are what a slot has together with what it may still take.
Guests leave them alone or lower them, so a promise can break only where something is admitted. There
`Covers` is used, the invariant of a measurement under way: what has been added up covers what the
measured slots may take now, by the first reading of storage but for what guests took since, and by
the second but for what they gave back; so the smaller of the two is the error, with which `slack`
begins. The publication of an image adds its `Overdraft`; nothing is assumed of the size of a build
but that an image is no larger than the disk it was built on.
`MemoryIsNotOverpromised` and `StorageIsNotOverpromised` have the hypothesis `HostSuffices`: the host
has its reserves while nothing is admitted, without which they are false from the start. They hold
for any word width. `Total` is a recursive function; the lemmas about it use that every set of
numbers has a least element, for sets in place of predicates (`UpToN`).

**EventSpoolProofs.** A sink acknowledges nothing that was not imported, which is all that
`NoRecordIsLost` needs. `OpenIncidentsStay` needs more: a record is named by its time alone, so
`SpoolInv` says that no two records, written or still in the hands of a handler, carry the same
time, and that all that is in the spool, in a batch or on the host was recorded. `EvidenceIsTakenOnce`
says that evidence on the host is not taken again.

**ReleaseTransitionProofs.** `TransitionInv` has two halves: what the caller that has the lock has just
seen stays true until it writes (`Facts`), and every durable write leaves a state from which the next
caller can go on, whether the writer lives or dies (`Global`). Of a settings file nothing stays true,
since editors take no lock: what the caller has is that the file was as confirmed when it was last
compared and is so unless it is `unseen` (`Compared`). `LinksAlwaysMatch`, `JournalIsSupported`,
`TakeoverKeepsJournal` and `EffectsAreConsented` follow. `ActiveAlwaysMigrated` needs a second
invariant, `MigratedInv`, which ties the ledger and the files to the steps of the journal, and the
target of every plan and journal to a ledger that it accepts (`acceptsLedger`).

**AndroidPoolProofs.** `PoolInv` says who may touch a slot: a worker that has not ended owns an occupied
slot with its SDK lock; a unit belongs to the generation and the image that its slot records; a
waiter or a victim of the reaper names a generation that is over or fenced; a credential is in at
most one slot, and in none once its release is answered. Three kinds of steps (`Quiet`, `Frees` and
the rest) keep the number of cases small. `RuntimesRecorded`, `ReleasedTokensStayOut` and
`RuntimeFilesStable` follow. `NextShape` then lists what a step may do to one slot; with it, `TunnelInv`
(tunnels only into held slots) and `GrantInv` (no generation is used twice, across shrinking and
growing) give `LeasesEndForCause` and the refinement `PoolImplementsLease`: each slot implements the
safety part of `DisposableLease`.

Every safety property that a passing run checks is stated by a theorem. Only model-checked is
liveness, which is out of the prover's reach: `HandedOverOrReclaimed`, `SessionEnds`,
`StagingReclaimed`, `SpoolDrains`, `SettlesUnlessBlocked`, and the liveness of `DisposableLease` in
`ImplementsDisposableLease`, whose safety is `BrokerImplementsLease`. Liveness of the Android pool is
neither checked nor proved: a slot whose stop is never confirmed stays quarantined.

## Not modelled

* Pure functions over text or trees: configuration parsing and editing, profiles, network planning,
  credential policy, recipes. They have tests, and no interleaving.
* I/O with one outcome: guest readiness, telemetry readers, archives of agent logs, SSH relays, the
  Incus client, release downloads. Where a modelled part waits for one of them its outcome is
  nondeterministic there.
* Sequences of idempotent commands that converge an Incus project: the reconcile, release and
  credential runtimes, migrations. Their state is that of the host, and each starts again from what it
  finds.
* Owner inventory and publication: every command that changes them holds the exclusive owner lock
  (`cli/prepared_command.go:251`), so that nothing interleaves.
* In the Android pool: the observation journal, status and catalogue, memory admission, network
  namespaces, attached viewers and the client's relay.

## Plan

In this order:

1. `ConfigSync`: the transaction that applies a plan of configuration sources, with crashes between its
   renames and edits under it, in the way of `ReleaseTransition`.
2. The parts of the release transition that are left out: native and owner steps, receipts, cleanup.
3. Installation state and its admission lock, uninstall with its recovery record, resource endpoints.
4. Proofs: an abstract specification of admission that `Capacity` implements, and of the way of an
   event that `EventSpool` implements; the store's theorems for `LeasePool` by a refinement of
   `LeaseStore` without resizing.

## How to run

    tlc -workers 2 -config MCLeaseStore.cfg MCLeaseStore
    tlapm AndroidPoolProofs.tla

Each entry of `runs` in `PROJECT.json` names its module and configuration.
