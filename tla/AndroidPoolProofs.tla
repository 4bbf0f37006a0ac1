------------------------- MODULE AndroidPoolProofs -------------------------
(***************************************************************************)
(* The safety properties of the Android pool, for any number of slots,     *)
(* tokens and images and any bounds on faults and operations.              *)
(*                                                                         *)
(* PoolInv says who may touch a slot.  A worker that has not ended owns an *)
(* occupied slot with its SDK lock; a runtime belongs to the generation    *)
(* and the image that its slot records; a thread that waits in stop_slot   *)
(* or in the reaper's list names a generation that is over, or fenced; and *)
(* a token is in at most one slot, and in none once its release is         *)
(* answered.                                                               *)
(***************************************************************************)
EXTENDS AndroidPool, TLAPS

States    == {"available", "provisioning", "held", "draining", "quarantined"}
Launching == {"ensure", "download", "check", "start", "boot"}
Ending    == {"stop", "stopped", "unconfirmed"}
WorkerPcs == Launching \cup Ending \cup {"ended", "none"}

SlotType   == slot \in [Slots -> [state : States, gen : Nat, cred : Tokens \cup {NoToken},
                                  image : Images \cup {NoImage}, ttl : Nat]]
MainType   == main \in [pc : {"down", "recover", "serve", "reap", "stop"},
                        todo : SUBSET (Slots \X Nat)]
WorkerType == worker \in [Slots -> [pc : WorkerPcs, cancel : BOOLEAN]]
CallType   == call \in [Callers ->
                 [pc : {"idle", "enter", "wait", "done"},
                  op : {"none", "release", "revoke", "drain", "shutdown"},
                  slot : Slots, gen : Nat]]
ClientType == /\ client \in [Tokens -> {"sent", "resolving", "done"}]
              /\ asked \subseteq Tokens /\ answered \subseteq asked
UnitType   == unit \subseteq [slot : Slots, gen : Nat, image : Images, outlived : BOOLEAN]
DiskType   == config \in Slots /\ size \in Slots /\ floor \in Nat

PoolTypes == /\ DiskType /\ SlotType /\ MainType /\ WorkerType /\ CallType
             /\ ClientType /\ UnitType

\* What an occupied slot records.
SlotInv ==
    \A s \in Slots :
       /\ Busy(s) => s \in Present /\ slot[s].image \in Images /\ slot[s].gen > 0
       /\ slot[s].cred # NoToken => slot[s].gen > 0

\* A worker owns its slot until it has ended.
WorkerInv ==
    \A s \in Slots :
       /\ worker[s].pc # "none" => Up
       /\ worker[s].pc \in Launching \cup Ending => Busy(s) /\ s \in sdk
       /\ worker[s].pc \in Launching => slot[s].state # "held"
       /\ worker[s].pc \in Ending => ~Live(s)
       /\ worker[s].pc \in {"check", "start", "boot"} => slot[s].image \in cached
       /\ worker[s].pc = "stopped" => \A u \in unit : u.slot # s

\* A runtime is the one that its slot records.
UnitInv ==
    \A u \in unit :
       /\ Busy(u.slot) /\ u.gen = slot[u.slot].gen
       /\ u.image = slot[u.slot].image /\ u.image \in cached
       /\ u.outlived \/ u.slot \in sdk

SdkInv == /\ SdkExclusive => sdk = {}
          /\ ~Up => sdk = {} /\ prepare.pc = "none"

\* Whoever waits to stop a slot waits for a generation that was fenced.
CallInv ==
    \A c \in Callers :
       /\ ~Up => call[c].pc = "idle"
       /\ call[c].pc # "idle" => call[c].gen <= slot[call[c].slot].gen
       /\ call[c].pc = "wait" =>
             /\ call[c].gen > 0
             /\ call[c].gen = slot[call[c].slot].gen => ~Live(call[c].slot)

TodoInv ==
    /\ main.pc = "down" => main.todo = {}
    /\ \A v \in main.todo :
          v[2] <= slot[v[1]].gen /\ (v[2] = slot[v[1]].gen => ~Live(v[1]))

\* A token is reserved once.
TokenInv ==
    /\ \A s \in Slots : slot[s].cred # NoToken => client[slot[s].cred] = "done"
    /\ \A r, s \in Slots : slot[r].cred = slot[s].cred /\ r # s => slot[s].cred = NoToken
    /\ \A t \in Tokens : call[t].pc # "idle" =>
          /\ client[t] = "done" /\ t \in asked
          /\ call[t].op = "release" /\ call[t].gen > 0
          /\ \A s \in Slots :
                slot[s].cred = t <=> s = call[t].slot /\ slot[s].gen = call[t].gen

AnswerInv ==
    \A t \in answered :
       /\ client[t] = "done" \/ t \in cancelled
       /\ \A s \in Slots : slot[s].cred = t => ~Live(s)

PoolInv == /\ PoolTypes /\ SlotInv /\ WorkerInv /\ UnitInv /\ SdkInv
           /\ CallInv /\ TodoInv /\ TokenInv /\ AnswerInv

-----------------------------------------------------------------------------
(* What the primed slots and workers are, field by field.                  *)

\* Only the worker of s moves.
Moves(s, p) ==
    /\ WorkerType' /\ worker'[s].pc = p /\ worker'[s].cancel = worker[s].cancel
    /\ \A r \in Slots : r # s => worker'[r] = worker[r]

\* Nothing is leased and nothing is freed; a lease may end.
Quiet ==
    /\ SlotType' /\ size' = size
    /\ \A r \in Slots :
          /\ slot'[r].gen = slot[r].gen /\ slot'[r].cred = slot[r].cred
          /\ slot'[r].image = slot[r].image
          /\ slot'[r].state = "available" <=> slot[r].state = "available"
          /\ slot'[r].state \in {"provisioning", "held"} =>
                slot[r].state \in {"provisioning", "held"}

\* Slot s is freed.
Frees(s) ==
    /\ SlotType' /\ size' = size
    /\ \A r \in Slots : r # s => slot'[r] = slot[r]
    /\ slot'[s].state = "available"
    /\ slot'[s].gen = slot[s].gen /\ slot'[s].cred = slot[s].cred

LEMMA PresentIsSlots == ASSUME DiskType PROVE Present \subseteq Slots
BY AndroidAssumption DEF DiskType, Present, Slots

LEMMA GotoMoves ==
    ASSUME WorkerType, NEW s \in Slots, NEW p \in WorkerPcs, Goto(s, p)
    PROVE  Moves(s, p)
BY DEF WorkerType, Goto, Moves

LEMMA SameIsQuiet ==
    ASSUME SlotType, UNCHANGED <<slot, size>> PROVE Quiet
BY DEF SlotType, Quiet

LEMMA StateIsQuiet ==
    ASSUME SlotType, NEW s \in Slots, NEW st \in States, UNCHANGED size,
           slot' = [slot EXCEPT ![s].state = st],
           slot[s].state # "available", st # "available",
           st = "held" => slot[s].state = "provisioning", st # "provisioning"
    PROVE  Quiet /\ slot'[s].state = st /\ \A r \in Slots : r # s => slot'[r] = slot[r]
<1>1. SlotType' BY DEF SlotType, States
<1> QED BY <1>1 DEF SlotType, Quiet

LEMMA TtlIsQuiet ==
    ASSUME SlotType, NEW s \in Slots, NEW n \in Nat, UNCHANGED size,
           slot' = [slot EXCEPT ![s].ttl = n]
    PROVE  Quiet /\ \A r \in Slots : slot'[r].state = slot[r].state
<1>1. SlotType' BY DEF SlotType
<1> QED BY <1>1 DEF SlotType, Quiet

LEMMA EmptiedFrees ==
    ASSUME SlotType, NEW s \in Slots, UNCHANGED size,
           slot' = [slot EXCEPT ![s] = Emptied(s)]
    PROVE  Frees(s)
<1>1. SlotType' BY DEF SlotType, Emptied, States
<1> QED BY <1>1 DEF SlotType, Frees, Emptied

LEMMA FenceIsQuiet ==
    ASSUME SlotType, WorkerType, NEW S \in SUBSET Slots, \A s \in S : Busy(s),
           UNCHANGED size, fence(S)
    PROVE  /\ Quiet
           /\ \A r \in Slots : slot'[r].state \in {slot[r].state, "draining"}
           /\ \A r \in S : slot'[r].state = "draining"
           /\ \A r \in Slots : r \notin S => slot'[r] = slot[r]
           /\ WorkerType' /\ \A r \in Slots : worker'[r].pc = worker[r].pc
<1>1. SlotType' BY DEF SlotType, States, fence, Fenced
<1>2. WorkerType' BY DEF WorkerType, WorkerPcs, fence, Cancelled
<1>3. \A r \in Slots : worker'[r].pc = worker[r].pc
  BY DEF WorkerType, fence, Cancelled
<1>4. \A r \in Slots : slot'[r] = IF r \in S THEN [slot[r] EXCEPT !.state = "draining"] ELSE slot[r]
  BY DEF fence, Fenced
<1> QED BY <1>1, <1>2, <1>3, <1>4 DEF SlotType, Quiet, Busy

\* What a quiet step leaves intact.
LEMMA QuietKeeps ==
    ASSUME PoolInv, Quiet
    PROVE  /\ SlotInv'
           /\ UNCHANGED <<unit, cached, sdk>> => UnitInv'
           /\ UNCHANGED <<call, main>> => CallInv' /\ TodoInv'
           /\ UNCHANGED <<call, client, asked>> => TokenInv'
           /\ UNCHANGED <<answered, client, cancelled>> => AnswerInv'
<1> USE DEF PoolInv, PoolTypes, Quiet
<1>1. SlotInv' BY DEF SlotInv, Busy, Present
<1>2. ASSUME UNCHANGED <<unit, cached, sdk>> PROVE UnitInv'
  BY <1>2 DEF UnitInv, Busy, UnitType
<1>3. ASSUME UNCHANGED <<call, main>> PROVE CallInv'
  BY <1>3 DEF CallInv, CallType, Live, Up
<1>4. ASSUME UNCHANGED <<call, main>> PROVE TodoInv'
  BY <1>4 DEF TodoInv, MainType, Live
<1>5. ASSUME UNCHANGED <<call, client, asked>> PROVE TokenInv'
  BY <1>5 DEF TokenInv
<1>6. ASSUME UNCHANGED <<answered, client, cancelled>> PROVE AnswerInv'
  BY <1>6 DEF AnswerInv, Live
<1> QED BY <1>1, <1>2, <1>3, <1>4, <1>5, <1>6

\* So does freeing a slot whose runtime is gone.
LEMMA FreesKeeps ==
    ASSUME PoolInv, NEW s \in Slots, Frees(s)
    PROVE  /\ SlotInv'
           /\ /\ unit' \subseteq unit /\ UNCHANGED cached /\ sdk' = sdk \ {s}
              /\ \A u \in unit' : u.slot # s
              => UnitInv'
           /\ UNCHANGED <<call, main>> => CallInv' /\ TodoInv'
           /\ UNCHANGED <<call, client, asked>> => TokenInv'
           /\ UNCHANGED <<answered, client, cancelled>> => AnswerInv'
<1> USE DEF PoolInv, PoolTypes, Frees
<1>1. SlotInv' BY DEF SlotInv, Busy, Present
<1>2. ASSUME unit' \subseteq unit, UNCHANGED cached, sdk' = sdk \ {s},
             \A u \in unit' : u.slot # s
      PROVE  UnitInv'
  BY <1>2 DEF UnitInv, Busy, UnitType
<1>3. ASSUME UNCHANGED <<call, main>> PROVE CallInv'
  BY <1>3 DEF CallInv, CallType, Live, Up
<1>4. ASSUME UNCHANGED <<call, main>> PROVE TodoInv'
  BY <1>4 DEF TodoInv, MainType, Live
<1>5. ASSUME UNCHANGED <<call, client, asked>> PROVE TokenInv'
  <2>1. \A r \in Slots : slot'[r].cred = slot[r].cred /\ slot'[r].gen = slot[r].gen
    OBVIOUS
  <2> QED BY <1>5, <2>1 DEF TokenInv
<1>6. ASSUME UNCHANGED <<answered, client, cancelled>> PROVE AnswerInv'
  BY <1>6 DEF AnswerInv, Live
<1> QED BY <1>1, <1>2, <1>3, <1>4, <1>5, <1>6

-----------------------------------------------------------------------------
(* The steps of a worker.                                                  *)

LEMMA EnsureImageKeeps ==
    ASSUME PoolInv, NEW s \in Slots, EnsureImage(s) PROVE PoolInv'
<1> USE DEF EnsureImage, disk, threads, clients, files
<1>1. PICK p \in {"check", "download"} :
           Moves(s, p) /\ (p = "check" => slot[s].image \in cached)
  BY GotoMoves DEF PoolInv, PoolTypes, WorkerPcs, Launching
<1>2. Quiet BY SameIsQuiet DEF PoolInv, PoolTypes
<1>3. WorkerInv'
  BY <1>1 DEF PoolInv, PoolTypes, WorkerInv, WorkerType, Moves, At, Up, Busy, Live, Launching, Ending
<1> QED BY <1>1, <1>2, <1>3, QuietKeeps
       DEF PoolInv, PoolTypes, DiskType, SlotType, MainType, CallType, ClientType, UnitType,
           Moves, SdkInv, SdkExclusive, Up

LEMMA PublishImageKeeps ==
    ASSUME PoolInv, NEW s \in Slots, PublishImage(s) PROVE PoolInv'
<1> USE DEF PublishImage, disk, threads, clients
<1>1. Moves(s, "check") BY GotoMoves DEF PoolInv, PoolTypes, WorkerPcs, Launching
<1>2. Quiet BY SameIsQuiet DEF PoolInv, PoolTypes
<1>3. WorkerInv'
  BY <1>1 DEF PoolInv, PoolTypes, WorkerInv, WorkerType, Moves, At, Up, Busy, Live, Launching, Ending
<1>4. UnitInv' BY DEF PoolInv, UnitInv, Busy
<1> QED BY <1>1, <1>2, <1>3, <1>4, QuietKeeps
       DEF PoolInv, PoolTypes, DiskType, SlotType, MainType, CallType, ClientType, UnitType,
           Moves, SdkInv, SdkExclusive, Up

LEMMA CheckCapacityKeeps ==
    ASSUME PoolInv, NEW s \in Slots, CheckCapacity(s) PROVE PoolInv'
<1> USE DEF CheckCapacity, disk, threads, clients, files
<1>1. Moves(s, "start") BY GotoMoves DEF PoolInv, PoolTypes, WorkerPcs, Launching
<1>2. Quiet BY SameIsQuiet DEF PoolInv, PoolTypes
<1>3. WorkerInv'
  BY <1>1 DEF PoolInv, PoolTypes, WorkerInv, WorkerType, Moves, At, Up, Busy, Live, Launching, Ending
<1> QED BY <1>1, <1>2, <1>3, QuietKeeps
       DEF PoolInv, PoolTypes, DiskType, SlotType, MainType, CallType, ClientType, UnitType,
           Moves, SdkInv, SdkExclusive, Up

\* The runtime gets the generation, the image and the SDK lock of its slot.
LEMMA StartRuntimeKeeps ==
    ASSUME PoolInv, NEW s \in Slots, StartRuntime(s) PROVE PoolInv'
<1> USE DEF StartRuntime, disk, threads, clients, files
<1>1. Moves(s, "boot") BY GotoMoves DEF PoolInv, PoolTypes, WorkerPcs, Launching
<1>2. Quiet BY SameIsQuiet DEF PoolInv, PoolTypes
<1>3. Busy(s) /\ s \in sdk /\ slot[s].image \in cached /\ slot[s].image \in Images
      /\ slot[s].gen \in Nat
  BY DEF PoolInv, PoolTypes, WorkerInv, SlotInv, SlotType, At, Launching
<1>4. UnitType'
  <2>1. [slot |-> s, gen |-> slot[s].gen, image |-> slot[s].image, outlived |-> FALSE]
           \in [slot : Slots, gen : Nat, image : Images, outlived : BOOLEAN]
    BY <1>3
  <2> QED BY <2>1 DEF PoolInv, PoolTypes, UnitType
<1>5. UnitInv' BY <1>3 DEF PoolInv, UnitInv, Busy
<1>6. WorkerInv'
  BY <1>1, <1>3 DEF PoolInv, PoolTypes, WorkerInv, WorkerType, Moves, At, Up, Busy, Live, Launching, Ending
<1> QED BY <1>1, <1>2, <1>4, <1>5, <1>6, QuietKeeps
       DEF PoolInv, PoolTypes, DiskType, SlotType, MainType, CallType, ClientType,
           Moves, SdkInv, SdkExclusive, Up

LEMMA HoldKeeps ==
    ASSUME PoolInv, NEW s \in Slots, Hold(s) PROVE PoolInv'
<1> USE DEF Hold, disk, threads, clients, files
<1>1. Moves(s, "ended") BY GotoMoves DEF PoolInv, PoolTypes, WorkerPcs
<1>2. Quiet /\ \A r \in Slots : r # s => slot'[r] = slot[r]
  BY StateIsQuiet DEF PoolInv, PoolTypes, States
<1>3. WorkerInv'
  BY <1>1, <1>2 DEF PoolInv, PoolTypes, WorkerInv, WorkerType, Moves, Up, At, Busy, Live, Launching, Ending
<1> QED BY <1>1, <1>2, <1>3, QuietKeeps
       DEF PoolInv, PoolTypes, DiskType, Quiet, MainType, CallType, ClientType, UnitType,
           Moves, SdkInv, SdkExclusive, Up

LEMMA ProvisionFailsKeeps ==
    ASSUME PoolInv, NEW s \in Slots, ProvisionFails(s) PROVE PoolInv'
<1> USE DEF ProvisionFails, disk, threads, clients, files
<1>1. Moves(s, "stop") BY GotoMoves DEF PoolInv, PoolTypes, WorkerPcs, Ending
<1>2. Busy(s) /\ s \in sdk BY DEF PoolInv, WorkerInv, Launching
<1>3. Quiet /\ slot'[s].state = "draining" /\ \A r \in Slots : r # s => slot'[r] = slot[r]
  BY <1>2, StateIsQuiet DEF PoolInv, PoolTypes, States, Busy
<1>4. WorkerInv'
  BY <1>1, <1>2, <1>3
     DEF PoolInv, PoolTypes, WorkerInv, WorkerType, Moves, Up, Busy, Live, Launching, Ending
<1> QED BY <1>1, <1>3, <1>4, QuietKeeps
       DEF PoolInv, PoolTypes, DiskType, Quiet, MainType, CallType, ClientType, UnitType,
           Moves, SdkInv, SdkExclusive, Up

LEMMA WorkerStopsKeeps ==
    ASSUME PoolInv, NEW s \in Slots, WorkerStops(s) PROVE PoolInv'
<1> USE DEF WorkerStops, disk, threads, clients, files
<1>1. Quiet BY SameIsQuiet DEF PoolInv, PoolTypes
<1>2. /\ unit' \subseteq unit
      /\ \/ Moves(s, "stopped") /\ \A u \in unit' : u.slot # s
         \/ Moves(s, "unconfirmed")
  BY GotoMoves DEF PoolInv, PoolTypes, WorkerPcs, Ending, Running, UnitInv
<1>3. WorkerInv'
  BY <1>2 DEF PoolInv, PoolTypes, WorkerInv, WorkerType, Moves, Up, At, Busy, Live, Launching, Ending
<1>4. UnitType' /\ UnitInv'
  BY <1>2 DEF PoolInv, PoolTypes, UnitInv, UnitType, Busy
<1> QED BY <1>1, <1>2, <1>3, <1>4, QuietKeeps
       DEF PoolInv, PoolTypes, DiskType, SlotType, MainType, CallType, ClientType,
           Moves, SdkInv, SdkExclusive, Up

LEMMA WorkerFreesKeeps ==
    ASSUME PoolInv, NEW s \in Slots, WorkerFrees(s) PROVE PoolInv'
<1> USE DEF WorkerFrees, disk, threads, clients, files
<1>1. Moves(s, "ended") BY GotoMoves DEF PoolInv, PoolTypes, WorkerPcs
<1>2. Frees(s) BY EmptiedFrees DEF PoolInv, PoolTypes
<1>3. \A u \in unit : u.slot # s BY DEF PoolInv, WorkerInv, At
<1>4. WorkerInv'
  BY <1>1, <1>2 DEF PoolInv, PoolTypes, WorkerInv, WorkerType, Moves, Frees, Up, At, Busy, Live,
     Launching, Ending
<1> QED BY <1>1, <1>2, <1>3, <1>4, FreesKeeps
       DEF PoolInv, PoolTypes, DiskType, Frees, MainType, CallType, ClientType, UnitType,
           Moves, SdkInv, SdkExclusive, Up

LEMMA WorkerQuarantinesKeeps ==
    ASSUME PoolInv, NEW s \in Slots, WorkerQuarantines(s) PROVE PoolInv'
<1> USE DEF WorkerQuarantines, disk, threads, clients, files
<1>1. Moves(s, "ended") BY GotoMoves DEF PoolInv, PoolTypes, WorkerPcs
<1>2. Busy(s) BY DEF PoolInv, WorkerInv, Ending, At
<1>3. Quiet /\ \A r \in Slots : r # s => slot'[r] = slot[r]
  BY <1>2, StateIsQuiet DEF PoolInv, PoolTypes, States, Busy
<1>4. WorkerInv'
  BY <1>1, <1>3 DEF PoolInv, PoolTypes, WorkerInv, WorkerType, Moves, Up, At, Busy, Live, Launching, Ending
<1> QED BY <1>1, <1>3, <1>4, QuietKeeps
       DEF PoolInv, PoolTypes, DiskType, Quiet, MainType, CallType, ClientType, UnitType,
           Moves, SdkInv, SdkExclusive, Up

LEMMA WorkerEndsKeeps ==
    ASSUME PoolInv, NEW s \in Slots, WorkerEnds(s) PROVE PoolInv'
<1> USE DEF WorkerEnds, disk, threads, clients, files
<1>1. WorkerType' BY DEF PoolInv, PoolTypes, WorkerType, NoWorker, WorkerPcs
<1>2. worker'[s].pc = "none" /\ \A r \in Slots : r # s => worker'[r] = worker[r]
  BY DEF PoolInv, PoolTypes, WorkerType, NoWorker
<1>3. Quiet BY SameIsQuiet DEF PoolInv, PoolTypes
<1>4. WorkerInv'
  BY <1>2 DEF PoolInv, PoolTypes, WorkerInv, WorkerType, Up, Busy, Live, Launching, Ending
<1> QED BY <1>1, <1>3, <1>4, QuietKeeps
       DEF PoolInv, PoolTypes, DiskType, SlotType, MainType, CallType, ClientType, UnitType,
           SdkInv, SdkExclusive, Up

-----------------------------------------------------------------------------
(* The requests of clients.                                                *)

\* A request in flight is not the one that has a slot.
LEMMA ClientStepKeeps ==
    ASSUME PoolInv, NEW t \in Tokens, client[t] # "done",
           NEW x \in {"sent", "resolving", "done"}, client' = [client EXCEPT ![t] = x],
           t \in asked => x # "sent",
           UNCHANGED <<disk, slot, threads, worker, asked, answered, cancelled, sdk,
                       files, unit, tunnel, faults, ops, granted>>
    PROVE  PoolInv'
<1> USE DEF disk, threads, files
<1>1. Quiet BY SameIsQuiet DEF PoolInv, PoolTypes
<1>2. ClientType' BY DEF PoolInv, PoolTypes, ClientType
<1>3. \A y \in Tokens : y # t => client'[y] = client[y]
  BY DEF PoolInv, PoolTypes, ClientType
<1>4. TokenInv' BY <1>3 DEF PoolInv, PoolTypes, TokenInv, SlotType
<1>5. AnswerInv' BY <1>3 DEF PoolInv, PoolTypes, ClientType, AnswerInv, Live
<1> QED BY <1>1, <1>2, <1>4, <1>5, QuietKeeps
       DEF PoolInv, PoolTypes, DiskType, SlotType, MainType, WorkerType, CallType,
           UnitType, SdkInv, SdkExclusive, Up, WorkerInv, Busy, Live

LEMMA ReserveCheckKeeps ==
    ASSUME PoolInv, NEW t \in Tokens, ReserveCheck(t) PROVE PoolInv'
BY ClientStepKeeps DEF ReserveCheck

LEMMA ReserveRefusedKeeps ==
    ASSUME PoolInv, NEW t \in Tokens, ReserveRefused(t) PROVE PoolInv'
BY ClientStepKeeps DEF ReserveRefused

LEMMA RenewKeeps ==
    ASSUME PoolInv, NEW t \in Tokens, Renew(t) PROVE PoolInv'
<1> USE DEF Renew, disk, threads, clients, files
<1>1. PICK s \in Slots : slot' = [slot EXCEPT ![s].ttl = TTL]
  BY PresentIsSlots DEF PoolInv, PoolTypes
<1>2. Quiet /\ \A r \in Slots : slot'[r].state = slot[r].state
  BY <1>1, TtlIsQuiet, AndroidAssumption DEF PoolInv, PoolTypes
<1>3. WorkerInv'
  BY <1>2 DEF PoolInv, WorkerInv, Quiet, Up, Busy, Live
<1> QED BY <1>2, <1>3, QuietKeeps
       DEF PoolInv, PoolTypes, DiskType, Quiet, MainType, WorkerType, CallType, ClientType,
           UnitType, SdkInv, SdkExclusive, Up

LEMMA TickKeeps ==
    ASSUME PoolInv, NEW s \in Slots, Tick(s) PROVE PoolInv'
<1> USE DEF Tick, disk, threads, clients, files
<1>1. slot[s].ttl - 1 \in Nat /\ slot' = [slot EXCEPT ![s].ttl = slot[s].ttl - 1]
  BY DEF PoolInv, PoolTypes, SlotType
<1>2. Quiet /\ \A r \in Slots : slot'[r].state = slot[r].state
  BY <1>1, TtlIsQuiet DEF PoolInv, PoolTypes
<1>3. WorkerInv'
  BY <1>2 DEF PoolInv, WorkerInv, Quiet, Up, Busy, Live
<1> QED BY <1>2, <1>3, QuietKeeps
       DEF PoolInv, PoolTypes, DiskType, Quiet, MainType, WorkerType, CallType, ClientType,
           UnitType, SdkInv, SdkExclusive, Up

\* Steps that leave slots, threads and requests alone.
LEMMA IdleKeeps ==
    ASSUME PoolInv, UNCHANGED <<disk, slot, threads, worker, clients, sdk, unit, cached>>,
           SdkInv'
    PROVE  PoolInv'
<1> USE DEF disk, threads, clients
<1>1. Quiet BY SameIsQuiet DEF PoolInv, PoolTypes
<1> QED BY <1>1, QuietKeeps
       DEF PoolInv, PoolTypes, DiskType, SlotType, MainType, WorkerType, CallType, ClientType,
           UnitType, Up, WorkerInv, Busy, Live

LEMMA TunnelKeeps ==
    ASSUME PoolInv, CloseTunnel \/ \E t \in Tokens : OpenTunnel(t) PROVE PoolInv'
BY IdleKeeps DEF CloseTunnel, OpenTunnel, PoolInv, SdkInv, SdkExclusive, Up, threads, files

LEMMA ReleaseKeeps ==
    ASSUME PoolInv, NEW t \in Tokens, Release(t) PROVE PoolInv'
<1> USE DEF Release, disk, files
<1>1. Quiet BY SameIsQuiet DEF PoolInv, PoolTypes
<1>2. WorkerInv' /\ SdkInv'
  BY DEF PoolInv, WorkerInv, SdkInv, SdkExclusive, Up, Busy, Live
<1>3. CASE \E s \in Present : slot[s].cred = t
           /\ call' = [call EXCEPT ![t] = [pc |-> "enter", op |-> "release",
                                           slot |-> s, gen |-> slot[s].gen]]
           /\ UNCHANGED <<answered, cancelled>>
  <2>1. PICK s \in Slots : slot[s].cred = t
           /\ call' = [call EXCEPT ![t] = [pc |-> "enter", op |-> "release",
                                           slot |-> s, gen |-> slot[s].gen]]
    BY <1>3, PresentIsSlots DEF PoolInv, PoolTypes
  <2>2. CallType'
    BY <2>1 DEF PoolInv, PoolTypes, CallType, SlotType
  <2>3. /\ call'[t].pc = "enter" /\ call'[t].op = "release" /\ call'[t].slot = s
        /\ call'[t].gen = slot[s].gen /\ \A c \in Callers : c # t => call'[c] = call[c]
    BY <2>1 DEF PoolInv, PoolTypes, CallType, Callers
  <2>4. slot[s].gen \in Nat /\ slot[s].gen > 0 /\ t # NoToken /\ t \in Callers
    BY <2>1, AndroidAssumption DEF PoolInv, PoolTypes, SlotType, SlotInv, Callers
  <2>5. CallInv'
    BY <2>3, <2>4 DEF PoolInv, PoolTypes, CallInv, Up, Live
  <2>6. TokenInv'
    BY <2>1, <2>3, <2>4 DEF PoolInv, PoolTypes, TokenInv, Callers, SlotType
  <2>7. ClientType' /\ AnswerInv' /\ TodoInv'
    BY <1>3 DEF PoolInv, PoolTypes, ClientType, AnswerInv, TodoInv, Live
  <2> QED BY <1>1, <1>2, <2>2, <2>5, <2>6, <2>7, QuietKeeps
         DEF PoolInv, PoolTypes, DiskType, SlotType, MainType, WorkerType, UnitType
<1>4. CASE /\ \A s \in Present : slot[s].cred # t
           /\ cancelled' = cancelled \cup {t}
           /\ answered' = answered \cup {t}
           /\ UNCHANGED call
  <2>1. \A s \in Slots : slot[s].cred = t => ~Live(s)
    BY <1>4 DEF PoolInv, SlotInv, Busy, Live
  <2>2. ClientType' /\ AnswerInv'
    BY <1>4, <2>1 DEF PoolInv, PoolTypes, ClientType, AnswerInv, Live
  <2>3. TokenInv'
    BY <1>4 DEF PoolInv, TokenInv
  <2> QED BY <1>1, <1>2, <1>4, <2>2, <2>3, QuietKeeps
         DEF PoolInv, PoolTypes, DiskType, SlotType, MainType, WorkerType, CallType, UnitType
<1> QED BY <1>3, <1>4

\* The slot was free: nobody runs in it, and whoever still names it names an
\* earlier generation.
LEMMA ReserveKeeps ==
    ASSUME PoolInv, NEW t \in Tokens, Reserve(t) PROVE PoolInv'
<1> USE DEF threads, files
<1>1. PICK s \in Free, i \in Images :
          /\ slot' = [slot EXCEPT ![s] = [state |-> "provisioning", gen |-> @.gen + 1,
                                          cred |-> t, image |-> i, ttl |-> TTL]]
          /\ floor' = IF floor <= slot[s].gen THEN slot[s].gen + 1 ELSE floor
          /\ worker' = [worker EXCEPT ![s] = [pc |-> "ensure", cancel |-> FALSE]]
          /\ sdk' = sdk \cup {s}
  BY DEF Reserve
<1>2. /\ UNCHANGED <<config, size, main, closed, call, asked, answered, cancelled,
                     maintenance, prepare, cached, unit>>
      /\ Up /\ client[t] = "resolving" /\ t \notin cancelled /\ ~SdkExclusive
      /\ client' = [client EXCEPT ![t] = "done"]
  BY DEF Reserve, Reservable
<1>3. s \in Slots /\ s \in Present /\ slot[s].state = "available" /\ worker[s].pc = "none"
  BY PresentIsSlots DEF PoolInv, PoolTypes, Free, Busy
<1>4. slot[s].gen \in Nat /\ TTL \in Nat
  BY <1>3, AndroidAssumption DEF PoolInv, PoolTypes, SlotType
<1>5. /\ SlotType'
      /\ slot'[s].state = "provisioning" /\ slot'[s].gen = slot[s].gen + 1
      /\ slot'[s].cred = t /\ slot'[s].image = i
      /\ \A r \in Slots : r # s => slot'[r] = slot[r]
  BY <1>1, <1>3, <1>4 DEF PoolInv, PoolTypes, SlotType, States
<1>6. /\ WorkerType' /\ worker'[s].pc = "ensure"
      /\ \A r \in Slots : r # s => worker'[r] = worker[r]
  BY <1>1, <1>3 DEF PoolInv, PoolTypes, WorkerType, WorkerPcs, Launching
<1>7. ClientType' /\ client'[t] = "done" /\ \A y \in Tokens : y # t => client'[y] = client[y]
  BY <1>2 DEF PoolInv, PoolTypes, ClientType
<1>8. DiskType' BY <1>1, <1>2, <1>4 DEF PoolInv, PoolTypes, DiskType
<1>9. \A u \in unit : u.slot # s
  BY <1>3 DEF PoolInv, UnitInv, Busy
<1>10. SlotInv'
  <2>1. Present' = Present BY <1>2 DEF Present
  <2>2. i \in Images /\ slot'[s].gen > 0 BY <1>1, <1>4, <1>5
  <2> QED BY <1>3, <1>5, <2>1, <2>2 DEF PoolInv, SlotInv, Busy
<1>11. WorkerInv'
  BY <1>1, <1>2, <1>3, <1>5, <1>6
     DEF PoolInv, WorkerInv, Up, Busy, Live, Launching, Ending
<1>12. UnitInv'
  BY <1>1, <1>2, <1>5, <1>9 DEF PoolInv, PoolTypes, UnitType, UnitInv, Busy
<1>13. SdkInv'
  BY <1>2 DEF SdkInv, SdkExclusive, Up
<1>14. CallInv'
  <2>1. \A c \in Callers : call[c].slot \in Slots /\ call[c].gen \in Nat
    BY DEF PoolInv, PoolTypes, CallType
  <2>2. \A r \in Slots : slot[r].gen \in Nat BY DEF PoolInv, PoolTypes, SlotType
  <2> QED BY <1>2, <1>4, <1>5, <2>1, <2>2 DEF PoolInv, CallInv, Up, Live
<1>15. TodoInv'
  <2>1. \A v \in main.todo : v[1] \in Slots /\ v[2] \in Nat
    BY DEF PoolInv, PoolTypes, MainType
  <2> QED BY <1>2, <1>4, <1>5, <2>1 DEF PoolInv, TodoInv, Live
<1>16. TokenInv'
  <2>1. \A r \in Slots : slot[r].cred # t /\ slot[r].gen \in Nat
                         /\ slot[r].cred \in Tokens \cup {NoToken}
    BY <1>2, AndroidAssumption DEF PoolInv, PoolTypes, SlotType, TokenInv
  <2>2. \A r \in Slots : slot'[r].cred # NoToken => client'[slot'[r].cred] = "done"
    BY <1>5, <1>7, <2>1 DEF PoolInv, TokenInv
  <2>3. \A q, r \in Slots : slot'[r].cred = slot'[q].cred /\ r # q => slot'[q].cred = NoToken
    BY <1>5, <2>1 DEF PoolInv, TokenInv
  <2>4. ASSUME NEW x \in Tokens, call[x].pc # "idle"
        PROVE  /\ client'[x] = "done" /\ x \in asked'
               /\ call[x].op = "release" /\ call[x].gen > 0
               /\ \A r \in Slots :
                     slot'[r].cred = x <=> r = call[x].slot /\ slot'[r].gen = call[x].gen
    <3>1. x # t /\ client[x] = "done" BY <1>2, <2>4 DEF PoolInv, TokenInv
    <3>2. call[x].gen \in Nat /\ call[x].slot \in Slots
          /\ call[x].gen <= slot[call[x].slot].gen
      BY <2>4 DEF PoolInv, PoolTypes, CallType, CallInv, Callers
    <3> QED BY <1>2, <1>4, <1>5, <1>7, <2>1, <2>4, <3>1, <3>2 DEF PoolInv, TokenInv
  <2> QED BY <1>2, <2>2, <2>3, <2>4 DEF TokenInv
<1>17. AnswerInv'
  <2>1. t \notin answered BY <1>2 DEF PoolInv, AnswerInv
  <2>2. answered \subseteq Tokens BY DEF PoolInv, PoolTypes, ClientType
  <2> QED BY <1>2, <1>5, <1>7, <2>1, <2>2 DEF PoolInv, AnswerInv, Live
<1>18. MainType' /\ CallType' /\ UnitType'
  BY <1>2 DEF PoolInv, PoolTypes, MainType, CallType, UnitType
<1> QED BY <1>5, <1>6, <1>7, <1>8, <1>10, <1>11, <1>12, <1>13, <1>14, <1>15, <1>16, <1>17, <1>18
       DEF PoolInv, PoolTypes

-----------------------------------------------------------------------------
(* stop_slot.                                                              *)

\* No lease begins and no token moves.
Calm ==
    /\ SlotType'
    /\ \A r \in Slots :
          /\ slot'[r].gen = slot[r].gen /\ slot'[r].cred = slot[r].cred
          /\ slot'[r].state \in {"provisioning", "held"} =>
                slot[r].state \in {"provisioning", "held"}

LEMMA QuietIsCalm == Quiet => Calm
BY DEF Quiet, Calm

LEMMA FreesIsCalm == ASSUME NEW s \in Slots, Frees(s) PROVE Calm
BY DEF Frees, Calm

LEMMA ReturnMoves ==
    ASSUME PoolInv, NEW c \in Callers, call[c].pc # "idle", NEW ok \in BOOLEAN, Return(c, ok)
    PROVE  /\ CallType'
           /\ \A d \in Callers : d # c => call'[d] = call[d]
           /\ call'[c].pc # "wait" /\ call'[c].gen = 0
           /\ c \in Tokens => call'[c].pc = "idle"
           /\ answered' = IF c \in Tokens /\ ok THEN answered \cup {c} ELSE answered
<1>1. /\ call \in [Callers -> [pc : {"idle", "enter", "wait", "done"},
                               op : {"none", "release", "revoke", "drain", "shutdown"},
                               slot : Slots, gen : Nat]]
      /\ size \in Slots
  BY DEF PoolInv, PoolTypes, CallType, DiskType
<1>2. c \in Tokens => call[c].op = "release" /\ c # "main"
  BY AndroidAssumption DEF PoolInv, TokenInv
<1>3. call[c].slot < size => call[c].slot + 1 \in Slots
  BY <1>1, AndroidAssumption DEF Slots
<1>4. 1 \in Slots BY AndroidAssumption DEF Slots
<1>5. PICK n \in [pc : {"idle", "enter", "done"},
                  op : {"none", "release", "revoke", "drain", "shutdown"},
                  slot : Slots, gen : {0}] :
         call' = [call EXCEPT ![c] = n] /\ (c \in Tokens => n.pc = "idle")
  <2> DEFINE next == [call[c] EXCEPT !.pc = "enter", !.slot = @ + 1, !.gen = 0]
             end  == [NoCall EXCEPT !.pc = IF c = "main" THEN "done" ELSE "idle"]
             goesOn == /\ call[c].slot < size
                       /\ call[c].op = "shutdown" \/ (call[c].op = "drain" /\ ok)
             rets == [pc : {"idle", "enter", "done"},
                      op : {"none", "release", "revoke", "drain", "shutdown"},
                      slot : Slots, gen : {0}]
  <2>1. call' = [call EXCEPT ![c] = IF goesOn THEN next ELSE end] BY DEF Return
  <2>2. ASSUME goesOn PROVE next \in rets /\ c \notin Tokens
    <3>1. call[c].slot + 1 \in Slots BY <1>3, <2>2
    <3>2. next \in rets BY <1>1, <3>1
    <3>3. c \notin Tokens BY <1>2, <2>2
    <3> QED BY <3>2, <3>3
  <2>3. end \in rets /\ (c \in Tokens => end.pc = "idle")
    BY <1>2, <1>4 DEF NoCall
  <2> HIDE DEF next, end, goesOn, rets
  <2>4. \E n \in rets : call' = [call EXCEPT ![c] = n] /\ (c \in Tokens => n.pc = "idle")
    <3>1. CASE goesOn BY <2>1, <2>2, <3>1
    <3>2. CASE ~goesOn BY <2>1, <2>3, <3>2
    <3> QED BY <3>1, <3>2
  <2> QED BY <2>4 DEF rets
<1>6. n.pc # "wait" /\ n.gen = 0
      /\ n \in [pc : {"idle", "enter", "wait", "done"},
                op : {"none", "release", "revoke", "drain", "shutdown"},
                slot : Slots, gen : Nat]
  BY <1>5
<1>7. call'[c] = n /\ (\A d \in Callers : d # c => call'[d] = call[d]) /\ CallType'
  BY <1>1, <1>5, <1>6 DEF CallType
<1>8. answered' = IF c \in Tokens /\ ok THEN answered \cup {c} ELSE answered
  BY DEF Return
<1> QED BY <1>5, <1>6, <1>7, <1>8

\* A thread leaves stop_slot; a release is answered when its lease is over.
LEMMA ReturnKeeps ==
    ASSUME PoolInv, NEW c \in Callers, call[c].pc # "idle", NEW ok \in BOOLEAN, Return(c, ok),
           Calm, UNCHANGED <<main, client, asked, cancelled>>,
           c \in Tokens /\ ok =>
              \A s \in Slots : slot[s].cred = c => slot'[s].state \notin {"provisioning", "held"}
    PROVE  CallType' /\ CallInv' /\ TodoInv' /\ ClientType' /\ TokenInv' /\ AnswerInv'
<1> USE DEF Calm
<1>1. /\ CallType'
      /\ \A d \in Callers : d # c => call'[d] = call[d]
      /\ call'[c].pc # "wait" /\ call'[c].gen = 0
      /\ c \in Tokens => call'[c].pc = "idle"
      /\ answered' = IF c \in Tokens /\ ok THEN answered \cup {c} ELSE answered
  BY ReturnMoves
<1>2. \A r \in Slots : slot[r].gen \in Nat BY DEF PoolInv, PoolTypes, SlotType
<1>3. \A d \in Callers : call[d].slot \in Slots /\ call'[d].slot \in Slots
                         /\ call[d].gen \in Nat
  BY <1>1 DEF PoolInv, PoolTypes, CallType
<1>4. Up BY DEF PoolInv, CallInv
<1>5. CallInv' BY <1>1, <1>2, <1>3, <1>4 DEF PoolInv, CallInv, Up, Live
<1>6. TodoInv'
  <2>1. \A v \in main.todo : v[1] \in Slots BY DEF PoolInv, PoolTypes, MainType
  <2> QED BY <2>1 DEF PoolInv, TodoInv, Live
<1>7. c \in Tokens => c \in asked /\ client[c] = "done" BY DEF PoolInv, TokenInv
<1>8. ClientType' BY <1>1, <1>7 DEF PoolInv, PoolTypes, ClientType
<1>9. TokenInv'
  <2>1. \A x \in Tokens : call'[x].pc # "idle" => call'[x] = call[x]
    BY <1>1 DEF Callers
  <2> QED BY <2>1 DEF PoolInv, TokenInv
<1>10. AnswerInv' BY <1>1, <1>7 DEF PoolInv, AnswerInv, Live
<1> QED BY <1>1, <1>5, <1>6, <1>8, <1>9, <1>10

\* The lease of a released token is over, or the release is for it.
LEMMA ReleaseNames ==
    ASSUME PoolInv, NEW c \in Tokens, call[c].pc # "idle",
           Superseded(c) \/ ~Busy(call[c].slot)
    PROVE  \A s \in Slots : slot[s].cred = c => ~Live(s)
BY DEF PoolInv, TokenInv, Superseded, Busy, Live

LEMMA StopEnterKeeps ==
    ASSUME PoolInv, NEW c \in Callers, StopEnter(c) PROVE PoolInv'
<1> DEFINE s == call[c].slot
<1>1. s \in Slots /\ call[c].gen \in Nat BY DEF PoolInv, PoolTypes, CallType
<1>2. /\ call[c].pc = "enter"
      /\ UNCHANGED <<config, size, floor, main, client, asked, cancelled, sdk, maintenance,
                     prepare, cached, unit>>
  BY DEF StopEnter, disk, files
<1>3. DiskType' /\ MainType' /\ UnitType' /\ SdkInv'
  BY <1>2 DEF PoolInv, PoolTypes, DiskType, MainType, UnitType, SdkInv, SdkExclusive, Up
<1>4. CASE (Superseded(c) \/ ~Busy(s)) /\ Return(c, TRUE) /\ UNCHANGED <<slot, worker, tunnel>>
  <2>1. Quiet /\ Calm
    BY <1>2, <1>4, SameIsQuiet, QuietIsCalm DEF PoolInv, PoolTypes
  <2>2. CallType' /\ CallInv' /\ TodoInv' /\ ClientType' /\ TokenInv' /\ AnswerInv'
    BY <1>2, <1>4, <2>1, ReleaseNames, ReturnKeeps DEF Live
  <2>3. WorkerType' /\ WorkerInv'
    BY <1>2, <1>4 DEF PoolInv, PoolTypes, WorkerType, WorkerInv, Up, Busy, Live
  <2> QED BY <1>2, <1>3, <1>4, <2>1, <2>2, <2>3, QuietKeeps DEF PoolInv, PoolTypes, Quiet
<1>5. CASE /\ ~Superseded(c) /\ Busy(s) /\ fence({s})
           /\ call' = [call EXCEPT ![c].pc = "wait", ![c].gen = slot[s].gen]
           /\ UNCHANGED <<closed, answered>>
  <2>1. /\ Quiet
        /\ \A r \in Slots : slot'[r].state \in {slot[r].state, "draining"}
        /\ slot'[s].state = "draining"
        /\ WorkerType' /\ \A r \in Slots : worker'[r].pc = worker[r].pc
    BY <1>1, <1>2, <1>5, FenceIsQuiet DEF PoolInv, PoolTypes
  <2>2. slot[s].gen \in Nat /\ slot[s].gen > 0
    BY <1>1, <1>5 DEF PoolInv, PoolTypes, SlotType, SlotInv
  <2>3. /\ CallType'
        /\ call'[c].pc = "wait" /\ call'[c].slot = s /\ call'[c].gen = slot[s].gen
        /\ call'[c].op = call[c].op
        /\ \A d \in Callers : d # c => call'[d] = call[d]
    BY <1>5, <2>2 DEF PoolInv, PoolTypes, CallType
  <2>4. c \in Tokens => slot[s].gen = call[c].gen
    BY <1>2, <1>5 DEF PoolInv, TokenInv, Superseded
  <2>5. Up BY <1>2 DEF PoolInv, CallInv
  <2>6. CallInv'
    <3>1. \A d \in Callers : call[d].slot \in Slots
      BY DEF PoolInv, PoolTypes, CallType
    <3>2. \A r \in Slots : slot[r].gen \in Nat BY DEF PoolInv, PoolTypes, SlotType
    <3> QED BY <1>1, <1>2, <2>1, <2>2, <2>3, <2>5, <3>1, <3>2
           DEF PoolInv, CallInv, Quiet, Up, Live
  <2>7. TodoInv'
    <3>1. \A v \in main.todo : v[1] \in Slots BY DEF PoolInv, PoolTypes, MainType
    <3> QED BY <1>2, <2>1, <3>1 DEF PoolInv, TodoInv, Quiet, Live
  <2>8. TokenInv'
    <3>1. \A x \in Tokens : call'[x].pc # "idle" =>
             /\ call[x].pc # "idle" /\ call'[x].op = call[x].op
             /\ call'[x].slot = call[x].slot /\ call'[x].gen = call[x].gen
      BY <1>2, <2>3, <2>4 DEF Callers
    <3> QED BY <1>2, <2>1, <3>1 DEF PoolInv, TokenInv, Quiet
  <2>9. WorkerInv'
    BY <1>2, <2>1, <2>5
       DEF PoolInv, WorkerInv, Quiet, Up, Busy, Live, Launching, Ending
  <2>10. ClientType' BY <1>2, <1>5 DEF PoolInv, PoolTypes, ClientType
  <2> QED BY <1>2, <1>3, <1>5, <2>1, <2>3, <2>6, <2>7, <2>8, <2>9, <2>10, QuietKeeps
         DEF PoolInv, PoolTypes, Quiet
<1> QED BY <1>4, <1>5 DEF StopEnter

\* Whether or not the stop is confirmed, the slot keeps what it needs.
LEMMA FinishKeeps ==
    ASSUME PoolInv, NEW s \in Slots, worker[s].pc = "none", Busy(s),
           StopConfirmed(s) \/ StopUnconfirmed(s),
           UNCHANGED <<disk, worker, files>>, main'.pc = main.pc
    PROVE  /\ DiskType' /\ SlotType' /\ WorkerType' /\ UnitType'
           /\ SlotInv' /\ WorkerInv' /\ UnitInv' /\ SdkInv'
           /\ Calm /\ slot'[s].state \notin {"provisioning", "held"}
           /\ \A r \in Slots : r # s => slot'[r] = slot[r]
<1> USE DEF disk, files
<1>1. unit' \subseteq unit /\ sdk' \subseteq sdk BY DEF StopConfirmed, StopUnconfirmed
<1>2. DiskType' /\ WorkerType' /\ UnitType'
  BY <1>1 DEF PoolInv, PoolTypes, DiskType, WorkerType, UnitType
<1>3. SdkInv' BY <1>1 DEF PoolInv, SdkInv, SdkExclusive, Up
<1>4. CASE StopConfirmed(s)
  <2>1. Frees(s) BY <1>4, EmptiedFrees DEF StopConfirmed, PoolInv, PoolTypes
  <2>2. \A u \in unit' : u.slot # s
    BY <1>4 DEF StopConfirmed, Running, PoolInv, UnitInv
  <2>3. UnitInv' /\ SlotInv'
    BY <1>1, <1>4, <2>1, <2>2, FreesKeeps DEF StopConfirmed
  <2>4. WorkerInv'
    BY <1>1, <1>4, <2>1
       DEF StopConfirmed, PoolInv, WorkerInv, Frees, Up, Busy, Live, Launching, Ending
  <2> QED BY <1>2, <1>3, <2>1, <2>3, <2>4, FreesIsCalm DEF Frees
<1>5. CASE StopUnconfirmed(s)
  <2>1. /\ Quiet /\ slot'[s].state = "quarantined"
        /\ \A r \in Slots : r # s => slot'[r] = slot[r]
    BY <1>5, StateIsQuiet DEF StopUnconfirmed, PoolInv, PoolTypes, Busy, States
  <2>2. UnitInv' /\ SlotInv'
    BY <1>5, <2>1, QuietKeeps DEF StopUnconfirmed
  <2>3. WorkerInv'
    BY <1>5, <2>1
       DEF StopUnconfirmed, PoolInv, WorkerInv, Quiet, Up, Busy, Live, Launching, Ending
  <2> QED BY <1>2, <1>3, <2>1, <2>2, <2>3, QuietIsCalm DEF Quiet
<1> QED BY <1>4, <1>5

LEMMA StopFinishKeeps ==
    ASSUME PoolInv, NEW c \in Callers, StopFinish(c) PROVE PoolInv'
<1> DEFINE s == call[c].slot
<1>1. s \in Slots /\ call[c].gen \in Nat BY DEF PoolInv, PoolTypes, CallType
<1>2. /\ call[c].pc = "wait" /\ (Superseded(c) \/ worker[s].pc = "none")
      /\ UNCHANGED <<disk, main, worker, client, asked, cancelled, files>>
  BY DEF StopFinish
<1>3. MainType' BY <1>2 DEF PoolInv, PoolTypes, MainType
<1>4. CASE /\ Superseded(c) \/ ~Busy(s)
           /\ Return(c, TRUE)
           /\ UNCHANGED <<slot, sdk, unit, faults>>
  <2>1. Quiet /\ Calm
    BY <1>2, <1>4, SameIsQuiet, QuietIsCalm DEF PoolInv, PoolTypes, disk
  <2>2. CallType' /\ CallInv' /\ TodoInv' /\ ClientType' /\ TokenInv' /\ AnswerInv'
    BY <1>2, <1>4, <2>1, ReleaseNames, ReturnKeeps DEF Live
  <2>3. /\ DiskType' /\ WorkerType' /\ UnitType' /\ SdkInv' /\ WorkerInv'
    BY <1>2, <1>4
       DEF PoolInv, PoolTypes, DiskType, UnitType, WorkerType, SdkInv, SdkExclusive, WorkerInv,
           Up, Busy, Live, disk, files
  <2> QED BY <1>2, <1>3, <1>4, <2>1, <2>2, <2>3, QuietKeeps DEF PoolInv, PoolTypes, Quiet, files
<1>5. CASE /\ ~Superseded(c) /\ Busy(s)
           /\ \/ StopConfirmed(s) /\ Return(c, TRUE)
              \/ StopUnconfirmed(s) /\ Return(c, FALSE)
  <2>1. /\ DiskType' /\ SlotType' /\ WorkerType' /\ UnitType'
        /\ SlotInv' /\ WorkerInv' /\ UnitInv' /\ SdkInv'
        /\ Calm /\ slot'[s].state \notin {"provisioning", "held"}
    BY <1>1, <1>2, <1>5, FinishKeeps
  <2>2. c \in Tokens => \A r \in Slots : slot[r].cred = c => r = s
    BY <1>2 DEF PoolInv, TokenInv
  <2>3. CallType' /\ CallInv' /\ TodoInv' /\ ClientType' /\ TokenInv' /\ AnswerInv'
    BY <1>2, <1>5, <2>1, <2>2, ReturnKeeps
  <2> QED BY <1>3, <2>1, <2>3 DEF PoolInv, PoolTypes
<1> QED BY <1>4, <1>5 DEF StopFinish

LEMMA JoinTimeoutKeeps ==
    ASSUME PoolInv, NEW c \in Callers, JoinTimeout(c) PROVE PoolInv'
<1> USE DEF JoinTimeout, disk, files
<1>1. Quiet /\ Calm BY SameIsQuiet, QuietIsCalm DEF PoolInv, PoolTypes
<1>2. CallType' /\ CallInv' /\ TodoInv' /\ ClientType' /\ TokenInv' /\ AnswerInv'
  BY <1>1, ReturnKeeps
<1>3. DiskType' /\ MainType' /\ WorkerType' /\ UnitType' /\ SdkInv' /\ WorkerInv'
  BY DEF PoolInv, PoolTypes, DiskType, MainType, UnitType, WorkerType, SdkInv, SdkExclusive,
         WorkerInv, Up, Busy, Live
<1> QED BY <1>1, <1>2, <1>3, QuietKeeps DEF PoolInv, PoolTypes, Quiet

-----------------------------------------------------------------------------
(* Operators.                                                              *)

\* A thread of an operator, or the main thread, enters stop_slot.
LEMMA EnterKeeps ==
    ASSUME PoolInv, NEW c \in {"admin", "main"}, NEW s \in Slots,
           NEW o \in {"revoke", "drain", "shutdown"}, Up,
           call' = [call EXCEPT ![c] = [pc |-> "enter", op |-> o, slot |-> s, gen |-> 0]],
           UNCHANGED <<slot, client, asked, answered, cancelled>>,
           MainType', main'.todo = main.todo, Up'
    PROVE  CallType' /\ CallInv' /\ TodoInv' /\ TokenInv' /\ AnswerInv' /\ ClientType'
<1>1. c \in Callers /\ c \notin Tokens BY AndroidAssumption DEF Callers
<1>2. /\ CallType' /\ call'[c].pc = "enter" /\ call'[c].slot = s /\ call'[c].gen = 0
      /\ \A d \in Callers : d # c => call'[d] = call[d]
  BY <1>1 DEF PoolInv, PoolTypes, CallType
<1>3. CallInv'
  <2>1. \A r \in Slots : slot[r].gen \in Nat BY DEF PoolInv, PoolTypes, SlotType
  <2> QED BY <1>2, <2>1 DEF PoolInv, CallInv, Live
<1>4. TodoInv' BY DEF PoolInv, TodoInv, Up, Live
<1>5. TokenInv' BY <1>1, <1>2 DEF PoolInv, TokenInv, Callers
<1> QED BY <1>2, <1>3, <1>4, <1>5
       DEF PoolInv, PoolTypes, AnswerInv, ClientType, Live

LEMMA AdminKeeps ==
    ASSUME PoolInv, Revoke \/ Drain PROVE PoolInv'
<1> USE DEF Revoke, Drain, disk, clients, files
<1>1. Quiet BY SameIsQuiet DEF PoolInv, PoolTypes
<1>2. \E s \in Slots, o \in {"revoke", "drain"} :
         call' = [call EXCEPT !["admin"] = [pc |-> "enter", op |-> o, slot |-> s, gen |-> 0]]
  <2>1. 1 \in Slots BY AndroidAssumption DEF Slots
  <2> QED BY <2>1, PresentIsSlots DEF PoolInv, PoolTypes
<1>3. MainType' /\ Up' BY DEF PoolInv, PoolTypes, MainType, Up
<1>4. CallType' /\ CallInv' /\ TodoInv' /\ TokenInv' /\ AnswerInv' /\ ClientType'
  BY <1>2, <1>3, EnterKeeps
<1>5. DiskType' /\ WorkerType' /\ UnitType' /\ SdkInv' /\ WorkerInv'
  BY DEF PoolInv, PoolTypes, DiskType, UnitType, WorkerType, SdkInv, SdkExclusive,
         WorkerInv, Up, Busy, Live
<1> QED BY <1>1, <1>3, <1>4, <1>5, QuietKeeps DEF PoolInv, PoolTypes, Quiet

\* The service is told to stop, alone or by the setup that replaces it.
LEMMA ShutdownKeeps ==
    ASSUME PoolInv, Shutdown, main.pc = "serve", config' \in Slots,
           UNCHANGED <<size, floor, slot, worker, clients, sdk, files, unit>>
    PROVE  PoolInv'
<1> USE DEF Shutdown, clients, files
<1>1. Quiet BY SameIsQuiet DEF PoolInv, PoolTypes
<1>2. 1 \in Slots BY AndroidAssumption DEF Slots
<1>3. MainType' /\ main'.todo = main.todo /\ main'.pc = "stop"
  BY DEF PoolInv, PoolTypes, MainType
<1>4. Up /\ Up' BY <1>3 DEF Up
<1>5. CallType' /\ CallInv' /\ TodoInv' /\ TokenInv' /\ AnswerInv' /\ ClientType'
  BY <1>2, <1>3, <1>4, EnterKeeps
<1>6. DiskType' /\ WorkerType' /\ UnitType' /\ SdkInv' /\ WorkerInv'
  BY <1>4 DEF PoolInv, PoolTypes, DiskType, UnitType, WorkerType, SdkInv, SdkExclusive,
              WorkerInv, Busy, Live
<1> QED BY <1>1, <1>3, <1>5, <1>6, QuietKeeps DEF PoolInv, PoolTypes, Quiet

LEMMA TerminateKeeps == ASSUME PoolInv, Terminate PROVE PoolInv'
BY ShutdownKeeps DEF Terminate, disk, PoolInv, PoolTypes, DiskType

LEMMA ReplaceKeeps == ASSUME PoolInv, NEW n \in Slots, Replace(n) PROVE PoolInv'
BY ShutdownKeeps DEF Replace

-----------------------------------------------------------------------------
(* The main thread.                                                        *)

\* A pool that starts has no threads, and refuses to drop an occupied slot.
LEMMA StartKeeps ==
    ASSUME PoolInv, Start PROVE PoolInv'
<1>1. /\ main.pc = "down" /\ ~Refused /\ size' = config /\ main'.pc = "recover"
      /\ main'.todo = {<<s, slot[s].gen>> : s \in Recovering}
      /\ UNCHANGED <<config, floor, call, worker, client, asked, answered, cancelled, sdk,
                     maintenance, prepare, cached, unit>>
  BY DEF Start, clients, files
<1>2. ~Up /\ ~Up' BY <1>1 DEF Up
<1>3. \A s \in Slots : Busy(s) <=> s \in Recovering
  BY PresentIsSlots DEF Recovering, PoolInv, PoolTypes, SlotInv
<1>4. \A s \in Recovering : s \in Slots /\ s \in Present /\ s <= config
  BY <1>1, PresentIsSlots DEF Recovering, Refused, PoolInv, PoolTypes, DiskType, Slots
<1>5. /\ \A s \in Recovering : slot'[s] = [slot[s] EXCEPT !.state = "draining"]
      /\ \A s \in Slots \ Recovering : slot'[s] = Loaded(s)
  <2>1. \A s \in Recovering : Loaded(s) = slot[s]
    BY <1>4 DEF Loaded, PoolInv, PoolTypes, DiskType, Slots
  <2> QED BY <1>4, <2>1 DEF Start
<1>6. \A s \in Slots \ Recovering :
         slot'[s] = slot[s] \/ slot'[s] = Fresh(0) \/ slot'[s] = Fresh(floor)
  BY <1>5 DEF Loaded
<1>7. SlotType'
  <2>1. slot' = [s \in Slots |-> slot'[s]] BY DEF Start
  <2>2. \A s \in Slots : slot'[s] \in [state : States, gen : Nat, cred : Tokens \cup {NoToken},
                                       image : Images \cup {NoImage}, ttl : Nat]
    <3>1. \A g \in Nat : Fresh(g) \in [state : States, gen : Nat, cred : Tokens \cup {NoToken},
                                       image : Images \cup {NoImage}, ttl : Nat]
      BY DEF Fresh, States
    <3>2. 0 \in Nat /\ floor \in Nat BY DEF PoolInv, PoolTypes, DiskType
    <3>3. \A s \in Slots \ Recovering :
             slot'[s] \in [state : States, gen : Nat, cred : Tokens \cup {NoToken},
                           image : Images \cup {NoImage}, ttl : Nat]
      BY <1>6, <3>1, <3>2 DEF PoolInv, PoolTypes, SlotType
    <3>4. \A s \in Recovering :
             slot'[s] \in [state : States, gen : Nat, cred : Tokens \cup {NoToken},
                           image : Images \cup {NoImage}, ttl : Nat]
      <4> SUFFICES ASSUME NEW s \in Recovering
                   PROVE  slot'[s] \in [state : States, gen : Nat, cred : Tokens \cup {NoToken},
                                        image : Images \cup {NoImage}, ttl : Nat]
        OBVIOUS
      <4>1. slot[s] \in [state : States, gen : Nat, cred : Tokens \cup {NoToken},
                         image : Images \cup {NoImage}, ttl : Nat]
        BY <1>4 DEF PoolInv, PoolTypes, SlotType
      <4>2. slot'[s] = [slot[s] EXCEPT !.state = "draining"] BY <1>5
      <4> QED BY <4>1, <4>2 DEF States
    <3> QED BY <3>3, <3>4
  <2> QED BY <2>1, <2>2 DEF SlotType
<1>8. \A s \in Recovering :
         /\ slot'[s].state = "draining" /\ slot'[s].gen = slot[s].gen
         /\ slot'[s].cred = slot[s].cred /\ slot'[s].image = slot[s].image
  <2> SUFFICES ASSUME NEW s \in Recovering
               PROVE  /\ slot'[s].state = "draining" /\ slot'[s].gen = slot[s].gen
                      /\ slot'[s].cred = slot[s].cred /\ slot'[s].image = slot[s].image
    OBVIOUS
  <2>1. slot[s] \in [state : States, gen : Nat, cred : Tokens \cup {NoToken},
                     image : Images \cup {NoImage}, ttl : Nat]
    BY <1>4 DEF PoolInv, PoolTypes, SlotType
  <2>2. slot'[s] = [slot[s] EXCEPT !.state = "draining"] BY <1>5
  <2> QED BY <2>1, <2>2
<1>9. \A s \in Slots \ Recovering :
         /\ slot'[s].state = "available"
         /\ slot'[s].cred \in {slot[s].cred, NoToken}
         /\ slot'[s].cred # NoToken => slot'[s].gen = slot[s].gen
  <2>1. \A g : Fresh(g).state = "available" /\ Fresh(g).cred = NoToken BY DEF Fresh
  <2>2. \A s \in Slots \ Recovering : slot[s].state = "available" BY <1>3 DEF Busy
  <2> QED BY <1>6, <2>1, <2>2
<1>10. DiskType' /\ WorkerType' /\ CallType' /\ ClientType' /\ UnitType'
  BY <1>1 DEF PoolInv, PoolTypes, DiskType, WorkerType, CallType, ClientType, UnitType
<1>11. MainType'
  <2>1. \A s \in Recovering : <<s, slot[s].gen>> \in Slots \X Nat
    BY <1>4 DEF PoolInv, PoolTypes, SlotType
  <2> QED BY <2>1 DEF Start, MainType
<1>12. SlotInv'
  <2>1. \A s \in Recovering : s \in Present'
    BY <1>1, <1>4 DEF Present, PoolInv, PoolTypes, DiskType, Slots
  <2> QED BY <1>3, <1>8, <1>9, <2>1 DEF PoolInv, SlotInv, Busy
<1>13. WorkerInv' BY <1>1, <1>2 DEF PoolInv, WorkerInv, Launching, Ending
<1>14. UnitInv'
  <2>1. \A u \in unit : u.slot \in Slots /\ u.slot \in Recovering
    BY <1>3 DEF PoolInv, PoolTypes, UnitType, UnitInv
  <2> QED BY <1>1, <1>8, <2>1 DEF PoolInv, UnitInv, Busy
<1>15. SdkInv' BY <1>1, <1>2 DEF PoolInv, SdkInv, SdkExclusive
<1>16. CallInv' BY <1>1, <1>2 DEF PoolInv, CallInv
<1>17. TodoInv'
  BY <1>1, <1>4, <1>8 DEF TodoInv, Live, PoolInv, PoolTypes, SlotType
<1>18. TokenInv'
  <2>1. \A s \in Slots : slot'[s].cred \in {slot[s].cred, NoToken} BY <1>8, <1>9
  <2>2. \A t \in Tokens : call[t].pc = "idle" BY <1>2 DEF PoolInv, CallInv, Callers
  <2> QED BY <1>1, <2>1, <2>2 DEF PoolInv, TokenInv
<1>19. AnswerInv'
  BY <1>1, <1>8, <1>9 DEF PoolInv, AnswerInv, Live
<1> QED BY <1>7, <1>10, <1>11, <1>12, <1>13, <1>14, <1>15, <1>16, <1>17, <1>18, <1>19
       DEF PoolInv, PoolTypes

LEMMA ReapKeeps ==
    ASSUME PoolInv, Reap PROVE PoolInv'
<1> DEFINE victims == {s \in Present : Busy(s) /\ Expired(s)}
<1>1. /\ main.pc = "serve" /\ fence(victims) /\ main'.pc = "reap"
      /\ main'.todo = {<<s, slot[s].gen>> : s \in victims}
      /\ UNCHANGED <<disk, closed, call, clients, sdk, files, unit>>
  BY DEF Reap
<1> USE DEF disk, clients, files
<1>2. victims \in SUBSET Slots BY PresentIsSlots DEF PoolInv, PoolTypes
<1>3. /\ Quiet
      /\ \A r \in Slots : slot'[r].state \in {slot[r].state, "draining"}
      /\ \A r \in victims : slot'[r].state = "draining"
      /\ WorkerType' /\ \A r \in Slots : worker'[r].pc = worker[r].pc
  BY <1>1, <1>2, FenceIsQuiet DEF PoolInv, PoolTypes
<1> HIDE DEF victims
<1>4. Up /\ Up' BY <1>1 DEF Up
<1>5. MainType'
  <2>1. \A s \in victims : <<s, slot[s].gen>> \in Slots \X Nat
    BY <1>2 DEF PoolInv, PoolTypes, SlotType
  <2> QED BY <2>1 DEF Reap, MainType, victims
<1>6. TodoInv'
  BY <1>1, <1>2, <1>3 DEF TodoInv, Live, Quiet, PoolInv, PoolTypes, SlotType
<1>7. CallInv'
  <2>1. \A d \in Callers : call[d].slot \in Slots BY DEF PoolInv, PoolTypes, CallType
  <2> QED BY <1>1, <1>3, <1>4, <2>1 DEF PoolInv, CallInv, Quiet, Live
<1>8. WorkerInv'
  BY <1>1, <1>3, <1>4 DEF PoolInv, WorkerInv, Quiet, Busy, Live, Launching, Ending
<1>9. DiskType' /\ CallType' /\ ClientType' /\ UnitType' /\ SdkInv'
  BY <1>1, <1>4 DEF PoolInv, PoolTypes, DiskType, CallType, ClientType, UnitType,
                    SdkInv, SdkExclusive
<1> QED BY <1>1, <1>3, <1>5, <1>6, <1>7, <1>8, <1>9, QuietKeeps DEF PoolInv, PoolTypes, Quiet

LEMMA ReapNextKeeps ==
    ASSUME PoolInv, ReapNext PROVE PoolInv'
<1>1. PICK v \in main.todo :
         /\ main' = [main EXCEPT !.todo = @ \ {v}]
         /\ LET s == v[1]
                mine == slot[s].gen = v[2] /\ Busy(s) /\ worker[s].pc = "none"
            IN  \/ ~mine /\ UNCHANGED <<slot, sdk, unit, faults>>
                \/ mine /\ (StopConfirmed(s) \/ StopUnconfirmed(s))
  BY DEF ReapNext
<1>2. UNCHANGED <<disk, closed, call, worker, clients, files>> BY DEF ReapNext
<1> DEFINE s == v[1]
<1>3. s \in Slots BY <1>1 DEF PoolInv, PoolTypes, MainType
<1>4. MainType' /\ main'.pc = main.pc /\ main'.todo \subseteq main.todo
  BY <1>1 DEF PoolInv, PoolTypes, MainType
<1>5. Calm => /\ CallType' /\ CallInv' /\ TodoInv' /\ ClientType' /\ TokenInv' /\ AnswerInv'
  <2> SUFFICES ASSUME Calm
               PROVE  CallType' /\ CallInv' /\ TodoInv' /\ ClientType' /\ TokenInv' /\ AnswerInv'
    OBVIOUS
  <2> USE DEF Calm, clients
  <2>1. \A d \in Callers : call[d].slot \in Slots BY DEF PoolInv, PoolTypes, CallType
  <2>2. \A w \in main.todo : w[1] \in Slots BY DEF PoolInv, PoolTypes, MainType
  <2>3. CallInv' BY <1>2, <1>4, <2>1 DEF PoolInv, CallInv, Up, Live
  <2>4. TodoInv' BY <1>4, <2>2 DEF PoolInv, TodoInv, Live
  <2>5. TokenInv' BY <1>2 DEF PoolInv, TokenInv
  <2>6. AnswerInv' BY <1>2 DEF PoolInv, AnswerInv, Live
  <2> QED BY <1>2, <2>3, <2>4, <2>5, <2>6 DEF PoolInv, PoolTypes, CallType, ClientType
<1>6. CASE UNCHANGED <<slot, sdk, unit, faults>>
  <2>1. Quiet BY <1>2, <1>6, SameIsQuiet DEF PoolInv, PoolTypes, disk
  <2>2. DiskType' /\ WorkerType' /\ UnitType' /\ SdkInv' /\ WorkerInv'
    BY <1>2, <1>4, <1>6
       DEF PoolInv, PoolTypes, DiskType, UnitType, WorkerType, SdkInv, SdkExclusive,
           WorkerInv, Up, Busy, Live, disk, files
  <2> QED BY <1>2, <1>4, <1>5, <1>6, <2>1, <2>2, QuietKeeps, QuietIsCalm
         DEF PoolInv, PoolTypes, Quiet, files
<1>7. CASE /\ Busy(s) /\ worker[s].pc = "none" /\ (StopConfirmed(s) \/ StopUnconfirmed(s))
  BY <1>2, <1>3, <1>4, <1>5, <1>7, FinishKeeps DEF PoolInv, PoolTypes
<1> QED BY <1>1, <1>6, <1>7

LEMMA ServeKeeps ==
    ASSUME PoolInv, Serve PROVE PoolInv'
<1> USE DEF Serve, disk, clients, files
<1>1. Quiet BY SameIsQuiet DEF PoolInv, PoolTypes
<1>2. MainType' /\ main'.pc = "serve" /\ main'.todo = {}
  BY DEF PoolInv, PoolTypes, MainType
<1>3. Up' BY <1>2 DEF Up
<1>4. CallInv'
  BY <1>3 DEF PoolInv, CallInv, Live
<1>5. TodoInv' BY <1>2 DEF TodoInv
<1>6. WorkerInv' BY <1>3 DEF PoolInv, WorkerInv, Busy, Live
<1>7. DiskType' /\ WorkerType' /\ CallType' /\ ClientType' /\ UnitType' /\ SdkInv'
  BY <1>3 DEF PoolInv, PoolTypes, DiskType, WorkerType, CallType, ClientType, UnitType,
              SdkInv, SdkExclusive
<1> QED BY <1>1, <1>2, <1>4, <1>5, <1>6, <1>7, QuietKeeps DEF PoolInv, PoolTypes, Quiet

\* Only files and units are left.
LEMMA ProcessEndsKeeps ==
    ASSUME PoolInv, ProcessEnds PROVE PoolInv'
<1> USE DEF ProcessEnds, disk
<1>1. Quiet BY SameIsQuiet DEF PoolInv, PoolTypes
<1>2. MainType' /\ main'.pc = "down" /\ main'.todo = {} BY DEF MainType, NoMain
<1>3. WorkerType' /\ \A s \in Slots : worker'[s].pc = "none"
  BY DEF WorkerType, NoWorker, WorkerPcs
<1>4. CallType' /\ \A c \in Callers : call'[c].pc = "idle"
  <2>1. 1 \in Slots BY AndroidAssumption DEF Slots
  <2> QED BY <2>1 DEF CallType, NoCall
<1>5. ClientType' BY DEF PoolInv, PoolTypes, ClientType
<1>6. \A t \in Tokens : (client[t] = "done" \/ t \in asked) => client'[t] = "done"
  BY DEF PoolInv, PoolTypes, ClientType
<1>7. \A u \in unit' : \E w \in unit :
         u.slot = w.slot /\ u.gen = w.gen /\ u.image = w.image /\ u.outlived = TRUE
         /\ u \in [slot : Slots, gen : Nat, image : Images, outlived : BOOLEAN]
  BY DEF PoolInv, PoolTypes, UnitType
<1>8. UnitType' BY <1>7 DEF UnitType
<1>9. UnitInv' BY <1>7 DEF PoolInv, UnitInv, Busy
<1>10. WorkerInv' BY <1>3 DEF WorkerInv, Launching, Ending
<1>11. SdkInv' BY DEF SdkInv
<1>12. CallInv' BY <1>4 DEF CallInv
<1>13. TodoInv' BY <1>2 DEF TodoInv
<1>14. TokenInv'
  <2>1. \A t \in Tokens : call'[t].pc = "idle" BY <1>4 DEF Callers
  <2> QED BY <1>6, <2>1 DEF PoolInv, PoolTypes, SlotType, TokenInv
<1>15. AnswerInv' BY <1>6 DEF PoolInv, PoolTypes, ClientType, AnswerInv, Live
<1> QED BY <1>1, <1>2, <1>3, <1>4, <1>5, <1>8, <1>9, <1>10, <1>11, <1>12, <1>13, <1>14, <1>15,
           QuietKeeps DEF PoolInv, PoolTypes, DiskType, Quiet

-----------------------------------------------------------------------------
(* Images, the SDK and runtimes.                                           *)

LEMMA PrepareKeeps == ASSUME PoolInv, Prepare PROVE PoolInv'
<1>1. SdkInv' BY DEF Prepare, SdkInv, Up, threads
<1> QED BY <1>1, IdleKeeps DEF Prepare

LEMMA MaintenanceEndsKeeps == ASSUME PoolInv, MaintenanceEnds PROVE PoolInv'
<1>1. SdkInv' BY DEF MaintenanceEnds, PoolInv, SdkInv, SdkExclusive, Up, threads
<1> QED BY <1>1, IdleKeeps DEF MaintenanceEnds

LEMMA MaintainKeeps == ASSUME PoolInv, NEW n \in Slots, Maintain(n) PROVE PoolInv'
<1> USE DEF Maintain, threads, clients
<1>1. Quiet BY SameIsQuiet DEF PoolInv, PoolTypes
<1>2. DiskType' /\ SdkInv' BY DEF PoolInv, PoolTypes, DiskType, SdkInv, SdkExclusive, Up
<1> QED BY <1>1, <1>2, QuietKeeps
       DEF PoolInv, PoolTypes, Quiet, MainType, WorkerType, CallType, ClientType,
           UnitType, Up, WorkerInv, Busy, Live

\* A step that changes the cache keeps what runtimes and workers rely on.
LEMMA CacheKeeps ==
    ASSUME PoolInv, UNCHANGED <<disk, slot, threads, worker, clients, sdk, maintenance, unit>>,
           \A s \in Slots : Busy(s) /\ slot[s].image \in cached => slot[s].image \in cached',
           SdkInv'
    PROVE  PoolInv'
<1> USE DEF disk, threads, clients
<1>1. Quiet BY SameIsQuiet DEF PoolInv, PoolTypes
<1>2. UnitInv' BY DEF PoolInv, PoolTypes, UnitType, UnitInv, Busy
<1>3. WorkerInv' BY DEF PoolInv, WorkerInv, Up, Busy, Live, Launching
<1> QED BY <1>1, <1>2, <1>3, QuietKeeps
       DEF PoolInv, PoolTypes, DiskType, Quiet, MainType, WorkerType, CallType, ClientType,
           UnitType

LEMMA PrepareImageKeeps == ASSUME PoolInv, PrepareImage PROVE PoolInv'
<1>1. SdkInv' BY DEF PrepareImage, PoolInv, SdkInv, SdkExclusive, Up, threads
<1> QED BY <1>1, CacheKeeps DEF PrepareImage

LEMMA PruneKeeps == ASSUME PoolInv, Prune PROVE PoolInv'
<1>1. SdkInv' BY DEF Prune, PoolInv, SdkInv, SdkExclusive, Up, threads
<1>2. \A s \in Slots : Busy(s) => slot[s].image \in Pinned
  BY AndroidAssumption DEF Pinned, PoolInv, SlotInv
<1> QED BY <1>1, <1>2, CacheKeeps DEF Prune

LEMMA RuntimeExitsKeeps == ASSUME PoolInv, RuntimeExits PROVE PoolInv'
<1> USE DEF RuntimeExits, disk, threads, clients, files
<1>1. Quiet BY SameIsQuiet DEF PoolInv, PoolTypes
<1>2. unit' \subseteq unit OBVIOUS
<1>3. UnitType' /\ UnitInv' BY <1>2 DEF PoolInv, PoolTypes, UnitType, UnitInv, Busy
<1>4. WorkerInv' BY <1>2 DEF PoolInv, WorkerInv, Up, Busy, Live
<1> QED BY <1>1, <1>3, <1>4, QuietKeeps
       DEF PoolInv, PoolTypes, DiskType, Quiet, MainType, WorkerType, CallType, ClientType,
           SdkInv, SdkExclusive, Up

-----------------------------------------------------------------------------
(* The invariant, and what follows from it.                                *)

LEMMA InitPool == Init => PoolInv
<1> SUFFICES ASSUME Init PROVE PoolInv OBVIOUS
<1> USE DEF Init
<1>1. 1 \in Slots /\ Used \in Nat BY AndroidAssumption DEF Slots
<1>2. DiskType BY <1>1 DEF DiskType
<1>3. SlotType
  <2>1. \A g \in Nat : Fresh(g) \in [state : States, gen : Nat, cred : Tokens \cup {NoToken},
                                     image : Images \cup {NoImage}, ttl : Nat]
    BY DEF Fresh, States
  <2> QED BY <1>1, <2>1 DEF SlotType
<1>4. \A s \in Slots : slot[s].state = "available" /\ slot[s].cred = NoToken
  BY DEF Fresh
<1>5. MainType /\ main.pc = "down" /\ main.todo = {} BY DEF MainType, NoMain
<1>6. WorkerType /\ \A s \in Slots : worker[s].pc = "none"
  BY DEF WorkerType, NoWorker, WorkerPcs
<1>7. CallType /\ \A c \in Callers : call[c].pc = "idle"
  BY <1>1 DEF CallType, NoCall
<1>8. ClientType /\ UnitType BY DEF ClientType, UnitType
<1>9. SlotInv BY <1>4 DEF SlotInv, Busy
<1>10. WorkerInv BY <1>6 DEF WorkerInv, Launching, Ending
<1>11. UnitInv /\ SdkInv BY DEF UnitInv, SdkInv
<1>12. CallInv BY <1>7 DEF CallInv
<1>13. TodoInv BY <1>5 DEF TodoInv
<1>14. TokenInv BY <1>4, <1>7 DEF TokenInv, Callers
<1>15. AnswerInv BY DEF AnswerInv
<1> QED BY <1>2, <1>3, <1>5, <1>6, <1>7, <1>8, <1>9, <1>10, <1>11, <1>12, <1>13, <1>14, <1>15
       DEF PoolInv, PoolTypes

LEMMA StutterKeeps == ASSUME PoolInv, UNCHANGED vars PROVE PoolInv'
<1>1. SdkInv' BY DEF PoolInv, SdkInv, SdkExclusive, Up, vars, threads, files
<1> QED BY <1>1, IdleKeeps DEF vars, files

LEMMA NextKeeps == ASSUME PoolInv, [Next]_vars PROVE PoolInv'
<1>1. ASSUME NEW t \in Tokens,
             ReserveCheck(t) \/ Reserve(t) \/ ReserveRefused(t) \/ Renew(t) \/ OpenTunnel(t)
             \/ Release(t)
      PROVE  PoolInv'
  BY <1>1, ReserveCheckKeeps, ReserveKeeps, ReserveRefusedKeeps, RenewKeeps, TunnelKeeps,
     ReleaseKeeps
<1>2. ASSUME NEW s \in Slots, Worker(s) \/ Tick(s) PROVE PoolInv'
  BY <1>2, EnsureImageKeeps, PublishImageKeeps, CheckCapacityKeeps, StartRuntimeKeeps,
     HoldKeeps, ProvisionFailsKeeps, WorkerStopsKeeps, WorkerFreesKeeps,
     WorkerQuarantinesKeeps, WorkerEndsKeeps, TickKeeps DEF Worker
<1>3. ASSUME NEW c \in Callers, StopEnter(c) \/ StopFinish(c) \/ JoinTimeout(c) PROVE PoolInv'
  BY <1>3, StopEnterKeeps, StopFinishKeeps, JoinTimeoutKeeps
<1>4. ASSUME NEW n \in Slots, Maintain(n) \/ Replace(n) PROVE PoolInv'
  BY <1>4, MaintainKeeps, ReplaceKeeps
<1>5. ASSUME Revoke \/ Drain \/ CloseTunnel PROVE PoolInv'
  BY <1>5, AdminKeeps, TunnelKeeps
<1>6. ASSUME Start \/ Reap \/ ReapNext \/ Serve \/ Terminate \/ Exit \/ Die PROVE PoolInv'
  BY <1>6, StartKeeps, ReapKeeps, ReapNextKeeps, ServeKeeps, TerminateKeeps, ProcessEndsKeeps
     DEF Exit, Die
<1>7. ASSUME Prepare \/ PrepareImage \/ Prune \/ MaintenanceEnds \/ RuntimeExits
      PROVE  PoolInv'
  BY <1>7, PrepareKeeps, PrepareImageKeeps, PruneKeeps, MaintenanceEndsKeeps, RuntimeExitsKeeps
<1> QED BY <1>1, <1>2, <1>3, <1>4, <1>5, <1>6, <1>7, StutterKeeps DEF Next

\* Every step of the service keeps PoolInv: who may touch a slot.
THEOREM PoolInvariant == Spec => []PoolInv
BY InitPool, NextKeeps, PTL DEF Spec

\* Runtime.recover never meets a runtime that pool.json does not record.
THEOREM RuntimesRecorded == Spec => []RuntimesAreRecorded
<1>1. PoolInv => RuntimesAreRecorded
  BY DEF PoolInv, PoolTypes, UnitType, UnitInv, SlotInv, RuntimesAreRecorded, Recorded
<1> QED BY <1>1, PoolInvariant, PTL

\* Once a release is answered, its token has no lease and gets none.
THEOREM ReleasedTokensStayOut == Spec => []ReleasedTokenStaysOut
<1>1. PoolInv => ReleasedTokenStaysOut
  BY PresentIsSlots DEF PoolInv, PoolTypes, AnswerInv, ReleasedTokenStaysOut
<1> QED BY <1>1, PoolInvariant, PTL

\* Neither pruning nor setup changes what a runtime reads.
THEOREM RuntimeFilesStable == Spec => []RuntimeFilesAreStable
<1>1. PoolInv => RuntimeFilesAreStable
  BY DEF PoolInv, UnitInv, SdkInv, RuntimeFilesAreStable
<1> QED BY <1>1, PoolInvariant, PTL

-----------------------------------------------------------------------------
(* What a step does to the lease of a slot.                                *)

\* Why a lease ends.
Cause(s) == \/ Expired(s) \/ slot[s].cred \in asked \/ Stopping(s)
            \/ slot[s].state = "provisioning" /\ GivesUp(s)
            \/ main.pc = "down"

Unmoved(s) == slot'[s].gen = slot[s].gen /\ granted'[s] = granted[s]
Begins(s)  == /\ ~Busy(s) /\ s \in Present
              /\ slot'[s].state = "provisioning" /\ slot'[s].gen = slot[s].gen + 1
              /\ granted'[s] = granted[s] \cup {slot[s].gen + 1}
Held(s)    == slot[s].state = "provisioning" /\ slot'[s].state = "held" /\ Unmoved(s)
Ends(s)    == /\ Busy(s) /\ slot'[s].state \in {"draining", "quarantined"} /\ Unmoved(s)
              /\ Live(s) => Cause(s)
              /\ slot[s].state = "held" /\ main.pc # "down" => \A c \in tunnel' : c[1] # s
Freed(s)   == /\ ~Live(s) /\ slot'[s].state = "available" /\ granted'[s] = granted[s]
Shape(s)   == \/ slot'[s].state = slot[s].state /\ Unmoved(s)
              \/ Begins(s) \/ Held(s) \/ Ends(s) \/ Freed(s)

\* Every step but a reservation and the start of the service.
Steady == /\ UNCHANGED <<size, floor, granted>>
          /\ \A s \in Slots : slot'[s].gen = slot[s].gen
Closes == /\ tunnel' \subseteq tunnel
          /\ ~Up' => ~Up \/ tunnel' = {}

GrantType == granted \in [Slots -> SUBSET Nat]

LEMMA StillShape ==
    ASSUME UNCHANGED <<size, floor, granted, slot>>
    PROVE  Steady /\ \A s \in Slots : Shape(s)
BY DEF Steady, Shape, Unmoved

LEMMA ReserveShape ==
    ASSUME PoolInv, GrantType, NEW t \in Tokens, Reserve(t)
    PROVE  \E s \in Slots :
              /\ Begins(s) /\ floor' >= slot[s].gen + 1 /\ floor' >= floor /\ floor' \in Nat
              /\ \A r \in Slots : r # s => slot'[r] = slot[r] /\ granted'[r] = granted[r]
              /\ GrantType' /\ UNCHANGED <<size, tunnel, main>>
<1>1. PICK s \in Free, i \in Images :
          /\ slot' = [slot EXCEPT ![s] = [state |-> "provisioning", gen |-> @.gen + 1,
                                          cred |-> t, image |-> i, ttl |-> TTL]]
          /\ floor' = IF floor <= slot[s].gen THEN slot[s].gen + 1 ELSE floor
          /\ granted' = [granted EXCEPT ![s] = @ \cup {slot[s].gen + 1}]
  BY DEF Reserve
<1>2. s \in Slots /\ s \in Present /\ ~Busy(s) BY PresentIsSlots DEF PoolInv, PoolTypes, Free
<1>3. slot[s].gen \in Nat /\ floor \in Nat
  BY <1>2 DEF PoolInv, PoolTypes, SlotType, DiskType
<1>4. /\ slot'[s].state = "provisioning" /\ slot'[s].gen = slot[s].gen + 1
      /\ \A r \in Slots : r # s => slot'[r] = slot[r]
  BY <1>1, <1>2 DEF PoolInv, PoolTypes, SlotType
<1>5. /\ granted'[s] = granted[s] \cup {slot[s].gen + 1}
      /\ \A r \in Slots : r # s => granted'[r] = granted[r]
      /\ GrantType'
  BY <1>1, <1>2, <1>3 DEF GrantType
<1>6. floor' >= slot[s].gen + 1 /\ floor' >= floor /\ floor' \in Nat BY <1>1, <1>3
<1>7. UNCHANGED <<size, tunnel, main>> BY DEF Reserve, threads
<1> QED BY <1>2, <1>4, <1>5, <1>6, <1>7 DEF Begins

LEMMA WorkerShape ==
    ASSUME PoolInv, NEW w \in Slots, Worker(w)
    PROVE  Steady /\ Closes /\ \A s \in Slots : Shape(s)
<1>1. UNCHANGED <<size, floor, granted, tunnel, main>>
  BY DEF Worker, EnsureImage, PublishImage, CheckCapacity, StartRuntime, Hold, ProvisionFails,
         WorkerStops, WorkerFrees, WorkerQuarantines, WorkerEnds, disk, threads
<1>2. Closes BY <1>1 DEF Closes, Up
<1>3. CASE UNCHANGED slot BY <1>1, <1>2, <1>3, StillShape
<1>4. CASE Hold(w)
  <2>1. /\ Quiet /\ slot'[w].state = "held" /\ \A r \in Slots : r # w => slot'[r] = slot[r]
    BY <1>1, <1>4, StateIsQuiet DEF Hold, PoolInv, PoolTypes, States
  <2> QED BY <1>1, <1>2, <1>4, <2>1 DEF Hold, Quiet, Steady, Shape, Held, Unmoved
<1>5. CASE ProvisionFails(w)
  <2>1. Busy(w) /\ slot[w].state # "held" /\ GivesUp(w)
    BY <1>5 DEF ProvisionFails, Goto, GivesUp, PoolInv, PoolTypes, WorkerType, WorkerInv, Launching
  <2>2. /\ Quiet /\ slot'[w].state = "draining" /\ \A r \in Slots : r # w => slot'[r] = slot[r]
    BY <1>1, <1>5, <2>1, StateIsQuiet DEF ProvisionFails, PoolInv, PoolTypes, States, Busy
  <2>3. Ends(w) BY <1>1, <2>1, <2>2 DEF Ends, Quiet, Unmoved, Live, Cause
  <2> QED BY <1>1, <1>2, <2>2, <2>3 DEF Quiet, Steady, Shape, Unmoved
<1>6. CASE WorkerFrees(w)
  <2>1. ~Live(w) BY <1>6 DEF WorkerFrees, At, PoolInv, WorkerInv, Ending
  <2>2. Frees(w) BY <1>1, <1>6, EmptiedFrees DEF WorkerFrees, PoolInv, PoolTypes
  <2>3. Freed(w) BY <1>1, <2>1, <2>2 DEF Freed, Frees
  <2> QED BY <1>1, <1>2, <2>2, <2>3 DEF Frees, Steady, Shape, Unmoved
<1>7. CASE WorkerQuarantines(w)
  <2>1. Busy(w) /\ ~Live(w)
    BY <1>7 DEF WorkerQuarantines, At, PoolInv, WorkerInv, Ending
  <2>2. /\ Quiet /\ slot'[w].state = "quarantined"
        /\ \A r \in Slots : r # w => slot'[r] = slot[r]
    BY <1>1, <1>7, <2>1, StateIsQuiet DEF WorkerQuarantines, PoolInv, PoolTypes, States, Busy
  <2>3. Ends(w) BY <1>1, <2>1, <2>2 DEF Ends, Quiet, Unmoved, Live
  <2> QED BY <1>1, <1>2, <2>2, <2>3 DEF Quiet, Steady, Shape, Unmoved
<1> QED BY <1>3, <1>4, <1>5, <1>6, <1>7
       DEF Worker, EnsureImage, PublishImage, CheckCapacity, StartRuntime, WorkerStops,
           WorkerEnds

LEMMA TimeShape ==
    ASSUME PoolInv, (\E t \in Tokens : Renew(t)) \/ (\E s \in Slots : Tick(s))
    PROVE  Steady /\ Closes /\ \A s \in Slots : Shape(s)
<1>1. UNCHANGED <<size, floor, granted, tunnel, main>> BY DEF Renew, Tick, disk, threads
<1>2. PICK s \in Slots, n \in Nat : slot' = [slot EXCEPT ![s].ttl = n]
  <2>1. CASE \E t \in Tokens : Renew(t)
    BY <2>1, PresentIsSlots, AndroidAssumption DEF Renew, PoolInv, PoolTypes
  <2>2. CASE \E s \in Slots : Tick(s)
    <3>1. PICK s \in Slots : Tick(s) BY <2>2
    <3>2. slot[s].ttl - 1 \in Nat /\ slot' = [slot EXCEPT ![s].ttl = slot[s].ttl - 1]
      BY <3>1 DEF Tick, PoolInv, PoolTypes, SlotType
    <3> QED BY <3>2
  <2> QED BY <2>1, <2>2
<1>3. Quiet /\ \A r \in Slots : slot'[r].state = slot[r].state
  BY <1>1, <1>2, TtlIsQuiet DEF PoolInv, PoolTypes
<1> QED BY <1>1, <1>3 DEF Steady, Closes, Shape, Unmoved, Quiet, Up

\* A fence ends a lease and its connections.
LEMMA FenceShape ==
    ASSUME PoolInv, NEW S \in SUBSET Slots, \A s \in S : Busy(s) /\ (Live(s) => Cause(s)),
           fence(S), UNCHANGED <<size, floor, granted>>
    PROVE  Steady /\ tunnel' \subseteq tunnel /\ \A s \in Slots : Shape(s)
<1>1. /\ Quiet
      /\ \A r \in S : slot'[r].state = "draining"
      /\ \A r \in Slots : r \notin S => slot'[r] = slot[r]
  BY FenceIsQuiet DEF PoolInv, PoolTypes
<1>2. tunnel' \subseteq tunnel /\ \A r \in S : \A c \in tunnel' : c[1] # r BY DEF fence
<1>3. \A r \in S : Ends(r)
  BY <1>1, <1>2 DEF Ends, Quiet, Unmoved
<1> QED BY <1>1, <1>2, <1>3 DEF Quiet, Steady, Shape, Unmoved

\* finish_stop touches a slot that was fenced.
LEMMA FinishShape ==
    ASSUME PoolInv, NEW s \in Slots, Busy(s), ~Live(s),
           StopConfirmed(s) \/ StopUnconfirmed(s), UNCHANGED <<size, floor, granted>>
    PROVE  Steady /\ \A r \in Slots : Shape(r)
<1>1. CASE StopConfirmed(s)
  <2>1. Frees(s) BY <1>1, EmptiedFrees DEF StopConfirmed, PoolInv, PoolTypes
  <2>2. Freed(s) BY <2>1 DEF Freed, Frees
  <2> QED BY <2>1, <2>2 DEF Frees, Steady, Shape, Unmoved
<1>2. CASE StopUnconfirmed(s)
  <2>1. /\ Quiet /\ slot'[s].state = "quarantined"
        /\ \A r \in Slots : r # s => slot'[r] = slot[r]
    BY <1>2, StateIsQuiet DEF StopUnconfirmed, PoolInv, PoolTypes, Busy, States
  <2>2. Ends(s) BY <2>1 DEF Ends, Quiet, Unmoved, Live
  <2> QED BY <2>1, <2>2 DEF Quiet, Steady, Shape, Unmoved
<1> QED BY <1>1, <1>2

\* A release is bound to the generation of its own lease; a thread that has
\* waited finds the generation it fenced, or another lease that it leaves.
LEMMA StopShape ==
    ASSUME PoolInv, NEW c \in Callers, StopEnter(c) \/ StopFinish(c) \/ JoinTimeout(c)
    PROVE  Steady /\ Closes /\ \A s \in Slots : Shape(s)
<1> DEFINE s == call[c].slot
<1>1. s \in Slots /\ call[c].gen \in Nat BY DEF PoolInv, PoolTypes, CallType
<1>2. UNCHANGED <<size, floor, granted, main>> BY DEF StopEnter, StopFinish, JoinTimeout, disk
<1>3. CASE UNCHANGED <<slot, tunnel>>
  BY <1>2, <1>3, StillShape DEF Closes, Up
<1>4. CASE StopEnter(c) /\ ~Superseded(c) /\ Busy(s) /\ fence({s})
  <2>1. call[c].pc = "enter" BY <1>4 DEF StopEnter
  <2>2. c \in Tokens => slot[s].cred \in asked
    BY <1>1, <1>4, <2>1 DEF Superseded, PoolInv, TokenInv
  <2>3. c \notin Tokens => Stopping(s) BY <2>1 DEF Stopping, Callers
  <2>4. Cause(s) BY <2>2, <2>3 DEF Cause
  <2>5. {s} \in SUBSET Slots /\ \A r \in {s} : Busy(r) /\ (Live(r) => Cause(r))
    BY <1>1, <1>4, <2>4
  <2> QED BY <1>2, <1>4, <2>5, FenceShape DEF Closes, Up
<1>5. CASE /\ StopFinish(c) /\ ~Superseded(c) /\ Busy(s)
           /\ StopConfirmed(s) \/ StopUnconfirmed(s)
  <2>1. call[c].pc = "wait" /\ UNCHANGED tunnel BY <1>5 DEF StopFinish
  <2>2. ~Live(s) BY <1>1, <1>5, <2>1 DEF Superseded, PoolInv, CallInv
  <2> QED BY <1>1, <1>2, <1>5, <2>1, <2>2, FinishShape DEF Closes, Up
<1> QED BY <1>3, <1>4, <1>5 DEF StopEnter, StopFinish, JoinTimeout

LEMMA ReaperShape ==
    ASSUME PoolInv, Reap \/ ReapNext
    PROVE  Steady /\ Closes /\ \A s \in Slots : Shape(s)
<1>1. UNCHANGED <<size, floor, granted>> BY DEF Reap, ReapNext, disk
<1>2. CASE Reap
  <2> DEFINE victims == {s \in Present : Busy(s) /\ Expired(s)}
  <2>1. victims \in SUBSET Slots /\ fence(victims) /\ main.pc = "serve" /\ main'.pc = "reap"
    BY <1>2, PresentIsSlots DEF Reap, PoolInv, PoolTypes
  <2>2. \A s \in victims : Busy(s) /\ Cause(s) BY DEF Cause
  <2> HIDE DEF victims
  <2> QED BY <1>1, <2>1, <2>2, FenceShape DEF Closes, Up
<1>3. CASE ReapNext
  <2>1. UNCHANGED tunnel BY <1>3 DEF ReapNext
  <2>2. PICK v \in main.todo :
           /\ main' = [main EXCEPT !.todo = @ \ {v}]
           /\ \/ UNCHANGED slot
              \/ /\ slot[v[1]].gen = v[2] /\ Busy(v[1])
                 /\ StopConfirmed(v[1]) \/ StopUnconfirmed(v[1])
    BY <1>3 DEF ReapNext
  <2>3. Closes BY <2>1, <2>2 DEF Closes, Up, PoolInv, PoolTypes, MainType
  <2>4. v[1] \in Slots /\ (slot[v[1]].gen = v[2] => ~Live(v[1]))
    BY <2>2 DEF PoolInv, PoolTypes, MainType, TodoInv
  <2> QED BY <1>1, <2>2, <2>3, <2>4, StillShape, FinishShape
<1> QED BY <1>2, <1>3

LEMMA StartShape ==
    ASSUME PoolInv, Start PROVE \A s \in Slots : Shape(s)
<1> SUFFICES ASSUME NEW s \in Slots PROVE Shape(s) OBVIOUS
<1>1. main.pc = "down" /\ granted'[s] = granted[s] /\ ~Refused BY DEF Start
<1>2. CASE Busy(s)
  <2>1. s \in Present /\ s \in Recovering /\ s <= config /\ s \in 1 .. size
    BY <1>1, <1>2 DEF Recovering, Refused, PoolInv, PoolTypes, SlotInv, Present, DiskType, Slots
  <2>2. slot'[s] = [slot[s] EXCEPT !.state = "draining"]
    BY <2>1 DEF Start, Loaded, PoolInv, PoolTypes, DiskType, Slots
  <2>3. slot'[s].state = "draining" /\ slot'[s].gen = slot[s].gen
    BY <2>2 DEF PoolInv, PoolTypes, SlotType
  <2> QED BY <1>1, <1>2, <2>3 DEF Shape, Ends, Unmoved, Cause
<1>3. CASE ~Busy(s)
  <2>1. slot'[s] = Loaded(s) BY <1>3 DEF Start, Recovering
  <2>2. \A g : Fresh(g).state = "available" BY DEF Fresh
  <2>3. slot'[s].state = "available" BY <1>3, <2>1, <2>2 DEF Loaded, Busy
  <2> QED BY <1>1, <1>3, <2>3 DEF Shape, Freed, Live, Busy
<1> QED BY <1>2, <1>3

\* The steps that leave every lease as it is.
LEMMA OtherShape ==
    ASSUME PoolInv,
           \/ \E t \in Tokens : \/ ReserveCheck(t) \/ ReserveRefused(t) \/ OpenTunnel(t)
                                \/ Release(t)
           \/ \E n \in Slots : Maintain(n) \/ Replace(n)
           \/ Revoke \/ Drain \/ CloseTunnel \/ Serve \/ Terminate \/ Exit \/ Die
           \/ Prepare \/ PrepareImage \/ Prune \/ MaintenanceEnds \/ RuntimeExits
           \/ UNCHANGED vars
    PROVE  /\ Steady /\ (\A s \in Slots : Shape(s))
           /\ Closes \/ \E t \in Tokens : OpenTunnel(t)
<1> USE DEF disk, threads
<1>1. CASE \E t \in Tokens : \/ ReserveCheck(t) \/ ReserveRefused(t) \/ OpenTunnel(t)
                             \/ Release(t)
  BY <1>1, StillShape DEF ReserveCheck, ReserveRefused, OpenTunnel, Release, Closes, Up
<1>2. CASE \E n \in Slots : Maintain(n) \/ Replace(n)
  <2>1. Closes
    BY <1>2 DEF Maintain, Replace, Shutdown, Closes, Up, PoolInv, PoolTypes, MainType
  <2> QED BY <1>2, <2>1, StillShape DEF Maintain, Replace
<1>3. CASE Revoke \/ Drain \/ CloseTunnel \/ Serve
  <2>1. Closes
    BY <1>3 DEF Revoke, Drain, CloseTunnel, Serve, Closes, Up, PoolInv, PoolTypes, MainType
  <2> QED BY <1>3, <2>1, StillShape DEF Revoke, Drain, CloseTunnel, Serve
<1>4. CASE Terminate \/ Exit \/ Die
  <2>1. Closes
    BY <1>4 DEF Terminate, Shutdown, Exit, Die, ProcessEnds, Closes, Up, PoolInv, PoolTypes,
                MainType
  <2> QED BY <1>4, <2>1, StillShape DEF Terminate, Exit, Die, ProcessEnds
<1>5. CASE Prepare \/ PrepareImage \/ Prune \/ MaintenanceEnds \/ RuntimeExits
           \/ UNCHANGED vars
  BY <1>5, StillShape
     DEF Prepare, PrepareImage, Prune, MaintenanceEnds, RuntimeExits, vars, Closes, Up
<1> QED BY <1>1, <1>2, <1>3, <1>4, <1>5

LEMMA NextShape ==
    ASSUME PoolInv, GrantType, [Next]_vars
    PROVE  /\ \A s \in Slots : Shape(s)
           /\ Steady \/ Start \/ \E t \in Tokens : Reserve(t)
           /\ Closes \/ \E t \in Tokens : OpenTunnel(t)
<1>1. CASE \E t \in Tokens : Reserve(t)
  <2>1. PICK t \in Tokens : Reserve(t) BY <1>1
  <2>2. PICK s \in Slots : /\ Begins(s) /\ UNCHANGED <<tunnel, main>>
                           /\ \A r \in Slots : r # s => slot'[r] = slot[r] /\ granted'[r] = granted[r]
    BY <2>1, ReserveShape
  <2> QED BY <1>1, <2>2 DEF Shape, Unmoved, Closes, Up
<1>2. CASE Start
  BY <1>2, StartShape DEF Start, Closes, Up
<1>3. CASE \/ \E s \in Slots : Worker(s) \/ Tick(s)
           \/ \E t \in Tokens : Renew(t)
           \/ \E c \in Callers : StopEnter(c) \/ StopFinish(c) \/ JoinTimeout(c)
           \/ Reap \/ ReapNext
  BY <1>3, WorkerShape, TimeShape, StopShape, ReaperShape
<1> QED BY <1>1, <1>2, <1>3, OtherShape DEF Next

-----------------------------------------------------------------------------
(* The contract of DisposableLease.                                        *)

\* Connections are those of the current lease, and generations are given out
\* once: all of them are below the floor, those of a slot that there is below
\* its generation.
TunnelInv ==
    /\ ~Up => tunnel = {}
    /\ \A c \in tunnel : c[1] \in Slots /\ slot[c[1]].state = "held" /\ c[2] = slot[c[1]].gen

GrantInv ==
    /\ GrantType
    /\ \A s \in Slots :
          /\ slot[s].gen <= floor
          /\ \A g \in granted[s] : g <= floor /\ (s \in Present => g <= slot[s].gen)

LEMMA TunnelKept ==
    ASSUME PoolInv, TunnelInv, GrantType, [Next]_vars PROVE TunnelInv'
<1>1. /\ \A s \in Slots : Shape(s)
      /\ Closes \/ \E t \in Tokens : OpenTunnel(t)
  BY NextShape
<1>2. CASE Closes
  <2>1. ~Up' => tunnel' = {} BY <1>2 DEF Closes, TunnelInv
  <2>2. ASSUME NEW c \in tunnel'
        PROVE  c[1] \in Slots /\ slot'[c[1]].state = "held" /\ c[2] = slot'[c[1]].gen
    <3>1. c \in tunnel /\ Up /\ Shape(c[1])
          /\ c[1] \in Slots /\ slot[c[1]].state = "held" /\ c[2] = slot[c[1]].gen
      BY <1>1, <1>2, <2>2 DEF Closes, TunnelInv
    <3> QED BY <2>2, <3>1 DEF Shape, Unmoved, Begins, Held, Ends, Freed, Busy, Live, Up
  <2> QED BY <2>1, <2>2 DEF TunnelInv
<1>3. CASE \E t \in Tokens : OpenTunnel(t)
  BY <1>3, PresentIsSlots DEF OpenTunnel, PoolInv, PoolTypes, TunnelInv, Up, threads
<1> QED BY <1>1, <1>2, <1>3

LEMMA GrantKept ==
    ASSUME PoolInv, GrantInv, [Next]_vars PROVE GrantInv'
<1>1. \A s \in Slots : slot[s].gen \in Nat /\ \A g \in granted[s] : g \in Nat
  BY DEF PoolInv, PoolTypes, SlotType, GrantInv, GrantType
<1>2. floor \in Nat BY DEF PoolInv, PoolTypes, DiskType
<1>3. CASE Steady
  BY <1>3 DEF Steady, GrantInv, GrantType, Present
<1>4. CASE Start
  <2>1. UNCHANGED <<floor, granted>> /\ size' = config BY <1>4 DEF Start
  <2>2. \A s \in Slots : slot'[s].gen = Loaded(s).gen
    <3> SUFFICES ASSUME NEW s \in Slots PROVE slot'[s].gen = Loaded(s).gen OBVIOUS
    <3>1. slot'[s] = IF s \in Recovering THEN [Loaded(s) EXCEPT !.state = "draining"]
                     ELSE Loaded(s)
      BY <1>4 DEF Start
    <3>2. Loaded(s) \in [state : States, gen : Nat, cred : Tokens \cup {NoToken},
                         image : Images \cup {NoImage}, ttl : Nat]
      BY <1>2 DEF Loaded, Fresh, States, PoolInv, PoolTypes, SlotType
    <3> QED BY <3>1, <3>2
  <2>3. \A g : Fresh(g).gen = g BY DEF Fresh
  <2>4. config \in Int /\ size \in Int BY DEF PoolInv, PoolTypes, DiskType, Slots
  <2>5. ASSUME NEW s \in Slots
        PROVE  /\ slot'[s].gen <= floor
               /\ \A g \in granted[s] : g <= floor /\ (s \in 1 .. config => g <= slot'[s].gen)
    <3>1. s \in Int BY DEF Slots
    <3>2. slot'[s].gen = IF s > config THEN 0 ELSE IF s \in Present THEN slot[s].gen ELSE floor
      BY <2>2, <2>3, <2>5 DEF Loaded
    <3> QED BY <1>1, <1>2, <2>4, <3>1, <3>2 DEF GrantInv
  <2> QED BY <2>1, <2>5 DEF GrantInv, GrantType, Present
<1>5. CASE \E t \in Tokens : Reserve(t)
  <2>1. PICK s \in Slots :
              /\ Begins(s) /\ floor' >= slot[s].gen + 1 /\ floor' >= floor /\ floor' \in Nat
              /\ \A r \in Slots : r # s => slot'[r] = slot[r] /\ granted'[r] = granted[r]
              /\ GrantType' /\ UNCHANGED size
    BY <1>5, ReserveShape DEF GrantInv
  <2> QED BY <1>1, <1>2, <2>1 DEF GrantInv, Begins, Present
<1> QED BY <1>3, <1>4, <1>5, NextShape DEF GrantInv

LEMMA InitLease == Init => TunnelInv /\ GrantInv
<1> SUFFICES ASSUME Init PROVE TunnelInv /\ GrantInv OBVIOUS
<1> USE DEF Init
<1>1. Used \in Nat BY AndroidAssumption
<1>2. \A s \in Slots : slot[s].gen = IF s <= size THEN Used ELSE 0 BY DEF Fresh
<1>3. \A s \in Slots : granted[s] = 1 .. Used OBVIOUS
<1>4. config \in Int BY DEF Slots
<1> QED BY <1>1, <1>2, <1>3, <1>4 DEF TunnelInv, GrantInv, GrantType, Present, Slots

LeaseInv == PoolInv /\ TunnelInv /\ GrantInv

LEMMA LeaseInvariant == Spec => []LeaseInv
<1>1. Init => LeaseInv BY InitPool, InitLease DEF LeaseInv
<1>2. LeaseInv /\ [Next]_vars => LeaseInv'
  BY NextKeeps, TunnelKept, GrantKept DEF LeaseInv, GrantInv
<1> QED BY <1>1, <1>2, PTL DEF Spec

\* No delayed release, reaper or stop ends the lease of a successor.
THEOREM LeasesEndForCause == Spec => EndsOnlyForCause
<1>1. ASSUME LeaseInv, [Next]_vars
      PROVE  [\A s \in Slots :
                Live(s) /\ ~(Live(s))' =>
                   \/ Expired(s) \/ slot[s].cred \in asked \/ Stopping(s)
                   \/ slot[s].state = "provisioning" /\ GivesUp(s)
                   \/ main.pc = "down"]_vars
  <2>1. \A s \in Slots : Shape(s) BY <1>1, NextShape DEF LeaseInv, GrantInv
  <2> QED BY <2>1 DEF Shape, Unmoved, Begins, Held, Ends, Freed, Cause, Busy, Live
<1> QED BY <1>1, LeaseInvariant, PTL DEF Spec, EndsOnlyForCause

\* What the contract sees of a slot.
Seen(st) == CASE st = "available"    -> "free"
              [] st = "provisioning" -> "preparing"
              [] st = "held"         -> "usable"
              [] OTHER               -> "revoked"

LEMMA PhaseIsState ==
    ASSUME LeaseInv, NEW s \in Slots PROVE Phase(s) = Seen(slot[s].state)
<1>1. ~ \E u \in unit : u.slot = s /\ (~Busy(s) \/ u.gen # slot[s].gen)
  BY DEF LeaseInv, PoolInv, UnitInv
<1>2. ~ \E c \in tunnel : c[1] = s /\ (~Busy(s) \/ c[2] # slot[s].gen)
  BY DEF LeaseInv, TunnelInv, Busy
<1> QED BY <1>1, <1>2 DEF Phase, Seen, Busy

LEMMA PhaseIsNextState ==
    ASSUME LeaseInv', NEW s \in Slots PROVE Phase(s)' = Seen(slot'[s].state)
<1>1. ~ \E u \in unit' : u.slot = s /\ (~Busy(s)' \/ u.gen # slot'[s].gen)
  BY DEF LeaseInv, PoolInv, UnitInv
<1>2. ~ \E c \in tunnel' : c[1] = s /\ (~Busy(s)' \/ c[2] # slot'[s].gen)
  BY DEF LeaseInv, TunnelInv, Busy
<1> QED BY <1>1, <1>2 DEF Phase, Seen, Busy

\* Each slot implements DisposableLease: one tenant at a time under a fresh
\* generation, and free again only when nothing of the last one is left.
THEOREM PoolImplementsLease == Spec => PoolKeepsLeaseContract
<1>1. Init => \A s \in Slots : Lease(s)!Init
  <2> SUFFICES ASSUME Init, NEW s \in Slots PROVE Lease(s)!Init OBVIOUS
  <2>1. LeaseInv BY InitPool, InitLease DEF LeaseInv
  <2>2. slot[s].state = "available" BY DEF Init, Fresh
  <2>3. Phase(s) = "free" /\ Tenant(s) = 0
    BY <2>1, <2>2, PhaseIsState DEF Seen, Tenant, Busy
  <2> QED BY <2>3 DEF Lease!Init
<1>2. ASSUME LeaseInv, LeaseInv', [Next]_vars
      PROVE  \A s \in Slots : UNCHANGED Lease(s)!vars \/ Lease(s)!Next
  <2> SUFFICES ASSUME NEW s \in Slots PROVE UNCHANGED Lease(s)!vars \/ Lease(s)!Next
    OBVIOUS
  <2>1. Shape(s) BY <1>2, NextShape DEF LeaseInv, GrantInv
  <2>2. Phase(s) = Seen(slot[s].state) /\ Phase(s)' = Seen(slot'[s].state)
    BY <1>2, PhaseIsState, PhaseIsNextState
  <2>3. Tenant(s) = (IF slot[s].state # "available" THEN slot[s].gen ELSE 0)
        /\ Tenant(s)' = (IF slot'[s].state # "available" THEN slot'[s].gen ELSE 0)
    BY DEF Tenant, Busy
  <2>4. slot[s].state \in States /\ slot'[s].state \in States /\ slot[s].gen \in Nat
    BY <1>2 DEF LeaseInv, PoolInv, PoolTypes, SlotType
  <2>5. CASE slot'[s].state = slot[s].state /\ Unmoved(s)
    BY <2>2, <2>3, <2>5 DEF Lease!vars, Unmoved
  <2>6. CASE Begins(s)
    <3>1. slot[s].gen + 1 # 0 /\ slot[s].gen + 1 \notin granted[s]
      BY <1>2, <2>4, <2>6 DEF Begins, LeaseInv, GrantInv, GrantType
    <3>2. Lease(s)!Grant
      BY <2>2, <2>3, <2>6, <3>1 DEF Begins, Busy, Seen, Lease!Grant
    <3> QED BY <3>2 DEF Lease!Next
  <2>7. CASE Held(s)
    BY <2>2, <2>3, <2>7 DEF Held, Unmoved, Seen, Lease!Admit, Lease!Next
  <2>8. CASE Ends(s)
    BY <2>2, <2>3, <2>4, <2>8
       DEF Ends, Unmoved, Busy, Seen, States, Lease!Revoke, Lease!Next, Lease!vars
  <2>9. CASE Freed(s)
    BY <2>2, <2>3, <2>4, <2>9
       DEF Freed, Live, Seen, States, Lease!Reclaim, Lease!Next, Lease!vars
  <2> QED BY <2>1, <2>5, <2>6, <2>7, <2>8, <2>9 DEF Shape
<1> QED BY <1>1, <1>2, LeaseInvariant, PTL DEF Spec, PoolKeepsLeaseContract
=============================================================================
