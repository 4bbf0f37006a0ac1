------------------------- MODULE ReleaseTransition -------------------------
(***************************************************************************)
(* The release transition (releasetransition/transition_v2.go with its     *)
(* store, links_posix.go and config/persistent_cas_linux.go): an update or *)
(* a rollback as a journal of migration steps, an exchange of two links    *)
(* and a reconciliation of the running parts.                              *)
(*                                                                         *)
(* A caller inspects, the operator confirms the plan, and Converge applies *)
(* it under the update lock.  Every durable write is a step of its own, so *)
(* that a caller may die between any two of them; a call that fails leaves *)
(* the same behind as one that dies.  Releases are numbers, a newer one is *)
(* greater, and 0 stands for no release.  Migration m rewrites one file of *)
(* settings and then moves the ledger from m - 1 to m.                     *)
(***************************************************************************)
EXTENDS Naturals

CONSTANTS
    Callers,      \* processes that run the update
    Newest,       \* releases are 1..Newest
    Installed,    \* releases that may be active at first
    Epoch,        \* Epoch[r]: the migrations that release r expects
    Compatible,   \* releases without a registry that every migration declares it works with
    Reconcilers,  \* how many parts are reconciled after the activation
    MaxTxns,      \* bound: transactions that are not forced by an edit
    MaxDeaths,    \* bound: deaths and failures of callers
    MaxEdits,     \* bound: edits of a settings file by the operator
    MaxDrifts     \* bound: times a reconciled part changes by itself

Releases == 1..Newest
Migrations == 1..Epoch[Newest]
Parts == 1..Reconcilers

ASSUME TransitionAssumption ==
    /\ Newest \in Nat \ {0} /\ Reconcilers \in Nat
    /\ Epoch \in [Releases -> Nat]
    /\ Installed \subseteq Releases /\ Compatible \subseteq Releases
    /\ \A r, q \in Releases : r <= q => Epoch[r] <= Epoch[q]
    /\ {MaxTxns, MaxDeaths, MaxEdits, MaxDrifts} \subseteq Nat

VARIABLES
    links, stagedLink,  \* current and previous; the link that waits to be renamed
    settings, staged,   \* the files; what waits to be renamed over each
    ledger,             \* the migrations applied
    journal,            \* the current journal
    records,            \* recovery and evidence files
    replaced,           \* the journals preserved by newer releases
    runtime,            \* the release that each part was reconciled to
    lock, pc, plan,     \* the update lock; each caller and its plan
    unseen,             \* observability: files edited since a call last compared them
    txns, deaths, edits, drifts

durable == <<links, stagedLink, settings, staged, ledger, journal, records, replaced, runtime>>
\* What the program does not have: the bounds, and what only a property reads.
ghosts == <<unseen, txns, deaths, edits, drifts>>
vars == <<durable, lock, pc, plan, ghosts>>

\* A ReleasePair, with the links it starts from.
Pair(from, previous, target) == [from |-> from, previous |-> previous, target |-> target]
initialReleaseLinks(pair) == links = [active |-> pair.from, previous |-> pair.previous]
activatedReleaseLinks(pair) == links = [active |-> pair.target, previous |-> pair.from]
stagedLinks(pair) ==
    pair.from # pair.target /\ links = [active |-> pair.from, previous |-> pair.target]

NoPlan == [reason |-> "none"]
NoJournal == [txn |-> 0, cp |-> "complete", plan |-> NoPlan, steps |-> << >>]

Init ==
    /\ \E r \in Installed : \E q \in 0..(r - 1) :
          /\ links = [active |-> r, previous |-> q] /\ ledger = Epoch[r]
          /\ settings = [m \in Migrations |-> IF m <= Epoch[r] THEN "new" ELSE "old"]
          /\ runtime = [k \in Parts |-> r]
    /\ stagedLink = 0 /\ staged = [m \in Migrations |-> "none"]
    /\ journal = NoJournal /\ records = {} /\ replaced = {}
    /\ lock = {} /\ pc = [p \in Callers |-> "idle"] /\ plan = [p \in Callers |-> NoPlan]
    /\ unseen = {} /\ txns = 0 /\ deaths = 0 /\ edits = 0 /\ drifts = 0

-----------------------------------------------------------------------------
(* What an inspection finds.                                               *)

Unfinished == journal.cp # "complete"
Pairs == journal.plan.pair

BeforeActivation == journal.cp \in {"authorized", "migrating"}

journalLinksAllowed ==
    IF Pairs.from = Pairs.target THEN initialReleaseLinks(Pairs)
    ELSE CASE BeforeActivation -> initialReleaseLinks(Pairs)
           [] journal.cp = "activation-intent" ->
                 initialReleaseLinks(Pairs) \/ stagedLinks(Pairs) \/ activatedReleaseLinks(Pairs)
           [] OTHER -> activatedReleaseLinks(Pairs)

\* A file that the migration would rewrite.
Planned(m) == settings[m] \in {"old", "old2"}

Converged(k) == runtime[k] = links.active

\* The work of a plan: the ledger moves over each pending migration, and files
\* that are not migrated yet are rewritten.
WorkOf(facts) ==
    LET pending == (facts.ledger + 1)..Epoch[facts.pair.target]
        files == {m \in pending : facts.settings[m] \in {"old", "old2"}}
    IN [kind : {"settings"}, mig : files] \cup [kind : {"ledger"}, mig : pending]

\* The order of the steps: by migration, and the file before the ledger.
Before(v, w) == v.mig < w.mig \/ (v.mig = w.mig /\ v.kind = "settings")

\* A plan binds everything that was looked at: links, ledger, files, and the
\* journal that it would replace.
observeFresh(target, reason) ==
    [pair |-> Pair(links.active, links.previous, target),
     ledger |-> ledger, settings |-> settings, reason |-> reason,
     journal |-> IF reason = "new" THEN 0 ELSE journal.txn]

\* What an unfinished journal meets: a file that was edited before its step
\* took it, and a file that is neither what the step expects nor what it wants.
StepStale(s) == s.kind = "settings" /\ Planned(s.mig) /\ settings[s.mig] # s.expected
StepForeign(s) == s.kind = "settings" /\ ~Planned(s.mig) /\ settings[s.mig] # "new"

Journaled == {journal.steps[i] : i \in DOMAIN journal.steps}
PlanStale == \E s \in Journaled : StepStale(s)
MigrationStale == \E s \in Journaled : StepForeign(s)

\* An edited file blocks its journal for good.
FaultReplace == FALSE

canReplacePreActivationJournal ==
    /\ PlanStale /\ ~MigrationStale
    /\ BeforeActivation /\ initialReleaseLinks(Pairs)

\* A newer release may take over an unfinished update, but not a rollback.
newerReleaseReplacement(r) ==
    r > Pairs.target /\ Pairs.target >= Pairs.from /\ journalLinksAllowed

\* ParseLedgerV2 against the registry of r, which knows its own migrations only; a
\* rollback to a release without a registry asks the migrations instead.
acceptsLedger(r) == ledger <= Epoch[r] \/ r \in Compatible

\* The plans that a caller with release r may be offered now.
observe(r) ==
    IF ~acceptsLedger(r) THEN {}
    ELSE IF ~Unfinished THEN {observeFresh(r, "new")}
    ELSE IF r = Pairs.target
    THEN IF canReplacePreActivationJournal THEN {observeFresh(r, "stale")}
         ELSE IF PlanStale \/ MigrationStale \/ ~journalLinksAllowed THEN {}
         ELSE {[journal.plan EXCEPT !.reason = "resume", !.journal = journal.txn]}
    ELSE IF newerReleaseReplacement(r) THEN {observeFresh(r, "newer")}
    ELSE {}

\* Nothing to do: the release is active, migrated and reconciled.
FixedPoint(p) ==
    /\ p.reason = "new" /\ p.pair.from = p.pair.target
    /\ WorkOf(p) = {} /\ \A k \in Parts : Converged(k)

\* Forward to any release, or back to the one before.
Reachable(r) ==
    \/ Unfinished
    \/ r >= links.active
    \/ r = links.previous

-----------------------------------------------------------------------------
(* A caller up to the lock.                                                *)

Goto(p, to) == pc' = [pc EXCEPT ![p] = to]
Give(p) == lock' = lock \ {p} /\ plan' = [plan EXCEPT ![p] = NoPlan] /\ Goto(p, "idle")
Move(p, from, to) == pc[p] = from /\ Goto(p, to)

\* The operator confirms a fresh plan; a resumed one was confirmed before.
Inspect(p) ==
    /\ Move(p, "idle", "preflight")
    /\ \E r \in Releases : \E new \in observe(r) :
          /\ Reachable(r) /\ ~FixedPoint(new)
          /\ new.reason \in {"resume", "stale"} \/ txns < MaxTxns
          /\ plan' = [plan EXCEPT ![p] = new]
          /\ txns' = IF new.reason \in {"new", "newer"} THEN txns + 1 ELSE txns
    /\ UNCHANGED <<durable, lock, unseen, deaths, edits, drifts>>

Holds(p) == plan[p] \in observe(plan[p].pair.target)

\* A look without the lock refuses a plan that no longer holds.
preflightConverge(p) ==
    /\ pc[p] = "preflight"
    /\ IF Holds(p) THEN Goto(p, "lock") /\ UNCHANGED <<lock, plan>> ELSE Give(p)
    /\ UNCHANGED <<durable, ghosts>>

Lock(p) ==
    /\ Move(p, "lock", "admit") /\ lock = {}
    /\ lock' = {p}
    /\ UNCHANGED <<durable, plan, ghosts>>

\* The journal that is given up is overwritten at once.
FaultEntry == [resume |-> "guard", newer |-> "publish", new |-> "publish", stale |-> "publish"]

\* Where a plan begins under the lock.
Entry == [resume |-> "guard", newer |-> "preserve", new |-> "publish", stale |-> "publish"]

\* The plan that was looked at without the lock is believed.
FaultAdmit(p) ==
    /\ pc[p] = "admit"
    /\ Goto(p, Entry[plan[p].reason])
    /\ UNCHANGED <<durable, lock, plan, ghosts>>

\* Everything is looked at again under the lock.
Admit(p) ==
    /\ pc[p] = "admit"
    /\ IF ~Holds(p) THEN Give(p)
       ELSE Goto(p, Entry[plan[p].reason]) /\ UNCHANGED <<lock, plan>>
    /\ UNCHANGED <<durable, ghosts>>

-----------------------------------------------------------------------------
(* Converge, under the lock.                                               *)

JournalOnly == UNCHANGED <<links, stagedLink, settings, staged, ledger, records, replaced, runtime>>

\* The journal of the release that is given up is copied before it is overwritten.
PreserveReplacedJournal(p) ==
    /\ Move(p, "preserve", "publish")
    /\ replaced' = replaced \cup {journal}
    /\ UNCHANGED <<links, stagedLink, settings, staged, ledger, journal, records, runtime,
                   lock, plan, ghosts>>

\* A step expects what the plan has seen.
JournalStep(facts, work) ==
    [kind |-> work.kind, mig |-> work.mig, cp |-> "intent",
     expected |-> IF work.kind = "settings" THEN facts.settings[work.mig] ELSE "before"]

newJournal(p) ==
    [txn |-> journal.txn + 1, cp |-> "authorized", plan |-> plan[p],
     steps |-> [w \in WorkOf(plan[p]) |-> JournalStep(plan[p], w)]]

PublishJournal(p) ==
    /\ Move(p, "publish", "guard")
    /\ journal' = newJournal(p)
    /\ JournalOnly /\ UNCHANGED <<lock, plan, ghosts>>

guardJournalLinks(p) ==
    /\ pc[p] = "guard"
    /\ IF journalLinksAllowed THEN Goto(p, "steps") /\ UNCHANGED <<lock, plan>> ELSE Give(p)
    /\ UNCHANGED <<durable, ghosts>>

\* A step whose evidence is there counts as done.
FaultOpen == {i \in DOMAIN journal.steps : journal.steps[i].cp = "intent"}

\* The first step that is not verified.
Open == {i \in DOMAIN journal.steps : journal.steps[i].cp # "verified"}
Current == CHOOSE i \in Open : \A j \in Open : j = i \/ Before(i, j)
Step == journal.steps[Current]
File(what) == [txn |-> journal.txn, step |-> Current, what |-> what]

\* Any file that could be migrated is taken for the one that was seen.
FaultAtExpected(s) == IF s.kind = "ledger" THEN ledger = s.mig - 1 ELSE Planned(s.mig)

\* workFingerprint, against what the step expects and what it wants.
AtExpected(s) == IF s.kind = "ledger" THEN ledger = s.mig - 1 ELSE settings[s.mig] = s.expected
AtDesired(s) == IF s.kind = "ledger" THEN ledger = s.mig ELSE settings[s.mig] = "new"

AtStep(p, cp) == pc[p] = "steps" /\ \E i \in Open : i = Current /\ journal.steps[i].cp = cp

CreateFile(p, what, to) ==
    /\ records' = records \cup {File(what)}
    /\ Goto(p, to)
    /\ UNCHANGED <<links, stagedLink, settings, staged, ledger, journal, replaced, runtime,
                   lock, plan, ghosts>>

\* persistJournal with a step moved to its next checkpoint.
SaveStep(p, cp) ==
    /\ journal' = [journal EXCEPT !.steps[Current].cp = cp,
                                  !.cp = IF @ = "authorized" THEN "migrating" ELSE @]
    /\ Goto(p, "steps")
    /\ JournalOnly /\ UNCHANGED <<lock, plan, ghosts>>

\* What a file held before is written down first, then the captured evidence.
ensureRecovery(p) ==
    /\ AtStep(p, "intent")
    /\ IF Step.kind = "settings" THEN CreateFile(p, "recovery", "capture")
       ELSE Goto(p, "capture") /\ UNCHANGED <<durable, lock, plan, ghosts>>

\* The journal says that the evidence is there before it is.
FaultCapture(p) == pc[p] = "capture" /\ SaveStep(p, "evidence")

CaptureEvidence(p) == pc[p] = "capture" /\ CreateFile(p, "captured", "journal-evidence")

JournalEvidence(p) == pc[p] = "journal-evidence" /\ SaveStep(p, "evidence")

\* The file or the ledger changed in the meantime: nothing is written, and the
\* look that follows ends the call.  A file that was staged by a call that died
\* is taken over only if it is what this step would write.
StageSettings(p) ==
    /\ AtStep(p, "evidence") /\ Step.kind = "settings" /\ AtExpected(Step)
    /\ IF staged[Step.mig] \in {"none", Step.expected}
       THEN staged' = [staged EXCEPT ![Step.mig] = Step.expected] /\ Goto(p, "compare")
       ELSE UNCHANGED staged /\ Goto(p, "applied")
    /\ UNCHANGED <<links, stagedLink, settings, ledger, journal, records, replaced, runtime,
                   lock, plan, ghosts>>

\* The file is read again once the new one is complete.
CompareSettings(p) ==
    /\ pc[p] = "compare"
    /\ IF AtExpected(Step) THEN Goto(p, "rename") /\ unseen' = unseen \ {Step.mig}
       ELSE Goto(p, "applied") /\ UNCHANGED unseen
    /\ UNCHANGED <<durable, lock, plan, txns, deaths, edits, drifts>>

\* The rename does not look: it replaces whatever is there by now.
RenameSettings(p) ==
    /\ Move(p, "rename", "applied")
    /\ settings' = [settings EXCEPT ![Step.mig] = "new"]
    /\ staged' = [staged EXCEPT ![Step.mig] = "none"]
    /\ UNCHANGED <<links, stagedLink, ledger, journal, records, replaced, runtime, lock, plan,
                   ghosts>>

SwapLedger(p) ==
    /\ AtStep(p, "evidence") /\ Step.kind = "ledger" /\ AtExpected(Step)
    /\ ledger' = Step.mig /\ Goto(p, "applied")
    /\ UNCHANGED <<links, stagedLink, settings, staged, journal, records, replaced, runtime,
                   lock, plan, ghosts>>

\* The step was applied by a call that died.
AlreadyApplied(p) ==
    /\ AtStep(p, "evidence") /\ ~AtExpected(Step)
    /\ Goto(p, "applied") /\ UNCHANGED <<durable, lock, plan, ghosts>>

ObserveApplied(p) ==
    /\ pc[p] = "applied"
    /\ IF AtDesired(Step) THEN CreateFile(p, "applied", "journal-applied")
       ELSE Give(p) /\ UNCHANGED <<durable, ghosts>>

JournalApplied(p) == pc[p] = "journal-applied" /\ SaveStep(p, "applied")

VerifyStep(p) ==
    /\ AtStep(p, "applied")
    /\ IF AtDesired(Step) THEN CreateFile(p, "verified", "journal-verified")
       ELSE Give(p) /\ UNCHANGED <<durable, ghosts>>

JournalVerified(p) == pc[p] = "journal-verified" /\ SaveStep(p, "verified")

-----------------------------------------------------------------------------
(* Activation and reconciliation.                                          *)

SaveCheckpoint(p, cp, to) ==
    /\ journal' = [journal EXCEPT !.cp = cp]
    /\ Goto(p, to)
    /\ JournalOnly /\ UNCHANGED <<lock, plan, ghosts>>

Ready(p) == pc[p] = "steps" /\ Open = {}

\* Nothing to exchange when the release is active already.
SkipActivation(p) ==
    /\ Ready(p) /\ BeforeActivation /\ Pairs.from = Pairs.target
    /\ SaveCheckpoint(p, "target-active", "steps")

IntendActivation(p) ==
    /\ Ready(p) /\ BeforeActivation /\ Pairs.from # Pairs.target
    /\ IF initialReleaseLinks(Pairs) THEN SaveCheckpoint(p, "activation-intent", "steps")
       ELSE Give(p) /\ UNCHANGED <<durable, ghosts>>

Activating(p) == Ready(p) /\ journal.cp = "activation-intent"

LinksOnly == UNCHANGED <<settings, staged, ledger, journal, records, replaced, runtime, lock,
                         plan, ghosts>>

\* RuntimeLinkStore.Activate: the target waits in previous, and one exchange
\* makes it current.  Backwards it waits there already.
StageLink(p) ==
    /\ Activating(p) /\ initialReleaseLinks(Pairs) /\ Pairs.target # Pairs.previous
    /\ IF stagedLink \in {0, Pairs.target}
       THEN stagedLink' = Pairs.target /\ Goto(p, "stage-link") /\ UNCHANGED links /\ LinksOnly
       ELSE Give(p) /\ UNCHANGED <<durable, ghosts>>

RenameLink(p) ==
    /\ Move(p, "stage-link", "steps")
    /\ links' = [links EXCEPT !.previous = Pairs.target] /\ stagedLink' = 0
    /\ LinksOnly

ExchangeLinks(p) ==
    /\ Activating(p) /\ stagedLinks(Pairs)
    /\ links' = [active |-> links.previous, previous |-> links.active]
    /\ Goto(p, "activated") /\ UNCHANGED stagedLink /\ LinksOnly

AlreadyActivated(p) ==
    /\ Activating(p) /\ activatedReleaseLinks(Pairs)
    /\ Goto(p, "activated") /\ UNCHANGED <<durable, lock, plan, ghosts>>

TargetActive(p) == pc[p] = "activated" /\ SaveCheckpoint(p, "target-active", "steps")

BeginReconciling(p) ==
    Ready(p) /\ journal.cp = "target-active" /\ SaveCheckpoint(p, "reconciling", "steps")

Reconciling(p) == Ready(p) /\ journal.cp = "reconciling"

\* reconcileActivation takes the parts in turn and looks at all of them at the end.
Reconcile(p) ==
    /\ Reconciling(p)
    /\ IF ~journalLinksAllowed THEN Give(p) /\ UNCHANGED <<durable, ghosts>>
       ELSE \E k \in Parts :
               /\ ~Converged(k) /\ \A j \in Parts : j < k => Converged(j)
               /\ runtime' = [runtime EXCEPT ![k] = links.active]
               /\ UNCHANGED <<links, stagedLink, settings, staged, ledger, journal, records,
                              replaced, pc, lock, plan, ghosts>>

CompleteJournal(p) ==
    /\ Reconciling(p) /\ \A k \in Parts : Converged(k)
    /\ SaveCheckpoint(p, "complete", "steps")

\* evaluateTerminal and what follows it.
Finish(p) ==
    /\ Ready(p) /\ ~Unfinished
    /\ Give(p) /\ UNCHANGED <<durable, ghosts>>

-----------------------------------------------------------------------------
(* The rest of the world.                                                  *)

\* The caller dies or a call of it fails; the lock goes with the process.  What it
\* was preparing stays behind, a file perhaps written in part only.
Die(p) ==
    /\ pc[p] # "idle" /\ deaths < MaxDeaths
    /\ deaths' = deaths + 1
    /\ \/ UNCHANGED staged
       \/ pc[p] = "compare" /\ staged' = [staged EXCEPT ![Step.mig] = "torn"]
    /\ Give(p)
    /\ UNCHANGED <<links, stagedLink, settings, ledger, journal, records, replaced, runtime,
                   unseen, txns, edits, drifts>>

\* The operator edits a file, at any time: an editor does not take the lock of
\* the directory.  An edited new file is put back sooner or later.
Edit(m) ==
    /\ edits < MaxEdits /\ edits' = edits + 1 /\ unseen' = unseen \cup {m}
    /\ \/ settings[m] = "old" /\ settings' = [settings EXCEPT ![m] = "old2"]
       \/ settings[m] = "new" /\ settings' = [settings EXCEPT ![m] = "foreign"]
    /\ UNCHANGED <<links, stagedLink, staged, ledger, journal, records, replaced, runtime,
                   lock, pc, plan, txns, deaths, drifts>>

Restore(m) ==
    /\ settings[m] = "foreign" /\ settings' = [settings EXCEPT ![m] = "new"]
    /\ unseen' = unseen \cup {m}
    /\ UNCHANGED <<links, stagedLink, staged, ledger, journal, records, replaced, runtime,
                   lock, pc, plan, txns, deaths, edits, drifts>>

Drift(k) ==
    /\ drifts < MaxDrifts /\ drifts' = drifts + 1
    /\ runtime' = [runtime EXCEPT ![k] = 0]
    /\ UNCHANGED <<links, stagedLink, settings, staged, ledger, journal, records, replaced,
                   lock, pc, plan, unseen, txns, deaths, edits>>

Converge(p) ==
    \/ preflightConverge(p) \/ Lock(p) \/ Admit(p)
    \/ PreserveReplacedJournal(p) \/ PublishJournal(p) \/ guardJournalLinks(p)
    \/ ensureRecovery(p) \/ CaptureEvidence(p) \/ JournalEvidence(p)
    \/ StageSettings(p) \/ CompareSettings(p) \/ RenameSettings(p) \/ SwapLedger(p)
    \/ AlreadyApplied(p)
    \/ ObserveApplied(p) \/ JournalApplied(p) \/ VerifyStep(p) \/ JournalVerified(p)
    \/ SkipActivation(p) \/ IntendActivation(p) \/ StageLink(p) \/ RenameLink(p)
    \/ ExchangeLinks(p) \/ AlreadyActivated(p) \/ TargetActive(p) \/ BeginReconciling(p)
    \/ Reconcile(p) \/ CompleteJournal(p) \/ Finish(p)

Next ==
    \/ \E p \in Callers : Inspect(p) \/ Converge(p) \/ Die(p)
    \/ \E m \in Migrations : Edit(m) \/ Restore(m)
    \/ \E k \in Parts : Drift(k)

Spec == Init /\ [][Next]_vars

\* A caller that runs goes on as long as the lock is not in its way, the operator
\* runs the update again while it is unfinished, and puts back what blocks it.  The
\* lock need not be fair.
FairSpec ==
    /\ Spec
    /\ \A p \in Callers :
          WF_vars(Converge(p)) /\ WF_vars(Inspect(p) /\ Unfinished)
    /\ \A m \in Migrations : WF_vars(Restore(m))

-----------------------------------------------------------------------------
(* Properties.                                                             *)

\* Wherever a caller died, and whichever release takes over, the links are among
\* those that the checkpoint of the unfinished journal allows: the next call can
\* tell where the activation stands (journalLinksAllowed, Activate).
LinksMatchJournal == Unfinished => journalLinksAllowed

\* No release is active on a ledger that it does not expect, after any crash,
\* replacement or rollback: the ledger has reached the migrations of the active
\* release, and once the update is finished it has not gone beyond them, unless the
\* migrations vouch for that release.
ActiveIsMigrated ==
    /\ ledger >= Epoch[links.active]
    /\ Unfinished \/ links.active \in Compatible \/ ledger = Epoch[links.active]

\* The journal never claims more than the disk holds: behind every step that is
\* past its intent there are the evidence and, for a file, its recovery record.
EvidenceSupportsJournal ==
    Unfinished =>
      \A i \in DOMAIN journal.steps :
         LET s == journal.steps[i]
             has(what) == [txn |-> journal.txn, step |-> i, what |-> what] \in records
         IN /\ s.cp # "intent" => has("captured") /\ (s.kind = "settings" => has("recovery"))
            /\ s.cp \in {"applied", "verified"} => has("applied")
            /\ s.cp = "verified" => has("verified")

\* A file is rewritten only in the state in which the operator saw it when the
\* plan was confirmed, however long ago that was and whoever resumes it.  The one
\* edit that a migration may destroy is made after the last comparison with the
\* plan and before the rename (compareAndSwapPersistentFileAt): there the code
\* does not look again, and editors do not take its lock.
ConsentCoversEffects ==
    [][\A m \in Migrations :
          settings'[m] = "new" /\ Planned(m) =>
             Unfinished /\ (journal.plan.settings[m] = settings[m] \/ m \in unseen)]_vars

\* An unfinished journal that a newer release takes over is kept as it was.
ReplacedJournalKept ==
    [][Unfinished /\ journal'.txn # journal.txn /\ journal'.plan.reason = "newer"
         => journal \in replaced]_vars

\* Something that was prepared for another plan, or in part, is in the way.
Blocked ==
    \/ stagedLink \notin {0, Pairs.target}
    \/ \E s \in Journaled : s.kind = "settings" /\ staged[s.mig] \notin {"none", s.expected}

\* An unfinished update is finished in the end, by the same release or by a
\* newer one, wherever calls died and whatever was edited meanwhile, unless
\* something that a dead call prepared is in the way.
SettlesUnlessBlocked == Unfinished ~> (~Unfinished \/ Blocked)

\* An unfinished update is finished in the end by running the update again, or
\* a newer release (docs/control-plane.md).
UnfinishedSettles == Unfinished ~> ~Unfinished
=============================================================================
