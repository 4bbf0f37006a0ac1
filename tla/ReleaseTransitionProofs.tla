---------------------- MODULE ReleaseTransitionProofs ----------------------
(***************************************************************************)
(* Crash safety of the release transition, for any callers, releases,      *)
(* migrations and bounds.                                                  *)
(*                                                                         *)
(* The argument: only the caller that has the update lock changes the      *)
(* journal and the links, so what it has just looked at stays true until   *)
(* it writes (Facts); and every durable write leaves a state from which    *)
(* the next caller can go on (Global), whether the writer lives or dies.   *)
(***************************************************************************)
EXTENDS ReleaseTransition, TLAPS

Stepping == {"capture", "journal-evidence", "compare", "rename", "applied",
             "journal-applied", "journal-verified"}
Locked == Stepping \cup {"admit", "preserve", "publish", "guard", "steps", "stage-link",
                         "activated"}
Pcs == Locked \cup {"idle", "preflight", "lock"}
Checkpoints == {"authorized", "migrating", "activation-intent", "target-active",
                "reconciling", "complete"}

\* Plans, links and journals are records.
IsPlan(x) ==
    /\ x = [pair |-> x.pair, ledger |-> x.ledger, settings |-> x.settings,
            reason |-> x.reason, journal |-> x.journal]
    /\ x.pair = Pair(x.pair.from, x.pair.previous, x.pair.target)

IsStep(x) == x = [kind |-> x.kind, mig |-> x.mig, cp |-> x.cp, expected |-> x.expected]

\* The forms of the files.
Files == [Migrations -> {"old", "old2", "new", "foreign"}]

Shapes ==
    /\ links = [active |-> links.active, previous |-> links.previous]
    /\ journal = [txn |-> journal.txn, cp |-> journal.cp, plan |-> journal.plan,
                  steps |-> journal.steps]
    /\ journal.cp \in Checkpoints
    /\ Unfinished => IsPlan(journal.plan)
    /\ journal.steps = [i \in DOMAIN journal.steps |-> journal.steps[i]]
    /\ \A i \in DOMAIN journal.steps : IsStep(journal.steps[i])
    /\ settings \in Files

\* What a step expects is what the operator saw.
ExpectedWasSeen ==
    \A i \in DOMAIN journal.steps :
       journal.steps[i].kind = "settings" =>
          journal.steps[i].expected = journal.plan.settings[journal.steps[i].mig]

\* Activation begins when every step is verified, and only where there is
\* something to activate.
ActivationIsLast ==
    /\ BeforeActivation \/ Open = {}
    /\ journal.cp = "activation-intent" => Pairs.from # Pairs.target

\* EvidenceSupportsJournal, for finished journals too.
Has(i, what) == [txn |-> journal.txn, step |-> i, what |-> what] \in records
Evidence ==
    \A i \in DOMAIN journal.steps :
       LET s == journal.steps[i]
       IN /\ s.cp # "intent" => Has(i, "captured") /\ (s.kind = "settings" => Has(i, "recovery"))
          /\ s.cp \in {"applied", "verified"} => Has(i, "applied")
          /\ s.cp = "verified" => Has(i, "verified")

Global == Shapes /\ ExpectedWasSeen /\ ActivationIsLast /\ Evidence /\ LinksMatchJournal

\* What a caller relies on between a look and the write that follows.
PlanFacts(p) ==
    /\ pc[p] \in {"preserve", "publish"} => IsPlan(plan[p]) /\ initialReleaseLinks(plan[p].pair)
    /\ pc[p] = "publish" /\ plan[p].reason = "newer" => journal \in replaced

\* What was compared is still there, or was edited since.
Compared(s) == \A m \in Migrations : m = s.mig => settings[m] = s.expected \/ m \in unseen

StepFacts(p) ==
    /\ pc[p] \in Stepping => Current \in Open
    /\ pc[p] \in {"capture", "journal-evidence"} =>
          Step.cp = "intent" /\ (Step.kind = "settings" => Has(Current, "recovery"))
    /\ pc[p] = "journal-evidence" => Has(Current, "captured")
    /\ pc[p] \in {"compare", "rename", "applied", "journal-applied"} => Step.cp = "evidence"
    /\ pc[p] \in {"compare", "rename"} => Step.kind = "settings"
    /\ pc[p] = "rename" => Compared(Step)
    /\ pc[p] = "journal-applied" => Has(Current, "applied")
    /\ pc[p] = "journal-verified" => Step.cp = "applied" /\ Has(Current, "verified")

LinkFacts(p) ==
    /\ pc[p] = "stage-link" => journal.cp = "activation-intent" /\ initialReleaseLinks(Pairs)
    /\ pc[p] = "activated" => journal.cp = "activation-intent" /\ activatedReleaseLinks(Pairs)

Facts(p) == PlanFacts(p) /\ StepFacts(p) /\ LinkFacts(p)

Exclusion ==
    /\ pc \in [Callers -> Pcs] /\ plan = [p \in Callers |-> plan[p]]
    /\ \A p \in Callers : pc[p] \in Locked => p \in lock
    /\ \A p, q \in lock : p = q

TransitionInv == Exclusion /\ Global /\ \A p \in Callers : Facts(p)

-----------------------------------------------------------------------------
(* How callers move.                                                       *)

\* Nothing is known of a caller without the lock.
LEMMA NoFacts ==
  ASSUME NEW p \in Callers
  PROVE  /\ pc[p] \notin Locked => Facts(p)
         /\ pc'[p] \notin Locked => Facts(p)'
BY DEF Facts, PlanFacts, StepFacts, LinkFacts, Locked, Stepping

\* The caller that has the lock goes on or gives up; no other has it.
Moved(p) ==
    \/ \E to \in Pcs : Goto(p, to) /\ UNCHANGED <<lock, plan>>
    \/ Give(p)

LEMMA LockedMove ==
  ASSUME TransitionInv, NEW p \in Callers, pc[p] \in Locked, Moved(p), Global', Facts(p)'
  PROVE  TransitionInv'
<1>1. \A q \in Callers : q # p => pc[q] \notin Locked /\ pc'[q] = pc[q] /\ plan'[q] = plan[q]
  BY DEF TransitionInv, Exclusion, Moved, Goto, Give
<1>2. \A q \in Callers : Facts(q)'
  <2> TAKE q \in Callers
  <2>1. CASE q = p BY <2>1
  <2>2. CASE q # p BY <2>2, <1>1, NoFacts
  <2> QED BY <2>1, <2>2
<1>3. Exclusion'
  <2>1. CASE \E to \in Pcs : Goto(p, to) /\ UNCHANGED <<lock, plan>>
    BY <1>1, <2>1 DEF TransitionInv, Exclusion, Goto
  <2>2. CASE Give(p)
    <3>1. "idle" \in Pcs /\ "idle" \notin Locked
      BY DEF Pcs, Locked, Stepping
    <3> QED BY <1>1, <2>2, <3>1 DEF TransitionInv, Exclusion, Give, Goto
  <2> QED BY <2>1, <2>2 DEF Moved
<1> QED BY <1>2, <1>3 DEF TransitionInv

\* A caller without the lock leaves everything else as it is.
LEMMA UnlockedMove ==
  ASSUME TransitionInv, NEW p \in Callers, NEW to \in Pcs \ Locked,
         Goto(p, to), plan' = [plan EXCEPT ![p] = plan'[p]],
         lock' = lock \/ lock' = lock \ {p}, Global',
         UNCHANGED <<journal, links, records, replaced, settings, unseen>>
  PROVE  TransitionInv'
<1>1. \A q \in Callers : q # p => pc'[q] = pc[q] /\ plan'[q] = plan[q]
  BY DEF TransitionInv, Exclusion, Goto
<1>2. pc'[p] = to
  BY DEF TransitionInv, Exclusion, Goto
<1>3. \A q \in Callers : Facts(q)'
  <2> TAKE q \in Callers
  <2>1. CASE q = p BY <2>1, <1>2, NoFacts
  <2>2. CASE q # p
    <3>1. Facts(q) BY DEF TransitionInv
    <3>2. Open' = Open /\ Current' = Current /\ Step' = Step
      BY DEF Open, Current, Step
    <3> QED BY <1>1, <2>2, <3>1, <3>2
            DEF Facts, PlanFacts, StepFacts, Compared, LinkFacts, Has, initialReleaseLinks,
                activatedReleaseLinks, IsPlan, Pair, Pairs
  <2> QED BY <2>1, <2>2
<1>4. Exclusion'
  BY <1>1, <1>2 DEF TransitionInv, Exclusion, Goto
<1> QED BY <1>3, <1>4 DEF TransitionInv

\* Global speaks of the journal, the links, the records and the form of the files.
LEMMA GlobalKept ==
  ASSUME Global, UNCHANGED <<journal, links>>, records \subseteq records',
         settings' \in Files
  PROVE  Global'
<1>1. Shapes'
  BY DEF Global, Shapes, IsPlan, IsStep, Pair, Unfinished
<1>2. Open' = Open
  BY DEF Open
<1>3. ExpectedWasSeen' /\ ActivationIsLast'
  BY <1>2 DEF Global, ExpectedWasSeen, ActivationIsLast, BeforeActivation, Pairs
<1>4. Evidence'
  BY DEF Global, Evidence, Has
<1>5. LinksMatchJournal'
  BY DEF Global, LinksMatchJournal, journalLinksAllowed, initialReleaseLinks, stagedLinks,
         activatedReleaseLinks, BeforeActivation, Unfinished, Pairs
<1> QED BY <1>1, <1>3, <1>4, <1>5 DEF Global

\* The first state: a finished journal without steps.
LEMMA TransitionInit == Init => TransitionInv
<1> SUFFICES ASSUME Init PROVE TransitionInv
    OBVIOUS
<1>1. journal = NoJournal /\ journal.cp = "complete" /\ journal.steps = << >>
      /\ DOMAIN journal.steps = {}
  BY DEF Init, NoJournal
<1>2. Open = {}
  BY <1>1 DEF Open
<1>3. Shapes
  BY <1>1 DEF Init, NoJournal, Shapes, Files, Checkpoints, Unfinished
<1>4. Global
  BY <1>1, <1>2, <1>3
     DEF Global, ExpectedWasSeen, ActivationIsLast, Evidence, LinksMatchJournal, Unfinished
<1>5. \A p \in Callers : pc[p] = "idle"
  BY DEF Init
<1>6. Exclusion
  BY <1>5 DEF Init, Exclusion, Pcs, Locked, Stepping
<1>7. \A p \in Callers : Facts(p)
  BY <1>5, NoFacts DEF Locked, Stepping
<1> QED BY <1>4, <1>6, <1>7 DEF TransitionInv

\* A call that ends early gives the lock back and leaves the rest.
LEMMA GiveUp ==
  ASSUME TransitionInv, NEW p \in Callers, pc[p] \in Locked, Give(p), UNCHANGED durable
  PROVE  TransitionInv'
<1>1. Global'
  <2>1. settings' \in Files
    BY DEF TransitionInv, Global, Shapes, durable
  <2> QED BY <2>1, GlobalKept DEF TransitionInv, durable
<1>2. pc'[p] = "idle" /\ "idle" \notin Locked
  BY DEF TransitionInv, Exclusion, Give, Goto, Locked, Stepping
<1>3. Facts(p)'
  BY <1>2, NoFacts
<1> QED BY <1>1, <1>3, LockedMove DEF Moved

\* A call that goes on without a change of the journal or the links.
LEMMA GoOn ==
  ASSUME TransitionInv, NEW p \in Callers, pc[p] \in Locked, NEW to \in Locked,
         Goto(p, to), UNCHANGED <<lock, plan, journal, links>>, records \subseteq records',
         settings' \in Files, Facts(p)'
  PROVE  TransitionInv'
<1>1. Global'
  BY GlobalKept DEF TransitionInv
<1>2. to \in Pcs
  BY DEF Pcs
<1> QED BY <1>1, <1>2, LockedMove DEF Moved

\* What stays true while nobody writes the journal.
LEMMA SameJournal ==
  ASSUME UNCHANGED journal
  PROVE  Open' = Open /\ Current' = Current /\ Step' = Step
BY DEF Open, Current, Step

-----------------------------------------------------------------------------
(* Up to the lock, and the rest of the world.                              *)

\* An inspection, and a look that is refused or goes on to wait for the lock.
LEMMA LooksKeep ==
  ASSUME TransitionInv, NEW p \in Callers, Inspect(p) \/ preflightConverge(p)
  PROVE  TransitionInv'
<1>1. Global'
  <2>1. settings' \in Files
        /\ UNCHANGED <<journal, links, records>>
    BY DEF TransitionInv, Global, Shapes, durable, Inspect, preflightConverge
  <2> QED BY <2>1, GlobalKept DEF TransitionInv
<1>2. {"idle", "preflight", "lock"} \subseteq Pcs \ Locked
  BY DEF Pcs, Locked, Stepping
<1>3. CASE Inspect(p)
  <2>1. Goto(p, "preflight")
        /\ UNCHANGED <<lock, journal, links, records, replaced, settings, unseen>>
    BY <1>3 DEF Inspect, Move, durable
  <2>2. plan' = [plan EXCEPT ![p] = plan'[p]]
    BY <1>3 DEF Inspect, TransitionInv, Exclusion
  <2> QED BY <1>1, <1>2, <2>1, <2>2, UnlockedMove
<1>4. CASE preflightConverge(p)
  <2>1. UNCHANGED <<journal, links, records, replaced, settings, unseen>>
    BY <1>4 DEF preflightConverge, durable, ghosts
  <2>2. CASE Goto(p, "lock") /\ UNCHANGED <<lock, plan>>
    <3>1. plan' = [plan EXCEPT ![p] = plan'[p]]
      BY <2>2 DEF TransitionInv, Exclusion
    <3> QED BY <1>1, <1>2, <2>1, <2>2, <3>1, UnlockedMove
  <2>3. CASE Give(p)
    <3>1. plan' = [plan EXCEPT ![p] = plan'[p]]
      BY <2>3 DEF Give, TransitionInv, Exclusion
    <3> QED BY <1>1, <1>2, <2>1, <2>3, <3>1, UnlockedMove DEF Give
  <2> QED BY <1>4, <2>2, <2>3 DEF preflightConverge
<1> QED BY <1>3, <1>4

\* The lock is taken when nobody has it, and nothing is known yet.
LEMMA LockKeeps ==
  ASSUME TransitionInv, NEW p \in Callers, Lock(p)
  PROVE  TransitionInv'
<1>1. Global'
  <2>1. settings' \in Files
        /\ UNCHANGED <<journal, links, records>>
    BY DEF TransitionInv, Global, Shapes, durable, Lock
  <2> QED BY <2>1, GlobalKept DEF TransitionInv
<1>2. pc'[p] = "admit" /\ "admit" \in Pcs
  BY DEF Lock, Move, Goto, TransitionInv, Exclusion, Pcs, Locked
<1>3. \A q \in Callers : q # p => pc'[q] = pc[q] /\ pc[q] \notin Locked
  BY DEF Lock, Move, Goto, TransitionInv, Exclusion
<1>4. Facts(p)'
  BY <1>2 DEF Facts, PlanFacts, StepFacts, LinkFacts, Stepping
<1>5. \A q \in Callers : Facts(q)'
  <2> TAKE q \in Callers
  <2>1. CASE q = p BY <2>1, <1>4
  <2>2. CASE q # p BY <2>2, <1>3, NoFacts
  <2> QED BY <2>1, <2>2
<1>6. Exclusion'
  BY <1>2, <1>3 DEF Lock, Move, Goto, TransitionInv, Exclusion
<1> QED BY <1>1, <1>5, <1>6 DEF TransitionInv

\* A death is a move to idle, from wherever the caller was.
LEMMA DieKeeps ==
  ASSUME TransitionInv, NEW p \in Callers, Die(p)
  PROVE  TransitionInv'
<1>1. Global'
  <2>1. settings' \in Files
        /\ UNCHANGED <<journal, links, records>>
    BY DEF TransitionInv, Global, Shapes, Die
  <2> QED BY <2>1, GlobalKept DEF TransitionInv
<1>2. "idle" \in Pcs \ Locked
  BY DEF Pcs, Locked, Stepping
<1>3. plan' = [plan EXCEPT ![p] = plan'[p]]
  BY DEF Die, Give, TransitionInv, Exclusion
<1> QED BY <1>1, <1>2, <1>3, UnlockedMove DEF Die, Give

\* The operator and the running parts touch nothing that a caller relies on.
LEMMA WorldKeeps ==
  ASSUME TransitionInv,
         \/ \E m \in Migrations : Edit(m) \/ Restore(m)
         \/ \E k \in Parts : Drift(k)
  PROVE  TransitionInv'
<1>1. UNCHANGED <<journal, links, records, replaced, lock, pc, plan>>
  BY DEF Edit, Restore, Drift
<1>2. settings' \in Files
  <2>1. settings \in Files
    BY DEF TransitionInv, Global, Shapes
  <2> QED BY <2>1 DEF Files, Edit, Restore, Drift
<1>3. Global'
  BY <1>1, <1>2, GlobalKept DEF TransitionInv
<1>4. \A p \in Callers : Facts(p)'
  <2> TAKE p \in Callers
  <2>1. Facts(p) BY DEF TransitionInv
  <2>2. ASSUME NEW s, Compared(s) PROVE Compared(s)'
    <3>1. settings \in Files
      BY DEF TransitionInv, Global, Shapes
    <3> QED BY <2>2, <3>1 DEF Compared, Files, Edit, Restore, Drift
  <2>3. pc[p] = "rename" => Compared(Step)'
    <3> HAVE pc[p] = "rename"
    <3>1. Compared(Step)
      BY <2>1 DEF Facts, StepFacts
    <3>2. PICK s : s = Step OBVIOUS
    <3>3. Compared(s)'
      BY <2>2, <3>1, <3>2
    <3> QED BY <1>1, <3>2, <3>3, SameJournal DEF Compared
  <2> QED BY <1>1, <2>1, <2>3, SameJournal
          DEF Facts, PlanFacts, StepFacts, LinkFacts, Has, initialReleaseLinks,
              activatedReleaseLinks, IsPlan, Pair, Pairs
<1>5. Exclusion'
  BY <1>1 DEF TransitionInv, Exclusion
<1> QED BY <1>3, <1>4, <1>5 DEF TransitionInv

-----------------------------------------------------------------------------
(* Admission and the publication of a journal.                             *)

\* A plan that still holds under the lock describes the links as they are.
LEMMA FreshPlan ==
  ASSUME Global, NEW r, NEW reason
  PROVE  /\ IsPlan(observeFresh(r, reason))
         /\ initialReleaseLinks(observeFresh(r, reason).pair)
         /\ observeFresh(r, reason).reason = reason
BY DEF Global, Shapes, observeFresh, IsPlan, Pair, initialReleaseLinks

LEMMA AdmitKeeps ==
  ASSUME TransitionInv, NEW p \in Callers, Admit(p)
  PROVE  TransitionInv'
<1>1. pc[p] \in Locked /\ UNCHANGED durable
  BY DEF Admit, Locked
<1>2. CASE ~Holds(p)
  BY <1>1, <1>2, GiveUp DEF Admit
<1>3. CASE Holds(p)
  <2>1. Goto(p, Entry[plan[p].reason]) /\ UNCHANGED <<lock, plan>>
    BY <1>3 DEF Admit
  <2>2. UNCHANGED <<journal, links, records, replaced>> /\ settings' \in Files
    BY <1>1 DEF durable, TransitionInv, Global, Shapes
  <2>3. \/ \E r, why : why \in {"new", "stale", "newer"} /\ plan[p] = observeFresh(r, why)
        \/ Unfinished /\ plan[p] = [journal.plan EXCEPT !.reason = "resume", !.journal = journal.txn]
    BY <1>3 DEF Holds, observe
  <2>4. CASE \E r, why : why \in {"new", "stale", "newer"} /\ plan[p] = observeFresh(r, why)
    <3>1. /\ IsPlan(plan[p]) /\ initialReleaseLinks(plan[p].pair)
          /\ plan[p].reason \in {"new", "stale", "newer"}
      BY <2>4, FreshPlan DEF TransitionInv
    <3>2. Entry[plan[p].reason] = IF plan[p].reason = "newer" THEN "preserve" ELSE "publish"
      BY <3>1 DEF Entry
    <3>3. Entry[plan[p].reason] \in Locked
      BY <3>2 DEF Locked
    <3>4. pc'[p] = Entry[plan[p].reason]
      BY <2>1 DEF Goto, TransitionInv, Exclusion
    <3>5. Facts(p)'
      BY <2>1, <2>2, <3>1, <3>2, <3>4
         DEF Facts, PlanFacts, StepFacts, LinkFacts, Stepping, IsPlan, Pair, initialReleaseLinks
    <3> QED BY <1>1, <2>1, <2>2, <3>3, <3>5, GoOn
  <2>5. CASE Unfinished /\ plan[p] = [journal.plan EXCEPT !.reason = "resume", !.journal = journal.txn]
    <3>1. IsPlan(journal.plan)
      BY <2>5 DEF TransitionInv, Global, Shapes
    <3>2. plan[p].reason = "resume"
      BY <2>5, <3>1 DEF IsPlan
    <3>3. Entry[plan[p].reason] = "guard"
      BY <3>2 DEF Entry
    <3>4. pc'[p] = "guard" /\ "guard" \in Locked
      BY <2>1, <3>3 DEF Goto, TransitionInv, Exclusion, Locked
    <3>5. Facts(p)'
      BY <3>4 DEF Facts, PlanFacts, StepFacts, LinkFacts, Stepping
    <3> QED BY <1>1, <2>1, <2>2, <3>3, <3>4, <3>5, GoOn
  <2> QED BY <2>3, <2>4, <2>5
<1> QED BY <1>2, <1>3

LEMMA PreserveKeeps ==
  ASSUME TransitionInv, NEW p \in Callers, PreserveReplacedJournal(p)
  PROVE  TransitionInv'
<1>1. pc[p] = "preserve" /\ Goto(p, "publish") /\ {"preserve", "publish"} \subseteq Locked
  BY DEF PreserveReplacedJournal, Move, Locked
<1>2. UNCHANGED <<lock, plan, journal, links, records>> /\ settings' \in Files
  BY DEF PreserveReplacedJournal, TransitionInv, Global, Shapes
<1>3. pc'[p] = "publish"
  BY <1>1 DEF Goto, TransitionInv, Exclusion
<1>4. Facts(p)
  BY DEF TransitionInv
<1>5. journal \in replaced'
  BY DEF PreserveReplacedJournal
<1>6. Facts(p)'
  BY <1>1, <1>2, <1>3, <1>4, <1>5
     DEF Facts, PlanFacts, StepFacts, LinkFacts, Stepping, IsPlan, Pair, initialReleaseLinks
<1> QED BY <1>1, <1>2, <1>6, GoOn

\* A new journal intends every step and has the links that its plan saw.
LEMMA PublishKeeps ==
  ASSUME TransitionInv, NEW p \in Callers, PublishJournal(p)
  PROVE  TransitionInv'
<1>1. pc[p] = "publish" /\ Goto(p, "guard") /\ "publish" \in Locked /\ "guard" \in Pcs
  BY DEF PublishJournal, Move, Locked, Pcs
<1>2. journal' = newJournal(p) /\ UNCHANGED <<lock, plan, links, records, settings>>
  BY DEF PublishJournal, JournalOnly
<1>3. IsPlan(plan[p]) /\ initialReleaseLinks(plan[p].pair)
  BY <1>1 DEF TransitionInv, Facts, PlanFacts
<1>4. /\ journal'.cp = "authorized" /\ journal'.plan = plan[p]
      /\ journal' = [txn |-> journal'.txn, cp |-> journal'.cp, plan |-> journal'.plan,
                     steps |-> journal'.steps]
  BY <1>2 DEF newJournal
<1>5. journal'.steps = [w \in WorkOf(plan[p]) |-> JournalStep(plan[p], w)]
  BY <1>2 DEF newJournal
<1>6. DOMAIN journal'.steps = WorkOf(plan[p])
      /\ \A w \in WorkOf(plan[p]) : journal'.steps[w] = JournalStep(plan[p], w)
  BY <1>5
<1>7. \A w : LET s == JournalStep(plan[p], w)
            IN /\ IsStep(s) /\ s.cp = "intent"
               /\ s.kind = "settings" => s.expected = plan[p].settings[s.mig]
  BY DEF IsStep, JournalStep
<1>8. Shapes'
  BY <1>2, <1>3, <1>4, <1>5, <1>6, <1>7
     DEF TransitionInv, Global, Shapes, Checkpoints, Unfinished, IsPlan, IsStep, Pair
<1>9. ExpectedWasSeen'
  BY <1>4, <1>6, <1>7 DEF ExpectedWasSeen
<1>10. ActivationIsLast'
  BY <1>4 DEF ActivationIsLast, BeforeActivation
<1>11. Evidence'
  BY <1>6, <1>7 DEF Evidence
<1>12. LinksMatchJournal'
  BY <1>2, <1>3, <1>4
     DEF LinksMatchJournal, journalLinksAllowed, BeforeActivation, Pairs, initialReleaseLinks
<1>13. pc'[p] = "guard"
  BY <1>1 DEF Goto, TransitionInv, Exclusion
<1>14. Facts(p)'
  BY <1>13 DEF Facts, PlanFacts, StepFacts, LinkFacts, Stepping
<1> QED BY <1>1, <1>2, <1>8, <1>9, <1>10, <1>11, <1>12, <1>14, LockedMove DEF Moved, Global

LEMMA GuardKeeps ==
  ASSUME TransitionInv, NEW p \in Callers, guardJournalLinks(p)
  PROVE  TransitionInv'
<1>1. pc[p] \in Locked /\ "steps" \in Locked /\ UNCHANGED durable
  BY DEF guardJournalLinks, Locked
<1>2. CASE Give(p)
  BY <1>1, <1>2, GiveUp
<1>3. CASE Goto(p, "steps") /\ UNCHANGED <<lock, plan>>
  <2>1. UNCHANGED <<journal, links, records>> /\ settings' \in Files
    BY <1>1 DEF durable, TransitionInv, Global, Shapes
  <2>2. pc'[p] = "steps"
    BY <1>3 DEF Goto, TransitionInv, Exclusion
  <2>3. Facts(p)'
    BY <2>2 DEF Facts, PlanFacts, StepFacts, LinkFacts, Stepping
  <2> QED BY <1>1, <1>3, <2>1, <2>3, GoOn
<1> QED BY <1>2, <1>3 DEF guardJournalLinks
-----------------------------------------------------------------------------
(* The steps of a journal.                                                 *)

\* A record is made and the caller goes on to a place whose facts it supplies.
LEMMA Created ==
  ASSUME TransitionInv, NEW p \in Callers, pc[p] \in Locked, NEW to \in Stepping, NEW what,
         CreateFile(p, what, to), Current \in Open,
         to \in {"capture", "journal-evidence", "journal-applied", "journal-verified"},
         to \in {"capture", "journal-evidence"} => Step.cp = "intent",
         to = "capture" /\ Step.kind = "settings" => what = "recovery",
         to = "journal-evidence" =>
            what = "captured" /\ (Step.kind = "settings" => Has(Current, "recovery")),
         to = "journal-applied" => Step.cp = "evidence" /\ what = "applied",
         to = "journal-verified" => Step.cp = "applied" /\ what = "verified"
  PROVE  TransitionInv'
<1>1. UNCHANGED <<lock, plan, journal, links, settings>> /\ Goto(p, to) /\ to \in Locked
  BY DEF CreateFile, Locked
<1>2. records \subseteq records' /\ settings' \in Files
  BY DEF CreateFile, TransitionInv, Global, Shapes
<1>3. pc'[p] = to
  BY <1>1 DEF Goto, TransitionInv, Exclusion
<1>4. Open' = Open /\ Current' = Current /\ Step' = Step
  BY <1>1, SameJournal
<1>5. Has(Current, what)' /\ \A x : Has(Current, x) => Has(Current, x)'
  BY <1>1, <1>2, <1>4 DEF Has, CreateFile, File
<1>6. PlanFacts(p)' /\ LinkFacts(p)'
  BY <1>3 DEF PlanFacts, LinkFacts
<1>7. StepFacts(p)'
  BY <1>3, <1>4, <1>5 DEF StepFacts
<1> QED BY <1>1, <1>2, <1>6, <1>7, GoOn DEF Facts

\* A step moves on to a checkpoint that the records support.
LEMMA StepSaved ==
  ASSUME TransitionInv, NEW p \in Callers, pc[p] \in Stepping,
         NEW cp \in {"evidence", "applied", "verified"}, SaveStep(p, cp),
         Has(Current, "captured"), Step.kind = "settings" => Has(Current, "recovery"),
         cp \in {"applied", "verified"} => Has(Current, "applied"),
         cp = "verified" => Has(Current, "verified")
  PROVE  TransitionInv'
<1>1. pc[p] \in Locked /\ Goto(p, "steps") /\ "steps" \in Pcs
      /\ UNCHANGED <<lock, plan, links, settings, records>>
  BY DEF SaveStep, JournalOnly, Locked, Pcs
<1>2. Current \in Open /\ Current \in DOMAIN journal.steps
  BY DEF TransitionInv, Facts, StepFacts, Open
<1>3. BeforeActivation
  BY <1>2 DEF TransitionInv, Global, ActivationIsLast
<1> DEFINE steps == journal.steps
<1>4. /\ journal' = [txn |-> journal.txn, cp |-> "migrating", plan |-> journal.plan,
                     steps |-> [steps EXCEPT ![Current].cp = cp]]
  BY <1>3 DEF SaveStep, BeforeActivation, TransitionInv, Global, Shapes
<1>5. /\ DOMAIN journal'.steps = DOMAIN steps
      /\ journal'.steps = [i \in DOMAIN journal'.steps |-> journal'.steps[i]]
      /\ journal'.steps[Current] = [steps[Current] EXCEPT !.cp = cp]
      /\ \A i \in DOMAIN steps : i # Current => journal'.steps[i] = steps[i]
  BY <1>2, <1>4 DEF TransitionInv, Global, Shapes
<1>6. \A i \in DOMAIN steps : IsStep(steps[i])
  BY DEF TransitionInv, Global, Shapes
<1>7. /\ journal'.steps[Current].cp = cp
      /\ \A i \in DOMAIN steps : /\ journal'.steps[i].kind = steps[i].kind
                                 /\ journal'.steps[i].mig = steps[i].mig
                                 /\ journal'.steps[i].expected = steps[i].expected
                                 /\ IsStep(journal'.steps[i])
  <2>1. \A x : IsStep(x) => LET y == [x EXCEPT !.cp = cp] IN
           /\ y.cp = cp /\ y.kind = x.kind /\ y.mig = x.mig /\ y.expected = x.expected
           /\ IsStep(y)
    BY DEF IsStep
  <2>2. LET y == [steps[Current] EXCEPT !.cp = cp] IN
           /\ y.cp = cp /\ y.kind = steps[Current].kind /\ y.mig = steps[Current].mig
           /\ y.expected = steps[Current].expected /\ IsStep(y)
    BY <1>2, <1>6, <2>1
  <2> QED BY <1>2, <1>5, <1>6, <2>2
<1>8. /\ journal'.cp = "migrating" /\ journal'.plan = journal.plan /\ journal'.txn = journal.txn
      /\ journal' = [txn |-> journal'.txn, cp |-> journal'.cp, plan |-> journal'.plan,
                     steps |-> journal'.steps]
  BY <1>4
<1>9. Shapes'
  <2>1. IsPlan(journal.plan)
    BY <1>3 DEF TransitionInv, Global, Shapes, Unfinished, BeforeActivation
  <2>2. IsPlan(journal.plan)'
    BY <1>8, <2>1 DEF IsPlan, Pair
  <2>3. \A i \in DOMAIN journal'.steps : IsStep(journal.steps[i])'
    BY <1>5, <1>7 DEF IsStep
  <2> QED BY <1>1, <1>5, <1>8, <2>2, <2>3 DEF TransitionInv, Global, Shapes, Checkpoints
<1>10. ExpectedWasSeen'
  BY <1>5, <1>7, <1>8 DEF TransitionInv, Global, ExpectedWasSeen
<1>11. ActivationIsLast'
  BY <1>8 DEF ActivationIsLast, BeforeActivation
<1>12. Evidence'
  <2> SUFFICES ASSUME NEW i \in DOMAIN steps
               PROVE  LET s == journal'.steps[i] IN
                      /\ s.cp # "intent" => Has(i, "captured") /\ (s.kind = "settings" => Has(i, "recovery"))
                      /\ s.cp \in {"applied", "verified"} => Has(i, "applied")
                      /\ s.cp = "verified" => Has(i, "verified")
    BY <1>1, <1>5, <1>8 DEF Evidence, Has
  <2>1. CASE i = Current
    BY <1>2, <1>7, <2>1 DEF Step
  <2>2. CASE i # Current
    BY <1>5, <2>2 DEF TransitionInv, Global, Evidence
  <2> QED BY <2>1, <2>2
<1>13. LinksMatchJournal'
  <2>1. initialReleaseLinks(Pairs)
    BY <1>3 DEF TransitionInv, Global, LinksMatchJournal, journalLinksAllowed, Unfinished,
                BeforeActivation
  <2> QED BY <1>1, <1>8, <2>1
          DEF LinksMatchJournal, journalLinksAllowed, BeforeActivation, Pairs, initialReleaseLinks
<1>14. pc'[p] = "steps"
  BY <1>1 DEF Goto, TransitionInv, Exclusion
<1>15. Facts(p)'
  BY <1>14 DEF Facts, PlanFacts, StepFacts, LinkFacts, Stepping
<1> QED BY <1>1, <1>9, <1>10, <1>11, <1>12, <1>13, <1>15, LockedMove DEF Moved, Global
\* A step at a checkpoint is the current one, and it is open.
LEMMA AtCurrent ==
  ASSUME NEW p, NEW cp, AtStep(p, cp)
  PROVE  pc[p] = "steps" /\ Current \in Open /\ Step.cp = cp
BY DEF AtStep, Step

LEMMA RecordsKeep ==
  ASSUME TransitionInv, NEW p \in Callers, ensureRecovery(p) \/ CaptureEvidence(p)
  PROVE  TransitionInv'
<1>1. {"steps", "capture"} \subseteq Locked /\ {"capture", "journal-evidence"} \subseteq Stepping
  BY DEF Locked, Stepping
<1>2. CASE ensureRecovery(p)
  <2>1. pc[p] = "steps" /\ Current \in Open /\ Step.cp = "intent"
    BY <1>2, AtCurrent DEF ensureRecovery
  <2>2. CASE Step.kind = "settings"
    <3>1. CreateFile(p, "recovery", "capture")
      BY <1>2, <2>2 DEF ensureRecovery
    <3> QED BY <1>1, <2>1, <3>1, Created
  <2>3. CASE Step.kind # "settings"
    <3>1. Goto(p, "capture") /\ UNCHANGED <<durable, lock, plan>>
      BY <1>2, <2>3 DEF ensureRecovery
    <3>2. UNCHANGED <<lock, plan, journal, links, records>> /\ settings' \in Files
      BY <3>1 DEF durable, TransitionInv, Global, Shapes
    <3>3. pc'[p] = "capture"
      BY <3>1 DEF Goto, TransitionInv, Exclusion
    <3>4. Facts(p)'
      BY <2>1, <2>3, <3>2, <3>3, SameJournal DEF Facts, PlanFacts, StepFacts, LinkFacts
    <3> QED BY <1>1, <2>1, <3>1, <3>2, <3>4, GoOn DEF Locked
  <2> QED BY <2>2, <2>3
<1>3. CASE CaptureEvidence(p)
  <2>1. pc[p] = "capture" /\ CreateFile(p, "captured", "journal-evidence")
    BY <1>3 DEF CaptureEvidence
  <2>2. Current \in Open /\ Step.cp = "intent" /\ (Step.kind = "settings" => Has(Current, "recovery"))
    BY <1>1, <2>1 DEF TransitionInv, Facts, StepFacts
  <2> QED BY <1>1, <2>1, <2>2, Created
<1> QED BY <1>2, <1>3

\* What the journal says of the current step is on the disk.
LEMMA CurrentEvidence ==
  ASSUME TransitionInv, Current \in Open
  PROVE  /\ Step.cp # "intent" => /\ Has(Current, "captured")
                                  /\ Step.kind = "settings" => Has(Current, "recovery")
         /\ Step.cp = "applied" => Has(Current, "applied")
BY DEF TransitionInv, Global, Evidence, Open, Step

LEMMA SavesKeep ==
  ASSUME TransitionInv, NEW p \in Callers,
         JournalEvidence(p) \/ JournalApplied(p) \/ JournalVerified(p)
  PROVE  TransitionInv'
<1>1. {"journal-evidence", "journal-applied", "journal-verified"} \subseteq Stepping
  BY DEF Stepping
<1>2. StepFacts(p)
  BY DEF TransitionInv, Facts
<1>3. CASE JournalEvidence(p)
  <2>1. pc[p] = "journal-evidence" /\ SaveStep(p, "evidence")
    BY <1>3 DEF JournalEvidence
  <2> QED BY <1>1, <1>2, <2>1, StepSaved DEF StepFacts
<1>4. CASE JournalApplied(p)
  <2>1. pc[p] = "journal-applied" /\ SaveStep(p, "applied")
    BY <1>4 DEF JournalApplied
  <2>2. Current \in Open /\ Step.cp = "evidence" /\ Has(Current, "applied")
    BY <1>1, <1>2, <2>1 DEF StepFacts
  <2> QED BY <1>1, <2>1, <2>2, CurrentEvidence, StepSaved
<1>5. CASE JournalVerified(p)
  <2>1. pc[p] = "journal-verified" /\ SaveStep(p, "verified")
    BY <1>5 DEF JournalVerified
  <2>2. Current \in Open /\ Step.cp = "applied" /\ Has(Current, "verified")
    BY <1>1, <1>2, <2>1 DEF StepFacts
  <2> QED BY <1>1, <2>1, <2>2, CurrentEvidence, StepSaved
<1> QED BY <1>3, <1>4, <1>5

\* The effects change a file or the ledger, and nothing that the journal is about.
Effects(p) ==
    \/ StageSettings(p) \/ CompareSettings(p) \/ RenameSettings(p)
    \/ SwapLedger(p) \/ AlreadyApplied(p)

LEMMA EffectsKeep ==
  ASSUME TransitionInv, NEW p \in Callers, Effects(p)
  PROVE  TransitionInv'
<1> USE DEF Effects
<1>1. {"steps", "compare", "rename", "applied"} \subseteq Locked
  BY DEF Locked, Stepping
<1>2. UNCHANGED <<lock, plan, journal, links, records>>
  BY DEF StageSettings, CompareSettings, RenameSettings, SwapLedger, AlreadyApplied, durable
<1>3. settings' \in Files
  <2>1. settings \in Files
    BY DEF TransitionInv, Global, Shapes
  <2> QED BY <2>1 DEF StageSettings, CompareSettings, RenameSettings, SwapLedger,
                      AlreadyApplied, durable, Files
<1>4. StepFacts(p)
  BY DEF TransitionInv, Facts
<1>5. pc[p] \in {"steps", "compare", "rename"} /\ Current \in Open /\ Step.cp = "evidence"
  <2>1. CASE CompareSettings(p) \/ RenameSettings(p)
    BY <1>4, <2>1 DEF CompareSettings, RenameSettings, Move, StepFacts, Stepping
  <2> QED BY <2>1, AtCurrent DEF StageSettings, SwapLedger, AlreadyApplied
<1>6. PICK to \in {"compare", "rename", "applied"} :
         /\ Goto(p, to)
         /\ to # "applied" => Step.kind = "settings"
         /\ to = "rename" => UNCHANGED settings /\ settings[Step.mig] = Step.expected
  <2>1. CASE CompareSettings(p)
    <3>1. Step.kind = "settings"
      BY <1>4, <2>1 DEF CompareSettings, StepFacts
    <3> QED BY <2>1, <3>1 DEF CompareSettings, AtExpected, durable
  <2> QED BY <2>1 DEF StageSettings, RenameSettings, SwapLedger, AlreadyApplied, Move
<1>7. pc'[p] = to
  BY <1>6 DEF Goto, TransitionInv, Exclusion
<1>8. to = "rename" => Compared(Step)'
  BY <1>2, <1>6, SameJournal DEF Compared
<1>9. Facts(p)'
  BY <1>2, <1>5, <1>6, <1>7, <1>8, SameJournal DEF Facts, PlanFacts, StepFacts, LinkFacts
<1> QED BY <1>1, <1>2, <1>3, <1>5, <1>6, <1>9, GoOn

LEMMA ObservationsKeep ==
  ASSUME TransitionInv, NEW p \in Callers, ObserveApplied(p) \/ VerifyStep(p)
  PROVE  TransitionInv'
<1>1. {"steps", "applied"} \subseteq Locked /\ {"journal-applied", "journal-verified"} \subseteq Stepping
  BY DEF Locked, Stepping
<1>2. pc[p] \in Locked
  BY <1>1, AtCurrent DEF ObserveApplied, VerifyStep
<1>3. CASE Give(p) /\ UNCHANGED durable
  BY <1>2, <1>3, GiveUp
<1>4. CASE ObserveApplied(p) /\ CreateFile(p, "applied", "journal-applied")
  <2>1. Current \in Open /\ Step.cp = "evidence"
    BY <1>4 DEF ObserveApplied, TransitionInv, Facts, StepFacts, Stepping
  <2> QED BY <1>1, <1>2, <1>4, <2>1, Created
<1>5. CASE VerifyStep(p) /\ CreateFile(p, "verified", "journal-verified")
  <2>1. Current \in Open /\ Step.cp = "applied"
    BY <1>5, AtCurrent DEF VerifyStep
  <2> QED BY <1>1, <1>2, <1>5, <2>1, Created
<1> QED BY <1>3, <1>4, <1>5 DEF ObserveApplied, VerifyStep
-----------------------------------------------------------------------------
(* Activation and reconciliation.                                          *)

\* The journal moves on to a checkpoint that the links allow.
LEMMA CheckpointSaved ==
  ASSUME TransitionInv, NEW p \in Callers, pc[p] \in Locked, Unfinished, Open = {},
         NEW cp \in {"activation-intent", "target-active", "reconciling", "complete"},
         SaveCheckpoint(p, cp, "steps"),
         cp = "activation-intent" => Pairs.from # Pairs.target,
         \/ cp = "complete"
         \/ Pairs.from = Pairs.target /\ initialReleaseLinks(Pairs)
         \/ Pairs.from # Pairs.target /\ cp = "activation-intent" /\ initialReleaseLinks(Pairs)
         \/ Pairs.from # Pairs.target /\ cp # "activation-intent" /\ activatedReleaseLinks(Pairs)
  PROVE  TransitionInv'
<1>1. Goto(p, "steps") /\ "steps" \in Pcs /\ UNCHANGED <<lock, plan, links, settings, records>>
  BY DEF SaveCheckpoint, JournalOnly, Pcs, Locked
<1>2. journal' = [txn |-> journal.txn, cp |-> cp, plan |-> journal.plan, steps |-> journal.steps]
  BY DEF SaveCheckpoint, TransitionInv, Global, Shapes
<1>3. /\ journal'.cp = cp /\ journal'.plan = journal.plan /\ journal'.txn = journal.txn
      /\ journal'.steps = journal.steps
      /\ journal' = [txn |-> journal'.txn, cp |-> journal'.cp, plan |-> journal'.plan,
                     steps |-> journal'.steps]
  BY <1>2
<1>4. Shapes'
  <2>1. IsPlan(journal.plan)
    BY DEF TransitionInv, Global, Shapes
  <2>2. IsPlan(journal.plan)'
    BY <1>3, <2>1 DEF IsPlan, Pair
  <2>3. cp \in Checkpoints
    BY DEF Checkpoints
  <2> QED BY <1>1, <1>3, <2>2, <2>3 DEF TransitionInv, Global, Shapes, IsStep, Files, Checkpoints
<1>5. Open' = {} /\ Pairs' = Pairs
  BY <1>3 DEF Open, Pairs
<1>6. ExpectedWasSeen' /\ ActivationIsLast'
  BY <1>3, <1>5 DEF TransitionInv, Global, ExpectedWasSeen, ActivationIsLast
<1>7. Evidence'
  BY <1>1, <1>3 DEF TransitionInv, Global, Evidence, Has
<1>8. LinksMatchJournal'
  BY <1>1, <1>3, <1>5
     DEF LinksMatchJournal, journalLinksAllowed, BeforeActivation, Unfinished,
         initialReleaseLinks, activatedReleaseLinks
<1>9. pc'[p] = "steps"
  BY <1>1 DEF Goto, TransitionInv, Exclusion
<1>10. Facts(p)'
  BY <1>9 DEF Facts, PlanFacts, StepFacts, LinkFacts, Stepping
<1> QED BY <1>1, <1>4, <1>6, <1>7, <1>8, <1>10, LockedMove DEF Moved, Global

\* The links move between the places that the intent allows.
LEMMA LinksMoved ==
  ASSUME TransitionInv, UNCHANGED <<journal, records, settings>>,
         journal.cp = "activation-intent",
         links' = [active |-> links'.active, previous |-> links'.previous],
         stagedLinks(Pairs)' \/ activatedReleaseLinks(Pairs)'
  PROVE  Global'
<1>1. Shapes'
  BY DEF TransitionInv, Global, Shapes, IsPlan, IsStep, Pair, Unfinished, Files
<1>2. Open' = Open
  BY DEF Open
<1>3. ExpectedWasSeen' /\ ActivationIsLast' /\ Pairs.from # Pairs.target
  BY <1>2 DEF TransitionInv, Global, ExpectedWasSeen, ActivationIsLast, BeforeActivation, Pairs
<1>4. Evidence'
  BY DEF TransitionInv, Global, Evidence, Has
<1>5. LinksMatchJournal'
  BY <1>3 DEF LinksMatchJournal, journalLinksAllowed, BeforeActivation, Pairs
<1> QED BY <1>1, <1>3, <1>4, <1>5 DEF Global

\* The links of an unfinished journal after its activation.
LEMMA LinksSettled ==
  ASSUME TransitionInv, Unfinished, ~BeforeActivation, journal.cp # "activation-intent"
  PROVE  \/ Pairs.from = Pairs.target /\ initialReleaseLinks(Pairs)
         \/ Pairs.from # Pairs.target /\ activatedReleaseLinks(Pairs)
BY DEF TransitionInv, Global, LinksMatchJournal, journalLinksAllowed

LEMMA CheckpointsKeep ==
  ASSUME TransitionInv, NEW p \in Callers,
         SkipActivation(p) \/ TargetActive(p) \/ BeginReconciling(p) \/ CompleteJournal(p)
  PROVE  TransitionInv'
<1>1. {"steps", "activated"} \subseteq Locked
  BY DEF Locked
<1>2. CASE SkipActivation(p)
  <2>1. /\ pc[p] = "steps" /\ Open = {} /\ Unfinished /\ Pairs.from = Pairs.target
        /\ SaveCheckpoint(p, "target-active", "steps")
    BY <1>2 DEF SkipActivation, Ready, BeforeActivation, Unfinished
  <2>2. initialReleaseLinks(Pairs)
    BY <2>1 DEF TransitionInv, Global, LinksMatchJournal, journalLinksAllowed
  <2> QED BY <1>1, <2>1, <2>2, CheckpointSaved
<1>3. CASE TargetActive(p)
  <2>1. pc[p] = "activated" /\ SaveCheckpoint(p, "target-active", "steps")
    BY <1>3 DEF TargetActive
  <2>2. journal.cp = "activation-intent" /\ activatedReleaseLinks(Pairs)
    BY <2>1 DEF TransitionInv, Facts, LinkFacts
  <2>3. Unfinished /\ Open = {} /\ Pairs.from # Pairs.target
    BY <2>2 DEF TransitionInv, Global, ActivationIsLast, BeforeActivation, Unfinished
  <2> QED BY <1>1, <2>1, <2>2, <2>3, CheckpointSaved
<1>4. CASE BeginReconciling(p)
  <2>1. /\ pc[p] = "steps" /\ Open = {} /\ journal.cp = "target-active"
        /\ SaveCheckpoint(p, "reconciling", "steps")
    BY <1>4 DEF BeginReconciling, Ready
  <2>2. Unfinished /\ ~BeforeActivation
    BY <2>1 DEF Unfinished, BeforeActivation
  <2> QED BY <1>1, <2>1, <2>2, LinksSettled, CheckpointSaved
<1>5. CASE CompleteJournal(p)
  <2>1. /\ pc[p] = "steps" /\ Open = {} /\ Unfinished /\ SaveCheckpoint(p, "complete", "steps")
    BY <1>5 DEF CompleteJournal, Reconciling, Ready, Unfinished
  <2> QED BY <1>1, <2>1, CheckpointSaved
<1> QED BY <1>2, <1>3, <1>4, <1>5

LEMMA IntendKeeps ==
  ASSUME TransitionInv, NEW p \in Callers, IntendActivation(p)
  PROVE  TransitionInv'
<1>1. pc[p] = "steps" /\ Open = {} /\ Unfinished /\ Pairs.from # Pairs.target /\ "steps" \in Locked
  BY DEF IntendActivation, Ready, BeforeActivation, Unfinished, Locked
<1>2. CASE initialReleaseLinks(Pairs) /\ SaveCheckpoint(p, "activation-intent", "steps")
  BY <1>1, <1>2, CheckpointSaved
<1>3. CASE Give(p) /\ UNCHANGED durable
  BY <1>1, <1>3, GiveUp
<1> QED BY <1>2, <1>3 DEF IntendActivation

\* The target is prepared, put into previous, and exchanged with current.
LEMMA ActivationKeeps ==
  ASSUME TransitionInv, NEW p \in Callers,
         StageLink(p) \/ RenameLink(p) \/ ExchangeLinks(p) \/ AlreadyActivated(p)
  PROVE  TransitionInv'
<1>1. {"steps", "stage-link", "activated"} \subseteq Locked /\ {"steps", "activated"} \subseteq Pcs
  BY DEF Locked, Pcs
<1>2. links = [active |-> links.active, previous |-> links.previous]
  BY DEF TransitionInv, Global, Shapes
<1>3. settings \in Files
  BY DEF TransitionInv, Global, Shapes
<1>4. CASE StageLink(p)
  <2>1. pc[p] = "steps" /\ journal.cp = "activation-intent" /\ initialReleaseLinks(Pairs)
    BY <1>4 DEF StageLink, Activating, Ready
  <2>2. CASE Give(p) /\ UNCHANGED durable
    BY <1>1, <2>1, <2>2, GiveUp
  <2>3. CASE Goto(p, "stage-link") /\ UNCHANGED links /\ LinksOnly
    <3>1. UNCHANGED <<lock, plan, journal, links, records, settings>>
      BY <2>3 DEF LinksOnly
    <3>2. pc'[p] = "stage-link"
      BY <2>3 DEF Goto, TransitionInv, Exclusion
    <3>3. Facts(p)'
      BY <2>1, <3>1, <3>2
         DEF Facts, PlanFacts, StepFacts, LinkFacts, Stepping, initialReleaseLinks, Pairs
    <3> QED BY <1>1, <1>3, <2>1, <2>3, <3>1, <3>3, GoOn
  <2> QED BY <1>4, <2>2, <2>3 DEF StageLink
<1>5. CASE RenameLink(p)
  <2>1. /\ pc[p] = "stage-link" /\ Goto(p, "steps")
        /\ links' = [links EXCEPT !.previous = Pairs.target]
        /\ UNCHANGED <<lock, plan, journal, records, settings>>
    BY <1>5 DEF RenameLink, Move, LinksOnly
  <2>2. journal.cp = "activation-intent" /\ initialReleaseLinks(Pairs)
    BY <2>1 DEF TransitionInv, Facts, LinkFacts
  <2>3. Pairs.from # Pairs.target /\ Pairs' = Pairs
    BY <2>1, <2>2 DEF TransitionInv, Global, ActivationIsLast, Pairs
  <2>4. links' = [active |-> Pairs.from, previous |-> Pairs.target]
    BY <2>1, <2>2 DEF initialReleaseLinks
  <2>5. stagedLinks(Pairs)'
    BY <2>3, <2>4 DEF stagedLinks
  <2>6. Global'
    BY <2>1, <2>2, <2>4, <2>5, LinksMoved
  <2>7. pc'[p] = "steps"
    BY <2>1 DEF Goto, TransitionInv, Exclusion
  <2>8. Facts(p)'
    BY <2>7 DEF Facts, PlanFacts, StepFacts, LinkFacts, Stepping
  <2> QED BY <1>1, <2>1, <2>6, <2>8, LockedMove DEF Moved
<1>6. CASE ExchangeLinks(p)
  <2>1. /\ pc[p] = "steps" /\ Goto(p, "activated") /\ journal.cp = "activation-intent"
        /\ stagedLinks(Pairs)
        /\ links' = [active |-> links.previous, previous |-> links.active]
        /\ UNCHANGED <<lock, plan, journal, records, settings>>
    BY <1>6 DEF ExchangeLinks, Activating, Ready, LinksOnly
  <2>2. links' = [active |-> Pairs.target, previous |-> Pairs.from] /\ Pairs' = Pairs
    BY <2>1 DEF stagedLinks, Pairs
  <2>3. activatedReleaseLinks(Pairs)'
    BY <2>2 DEF activatedReleaseLinks
  <2>4. Global'
    BY <2>1, <2>2, <2>3, LinksMoved
  <2>5. pc'[p] = "activated"
    BY <2>1 DEF Goto, TransitionInv, Exclusion
  <2>6. Facts(p)'
    BY <2>1, <2>3, <2>5 DEF Facts, PlanFacts, StepFacts, LinkFacts, Stepping
  <2> QED BY <1>1, <2>1, <2>4, <2>6, LockedMove DEF Moved
<1>7. CASE AlreadyActivated(p)
  <2>1. /\ pc[p] = "steps" /\ Goto(p, "activated") /\ journal.cp = "activation-intent"
        /\ activatedReleaseLinks(Pairs)
        /\ UNCHANGED <<lock, plan, journal, links, records, settings>>
    BY <1>7 DEF AlreadyActivated, Activating, Ready, durable
  <2>2. pc'[p] = "activated"
    BY <2>1 DEF Goto, TransitionInv, Exclusion
  <2>3. Facts(p)'
    BY <2>1, <2>2
       DEF Facts, PlanFacts, StepFacts, LinkFacts, Stepping, activatedReleaseLinks, Pairs
  <2> QED BY <1>1, <1>3, <2>1, <2>3, GoOn
<1> QED BY <1>4, <1>5, <1>6, <1>7

LEMMA ReconcileKeeps ==
  ASSUME TransitionInv, NEW p \in Callers, Reconcile(p) \/ Finish(p)
  PROVE  TransitionInv'
<1>1. pc[p] = "steps" /\ "steps" \in Locked
  BY DEF Reconcile, Reconciling, Finish, Ready, Locked
<1>2. CASE Give(p) /\ UNCHANGED durable
  BY <1>1, <1>2, GiveUp
<1>3. CASE UNCHANGED <<links, settings, journal, records, pc, lock, plan>>
  <2>1. Goto(p, "steps")
    BY <1>1, <1>3 DEF Goto, TransitionInv, Exclusion
  <2>2. Facts(p)' /\ settings' \in Files
    BY <1>1, <1>3 DEF Facts, PlanFacts, StepFacts, LinkFacts, Stepping, TransitionInv, Global, Shapes
  <2> QED BY <1>1, <1>3, <2>1, <2>2, GoOn
<1> QED BY <1>2, <1>3 DEF Reconcile, Finish

-----------------------------------------------------------------------------
(* The theorems.                                                           *)

LEMMA TransitionNext == TransitionInv /\ [Next]_vars => TransitionInv'
<1> SUFFICES ASSUME TransitionInv, [Next]_vars PROVE TransitionInv'
    OBVIOUS
<1>1. ASSUME NEW p \in Callers, Converge(p) PROVE TransitionInv'
  BY <1>1, LooksKeep, LockKeeps, AdmitKeeps, PreserveKeeps, PublishKeeps, GuardKeeps, RecordsKeep,
     SavesKeep, EffectsKeep, ObservationsKeep, CheckpointsKeep, IntendKeeps, ActivationKeeps,
     ReconcileKeeps
     DEF Converge, Effects
<1>2. ASSUME NEW p \in Callers, Inspect(p) \/ Die(p) PROVE TransitionInv'
  BY <1>2, LooksKeep, DieKeeps
<1>3. CASE \/ \E m \in Migrations : Edit(m) \/ Restore(m)
           \/ \E k \in Parts : Drift(k)
  BY <1>3, WorldKeeps
<1>4. CASE UNCHANGED vars
  <2>1. UNCHANGED <<journal, links, records, replaced, lock, pc, plan, settings, unseen>>
    BY <1>4 DEF vars, durable, ghosts
  <2>2. Global'
    BY <2>1, GlobalKept DEF TransitionInv, Global, Shapes
  <2>3. Exclusion'
    BY <2>1 DEF TransitionInv, Exclusion
  <2>4. \A p \in Callers : Facts(p)'
    BY <2>1, SameJournal
       DEF TransitionInv, Facts, PlanFacts, StepFacts, Compared, LinkFacts, Has,
           initialReleaseLinks, activatedReleaseLinks, IsPlan, Pair, Pairs
  <2> QED BY <2>2, <2>3, <2>4 DEF TransitionInv
<1> QED BY <1>1, <1>2, <1>3, <1>4 DEF Next

\* The facts that callers rely on, and the state that they leave behind, hold for
\* any number of callers, releases and migrations (Converge under the update lock).
THEOREM TransitionInvariant == Spec => []TransitionInv
<1>1. Init => TransitionInv
  BY TransitionInit
<1>2. TransitionInv /\ [Next]_vars => TransitionInv'
  BY TransitionNext
<1> QED BY <1>1, <1>2, PTL DEF Spec

\* The links are always among those that the checkpoint of an unfinished journal
\* allows (journalLinksAllowed), wherever a caller died.
THEOREM LinksAlwaysMatch == Spec => []LinksMatchJournal
<1>1. TransitionInv => LinksMatchJournal
  BY DEF TransitionInv, Global
<1> QED BY <1>1, TransitionInvariant, PTL

\* The journal never claims a step whose evidence is not on the disk.
THEOREM JournalIsSupported == Spec => []EvidenceSupportsJournal
<1>1. TransitionInv => EvidenceSupportsJournal
  BY DEF TransitionInv, Global, Evidence, EvidenceSupportsJournal, Has
<1> QED BY <1>1, TransitionInvariant, PTL
\* The transaction changes only where a journal is published.
LEMMA TxnKept ==
  ASSUME TransitionInv, NEW p \in Callers, Converge(p), ~PublishJournal(p)
  PROVE  journal'.txn = journal.txn
<1>1. CASE UNCHANGED journal
  BY <1>1
<1>2. CASE \E cp : SaveStep(p, cp)
  BY <1>2 DEF SaveStep, TransitionInv, Global, Shapes
<1>3. CASE \E cp, to : SaveCheckpoint(p, cp, to)
  BY <1>3 DEF SaveCheckpoint, TransitionInv, Global, Shapes
<1>4. CASE \/ preflightConverge(p) \/ Lock(p) \/ Admit(p) \/ PreserveReplacedJournal(p)
           \/ guardJournalLinks(p) \/ ensureRecovery(p) \/ CaptureEvidence(p)
           \/ Effects(p) \/ ObserveApplied(p) \/ VerifyStep(p)
  <2>1. UNCHANGED journal
    BY <1>4 DEF preflightConverge, Lock, Admit, PreserveReplacedJournal, guardJournalLinks,
                ensureRecovery, CaptureEvidence, Effects, StageSettings, CompareSettings,
                RenameSettings, SwapLedger, AlreadyApplied, ObserveApplied, VerifyStep, CreateFile, durable
  <2> QED BY <1>1, <2>1
<1>5. CASE StageLink(p) \/ RenameLink(p) \/ ExchangeLinks(p) \/ AlreadyActivated(p)
           \/ Reconcile(p) \/ Finish(p)
  <2>1. UNCHANGED journal
    BY <1>5 DEF StageLink, RenameLink, ExchangeLinks, AlreadyActivated, Reconcile, Finish,
                LinksOnly, durable
  <2> QED BY <1>1, <2>1
<1>6. CASE JournalEvidence(p) \/ JournalApplied(p) \/ JournalVerified(p)
  BY <1>2, <1>6 DEF JournalEvidence, JournalApplied, JournalVerified
<1>7. CASE SkipActivation(p) \/ IntendActivation(p) \/ TargetActive(p) \/ BeginReconciling(p)
           \/ CompleteJournal(p)
  <2>1. UNCHANGED journal \/ \E cp, to : SaveCheckpoint(p, cp, to)
    BY <1>7 DEF SkipActivation, IntendActivation, TargetActive, BeginReconciling,
                CompleteJournal, durable
  <2> QED BY <1>1, <1>3, <2>1
<1> QED BY <1>4, <1>5, <1>6, <1>7 DEF Converge, Effects

\* A newer release preserves the journal that it takes over before it writes its
\* own (preserveReplacedJournal), whoever died in between.
THEOREM TakeoverKeepsJournal == Spec => ReplacedJournalKept
<1>1. ASSUME TransitionInv, [Next]_vars
      PROVE  [Unfinished /\ journal'.txn # journal.txn /\ journal'.plan.reason = "newer"
                => journal \in replaced]_vars
  <2> SUFFICES ASSUME Next, journal'.txn # journal.txn, journal'.plan.reason = "newer"
               PROVE  journal \in replaced
    BY <1>1
  <2>1. PICK p \in Callers : Converge(p)
    BY <1>1 DEF Next, Inspect, Die, Edit, Restore, Drift, durable
  <2>2. PublishJournal(p)
    BY <1>1, <2>1, TxnKept
  <2>3. pc[p] = "publish" /\ journal'.plan = plan[p]
    BY <2>2 DEF PublishJournal, Move, newJournal
  <2> QED BY <1>1, <2>3 DEF TransitionInv, Facts, PlanFacts
<1> QED BY <1>1, TransitionInvariant, PTL DEF Spec, ReplacedJournalKept

\* A file is rewritten only as the operator saw it when the plan was confirmed,
\* except for an edit after the last comparison (compareAndSwapPersistentFileAt
\* against the snapshot of the plan).
THEOREM EffectsAreConsented == Spec => ConsentCoversEffects
<1>1. ASSUME TransitionInv, [Next]_vars
      PROVE  [\A m \in Migrations : settings'[m] = "new" /\ Planned(m) =>
                 Unfinished /\ (journal.plan.settings[m] = settings[m] \/ m \in unseen)]_vars
  <2> SUFFICES ASSUME Next, NEW m \in Migrations, settings'[m] = "new", Planned(m)
               PROVE  Unfinished /\ (journal.plan.settings[m] = settings[m] \/ m \in unseen)
    BY <1>1
  <2>1. settings'[m] # settings[m] /\ settings \in Files
    BY <1>1 DEF Planned, TransitionInv, Global, Shapes
  <2>2. PICK p \in Callers : RenameSettings(p)
    <3>1. CASE \E n \in Migrations : Edit(n) \/ Restore(n)
      BY <2>1, <3>1 DEF Edit, Restore, Files, Planned
    <3>2. CASE \E p \in Callers : Inspect(p) \/ Die(p)
      BY <2>1, <3>2 DEF Inspect, Die, durable
    <3>3. CASE \E k \in Parts : Drift(k)
      BY <2>1, <3>3 DEF Drift
    <3>4. ASSUME NEW p \in Callers, Converge(p), ~RenameSettings(p) PROVE UNCHANGED settings
      <4>1. CASE \/ preflightConverge(p) \/ Lock(p) \/ Admit(p) \/ PreserveReplacedJournal(p)
                 \/ PublishJournal(p) \/ guardJournalLinks(p) \/ ensureRecovery(p)
                 \/ CaptureEvidence(p) \/ StageSettings(p) \/ CompareSettings(p) \/ SwapLedger(p)
                 \/ AlreadyApplied(p) \/ ObserveApplied(p) \/ VerifyStep(p)
        BY <4>1 DEF preflightConverge, Lock, Admit, PreserveReplacedJournal, PublishJournal,
                    guardJournalLinks, ensureRecovery, CaptureEvidence, StageSettings,
                    CompareSettings, SwapLedger, AlreadyApplied, ObserveApplied, VerifyStep, CreateFile,
                    JournalOnly, durable
      <4>2. CASE \/ JournalEvidence(p) \/ JournalApplied(p) \/ JournalVerified(p)
                 \/ SkipActivation(p) \/ IntendActivation(p) \/ TargetActive(p)
                 \/ BeginReconciling(p) \/ CompleteJournal(p)
        BY <4>2 DEF JournalEvidence, JournalApplied, JournalVerified, SkipActivation,
                    IntendActivation, TargetActive, BeginReconciling, CompleteJournal,
                    SaveStep, SaveCheckpoint, JournalOnly, durable
      <4>3. CASE \/ StageLink(p) \/ RenameLink(p) \/ ExchangeLinks(p) \/ AlreadyActivated(p)
                 \/ Reconcile(p) \/ Finish(p)
        BY <4>3 DEF StageLink, RenameLink, ExchangeLinks, AlreadyActivated, Reconcile, Finish,
                    LinksOnly, durable
      <4> QED BY <3>4, <4>1, <4>2, <4>3 DEF Converge
    <3> QED BY <2>1, <3>1, <3>2, <3>3, <3>4 DEF Next
  <2>3. Current \in Open /\ Compared(Step) /\ Step.kind = "settings"
    BY <1>1, <2>2 DEF RenameSettings, Move, TransitionInv, Facts, StepFacts, Stepping
  <2>4. m = Step.mig /\ (settings[m] = Step.expected \/ m \in unseen)
    BY <2>1, <2>2, <2>3 DEF RenameSettings, Compared, Files
  <2>5. Step.expected = journal.plan.settings[Step.mig]
    BY <1>1, <2>3 DEF TransitionInv, Global, ExpectedWasSeen, Step, Open
  <2>6. Unfinished
    BY <1>1, <2>3 DEF TransitionInv, Global, ActivationIsLast, BeforeActivation, Unfinished
  <2> QED BY <2>4, <2>5, <2>6
<1> QED BY <1>1, TransitionInvariant, PTL DEF Spec, ConsentCoversEffects
-----------------------------------------------------------------------------
(* The active release finds its data migrated.                             *)

\* The ledger only grows.  An unfinished journal has a ledger step for the last
\* migration of its target, unless the ledger is there already, and none beyond; a
\* verified ledger step has been seen in the ledger; and plans are made for releases
\* that accept the ledger.
Reaches(i, m) == journal.steps[i].kind = "ledger" /\ journal.steps[i].mig = m
Covered ==
    Unfinished =>
       /\ Pairs.target \in Releases
       /\ \/ ledger >= Epoch[Pairs.target]
          \/ \E i \in DOMAIN journal.steps : Reaches(i, Epoch[Pairs.target])
       /\ acceptsLedger(Pairs.target)
       /\ \A i \in DOMAIN journal.steps : journal.steps[i].mig <= Epoch[Pairs.target]
VerifiedInLedger ==
    \A i \in DOMAIN journal.steps :
       /\ journal.steps[i].mig \in Nat
       /\ journal.steps[i].kind = "ledger" /\ journal.steps[i].cp = "verified"
             => ledger >= journal.steps[i].mig
Seen(p) ==
    /\ pc[p] # "idle" => plan[p].pair.target \in Releases
    /\ pc[p] \in {"preserve", "publish"} =>
          plan[p].ledger = ledger /\ acceptsLedger(plan[p].pair.target)
    /\ pc[p] = "journal-verified" /\ Step.kind = "ledger" => ledger >= Step.mig
MigratedInv ==
    /\ ledger \in Nat /\ links.active \in Releases
    /\ ActiveIsMigrated /\ Covered /\ VerifiedInLedger
    /\ \A p \in Callers : Seen(p)

LEMMA MigratedInit == Init => MigratedInv
<1> SUFFICES ASSUME Init PROVE MigratedInv
    OBVIOUS
<1>1. journal.cp = "complete" /\ DOMAIN journal.steps = {}
  BY DEF Init, NoJournal
<1>2. links.active \in Releases /\ ledger = Epoch[links.active] /\ ledger \in Nat
  BY TransitionAssumption DEF Init
<1>3. \A p \in Callers : pc[p] = "idle"
  BY DEF Init
<1> QED BY <1>1, <1>2, <1>3
        DEF MigratedInv, ActiveIsMigrated, Covered, Unfinished, VerifiedInLedger, Seen

\* A step that leaves ledger, links and journal, of a caller that goes on with what
\* it has seen or gives up.
LEMMA QuietStep ==
  ASSUME TransitionInv, MigratedInv, NEW p \in Callers, UNCHANGED <<ledger, links, journal>>,
         \/ Give(p)
         \/ \E to : /\ Goto(p, to) /\ UNCHANGED plan /\ pc[p] # "idle"
                    /\ to \in {"preserve", "publish"} =>
                          plan[p].ledger = ledger /\ acceptsLedger(plan[p].pair.target)
                    /\ to = "journal-verified" /\ Step.kind = "ledger" => ledger >= Step.mig
  PROVE  MigratedInv'
<1>1. Step' = Step
  BY SameJournal
<1>2. \A q \in Callers : q # p => pc'[q] = pc[q] /\ plan'[q] = plan[q]
  BY DEF TransitionInv, Exclusion, Give, Goto
<1>3. Seen(p)'
  BY <1>1 DEF TransitionInv, Exclusion, Give, Goto, MigratedInv, Seen, acceptsLedger
<1>4. \A q \in Callers : Seen(q)'
  BY <1>1, <1>2, <1>3 DEF MigratedInv, Seen, acceptsLedger
<1> QED BY <1>4
        DEF MigratedInv, ActiveIsMigrated, Covered, Unfinished, Pairs, Reaches, acceptsLedger,
            VerifiedInLedger

\* A step that changes ledger, links or journal, of a caller that has the lock and
\* goes on with a look of its own.
LEMMA LoudStep ==
  ASSUME TransitionInv, MigratedInv, NEW p \in Callers, pc[p] \in Locked,
         NEW to, Goto(p, to), UNCHANGED plan,
         to \notin {"preserve", "publish", "journal-verified"},
         ledger' \in Nat, links'.active \in Releases, ActiveIsMigrated', Covered',
         VerifiedInLedger'
  PROVE  MigratedInv'
<1>1. \A q \in Callers : q # p => pc'[q] = pc[q] /\ plan'[q] = plan[q] /\ pc[q] \notin Locked
  BY DEF TransitionInv, Exclusion, Goto
<1>2. pc[p] # "idle" /\ {"preserve", "publish", "journal-verified"} \subseteq Locked
  BY DEF Locked, Stepping
<1>3. Seen(p)'
  BY <1>2 DEF TransitionInv, Exclusion, Goto, MigratedInv, Seen
<1>4. \A q \in Callers : q # p => Seen(q)'
  BY <1>1, <1>2 DEF MigratedInv, Seen
<1> QED BY <1>3, <1>4 DEF MigratedInv

\* A plan that is offered is for the release that was asked for.
LEMMA OfferedTarget ==
  ASSUME TransitionInv, NEW r, NEW x \in observe(r)
  PROVE  x.pair.target = r
<1>1. CASE \E why : x = observeFresh(r, why)
  BY <1>1 DEF observeFresh, Pair
<1>2. CASE /\ Unfinished /\ r = Pairs.target
           /\ x = [journal.plan EXCEPT !.reason = "resume", !.journal = journal.txn]
  <2>1. IsPlan(journal.plan)
    BY <1>2 DEF TransitionInv, Global, Shapes
  <2>2. x.pair = journal.plan.pair
    BY <1>2, <2>1 DEF IsPlan
  <2> QED BY <1>2, <2>2 DEF Pairs
<1> QED BY <1>1, <1>2 DEF observe

LEMMA InspectMigrated ==
  ASSUME TransitionInv, MigratedInv, NEW p \in Callers, Inspect(p)
  PROVE  MigratedInv'
<1>1. UNCHANGED <<ledger, links, journal>>
  BY DEF Inspect, durable
<1>1a. PICK r \in Releases : \E new \in observe(r) : plan' = [plan EXCEPT ![p] = new]
  BY DEF Inspect
<1>2. PICK new \in observe(r) : plan' = [plan EXCEPT ![p] = new]
  BY <1>1a
<1>3. pc'[p] = "preflight" /\ plan'[p] = new /\ new.pair.target = r
  BY <1>2, OfferedTarget DEF Inspect, Move, Goto, TransitionInv, Exclusion
<1>4. \A q \in Callers : q # p => pc'[q] = pc[q] /\ plan'[q] = plan[q]
  BY <1>2 DEF Inspect, Move, Goto, TransitionInv, Exclusion
<1>5. Step' = Step
  BY <1>1, SameJournal
<1>6. \A q \in Callers : Seen(q)'
  BY <1>1, <1>3, <1>4, <1>5 DEF MigratedInv, Seen, acceptsLedger
<1> QED BY <1>1, <1>6
        DEF MigratedInv, ActiveIsMigrated, Covered, Unfinished, Pairs, Reaches, acceptsLedger,
            VerifiedInLedger

LEMMA AdmitMigrated ==
  ASSUME TransitionInv, MigratedInv, NEW p \in Callers, Admit(p)
  PROVE  MigratedInv'
<1>1. UNCHANGED <<ledger, links, journal>> /\ pc[p] # "idle"
  BY DEF Admit, durable
<1>2. CASE Give(p)
  BY <1>1, <1>2, QuietStep
<1>3. CASE Holds(p) /\ Goto(p, Entry[plan[p].reason]) /\ UNCHANGED plan
  <2>1. CASE \E r, why : plan[p] = observeFresh(r, why) /\ why \in {"new", "stale", "newer"}
    <3>1. plan[p].ledger = ledger /\ plan[p].reason \in {"new", "stale", "newer"}
      BY <2>1 DEF observeFresh
    <3>1a. acceptsLedger(plan[p].pair.target)
      BY <1>3 DEF Holds, observe
    <3>2. Entry[plan[p].reason] # "journal-verified"
      BY <3>1 DEF Entry
    <3> QED BY <1>1, <1>3, <3>1, <3>1a, <3>2, QuietStep
  <2>2. CASE /\ Unfinished
             /\ plan[p] = [journal.plan EXCEPT !.reason = "resume", !.journal = journal.txn]
    <3>1. IsPlan(journal.plan)
      BY <2>2 DEF TransitionInv, Global, Shapes
    <3>2. plan[p].reason = "resume"
      BY <2>2, <3>1 DEF IsPlan
    <3>3. Entry[plan[p].reason] = "guard"
      BY <3>2 DEF Entry
    <3> QED BY <1>1, <1>3, <3>3, QuietStep
  <2> QED BY <1>3, <2>1, <2>2 DEF Holds, observe
<1> QED BY <1>2, <1>3 DEF Admit

\* A journal that is published reaches the migrations of its target.
LEMMA PublishMigrated ==
  ASSUME TransitionInv, MigratedInv, NEW p \in Callers, PublishJournal(p)
  PROVE  MigratedInv'
<1>1. pc[p] = "publish" /\ Goto(p, "guard") /\ "publish" \in Locked
      /\ UNCHANGED <<ledger, links, plan>>
  BY DEF PublishJournal, Move, JournalOnly, Locked
<1>2. plan[p].ledger = ledger /\ plan[p].pair.target \in Releases /\ ledger \in Nat
  BY <1>1 DEF MigratedInv, Seen
<1> DEFINE last == Epoch[plan[p].pair.target]
<1>3. last \in Nat
  BY <1>2, TransitionAssumption
<1>4. /\ journal'.plan = plan[p]
      /\ DOMAIN journal'.steps = WorkOf(plan[p])
      /\ \A w \in WorkOf(plan[p]) : /\ journal'.steps[w].kind = w.kind
                                    /\ journal'.steps[w].mig = w.mig
                                    /\ journal'.steps[w].cp = "intent"
  BY DEF PublishJournal, newJournal, JournalStep
<1>5. ledger < last => [kind |-> "ledger", mig |-> last] \in WorkOf(plan[p])
  BY <1>2, <1>3 DEF WorkOf
<1>6. \A w \in WorkOf(plan[p]) : w.mig \in Nat
  BY <1>2, <1>3 DEF WorkOf
<1>7. Covered'
  <2>0. acceptsLedger(plan[p].pair.target)' /\ \A w \in WorkOf(plan[p]) : w.mig <= last
    <3>1. acceptsLedger(plan[p].pair.target)
      BY <1>1 DEF MigratedInv, Seen
    <3>2. \A w \in WorkOf(plan[p]) : w.mig <= last
      BY <1>2, <1>3 DEF WorkOf
    <3> QED BY <1>1, <3>1, <3>2 DEF acceptsLedger
  <2>1. CASE ledger < last
    BY <1>1, <1>2, <1>4, <1>5, <2>0, <2>1 DEF Covered, Pairs, Reaches, acceptsLedger
  <2>2. CASE ~(ledger < last)
    BY <1>1, <1>2, <1>3, <1>4, <2>0, <2>2 DEF Covered, Pairs, acceptsLedger
  <2> QED BY <2>1, <2>2
<1>8. VerifiedInLedger'
  BY <1>4, <1>6 DEF VerifiedInLedger
<1>9. ledger' \in Nat /\ links'.active \in Releases /\ ActiveIsMigrated'
  <2>1. Unfinished'
    BY DEF PublishJournal, newJournal, Unfinished
  <2> QED BY <1>1, <2>1 DEF MigratedInv, ActiveIsMigrated
<1> QED BY <1>1, <1>7, <1>8, <1>9, LoudStep

\* The ledger grows by one migration.
LEMMA SwapMigrated ==
  ASSUME TransitionInv, MigratedInv, NEW p \in Callers, SwapLedger(p)
  PROVE  MigratedInv'
<1>1. pc[p] = "steps" /\ Current \in Open
  BY AtCurrent DEF SwapLedger
<1>2. Step.mig \in Nat
  BY <1>1 DEF MigratedInv, VerifiedInLedger, Open, Step
<1>3. ledger = Step.mig - 1 /\ ledger' = Step.mig /\ Goto(p, "applied")
      /\ UNCHANGED <<links, journal, plan>>
  BY DEF SwapLedger, AtExpected
<1>4. ledger \in Nat /\ ledger' \in Nat /\ ledger' >= ledger
  BY <1>2, <1>3 DEF MigratedInv
<1>5. ActiveIsMigrated'
  <2>1. Epoch[links.active] \in Nat
    BY TransitionAssumption DEF MigratedInv
  <2>2. Unfinished'
    <3>1. BeforeActivation
      BY <1>1 DEF TransitionInv, Global, ActivationIsLast
    <3> QED BY <1>3, <3>1 DEF BeforeActivation, Unfinished
  <2> QED BY <1>3, <1>4, <2>1, <2>2 DEF MigratedInv, ActiveIsMigrated
<1>6. Covered'
  <2>1. Unfinished => Epoch[Pairs.target] \in Nat
    BY TransitionAssumption DEF MigratedInv, Covered
  <2>2. Unfinished => Step.mig <= Epoch[Pairs.target]
    BY <1>1 DEF MigratedInv, Covered, Open, Step
  <2> QED BY <1>3, <1>4, <2>1, <2>2
          DEF MigratedInv, Covered, Unfinished, Pairs, Reaches, acceptsLedger
<1>7. VerifiedInLedger'
  BY <1>3, <1>4 DEF MigratedInv, VerifiedInLedger
<1>8. pc[p] \in Locked
  BY <1>1 DEF Locked
<1> QED BY <1>3, <1>4, <1>5, <1>6, <1>7, <1>8, LoudStep DEF MigratedInv

\* The journal of a step that is saved says no more than the ledger.
LEMMA SavesMigrated ==
  ASSUME TransitionInv, MigratedInv, NEW p \in Callers,
         JournalEvidence(p) \/ JournalApplied(p) \/ JournalVerified(p)
  PROVE  MigratedInv'
<1>1. PICK cp \in {"evidence", "applied", "verified"} :
         SaveStep(p, cp) /\ (cp = "verified" => pc[p] = "journal-verified")
  BY DEF JournalEvidence, JournalApplied, JournalVerified
<1>2. pc[p] \in Stepping /\ pc[p] \in Locked
  BY DEF JournalEvidence, JournalApplied, JournalVerified, Stepping, Locked
<1>3. Current \in DOMAIN journal.steps
  BY <1>2 DEF TransitionInv, Facts, StepFacts, Open
<1>4. Goto(p, "steps") /\ UNCHANGED <<ledger, links, plan>>
  BY <1>1 DEF SaveStep, JournalOnly
<1>5. /\ journal'.plan = journal.plan
      /\ journal'.steps = [journal.steps EXCEPT ![Current].cp = cp]
  BY <1>1 DEF SaveStep, TransitionInv, Global, Shapes
<1>6. /\ DOMAIN journal'.steps = DOMAIN journal.steps
      /\ journal'.steps[Current] = [journal.steps[Current] EXCEPT !.cp = cp]
      /\ \A i \in DOMAIN journal.steps : i # Current => journal'.steps[i] = journal.steps[i]
  BY <1>3, <1>5
<1>7. /\ journal'.steps[Current].cp = cp
      /\ journal'.steps[Current].kind = journal.steps[Current].kind
      /\ journal'.steps[Current].mig = journal.steps[Current].mig
  <2>1. IsStep(journal.steps[Current])
    BY <1>3 DEF TransitionInv, Global, Shapes
  <2> QED BY <1>6, <2>1 DEF IsStep
<1>8. Unfinished
  <2>1. BeforeActivation
    BY <1>2 DEF TransitionInv, Facts, StepFacts, Global, ActivationIsLast
  <2> QED BY <2>1 DEF BeforeActivation, Unfinished
<1>9. Covered'
  <2>1. \A i \in DOMAIN journal.steps : \A m : Reaches(i, m) => Reaches(i, m)'
    BY <1>6, <1>7 DEF Reaches
  <2>2. \A i \in DOMAIN journal.steps : journal'.steps[i].mig = journal.steps[i].mig
    BY <1>6, <1>7
  <2> QED BY <1>4, <1>5, <1>6, <1>8, <2>1, <2>2 DEF MigratedInv, Covered, Pairs, acceptsLedger
<1>10. VerifiedInLedger'
  <2>1. cp = "verified" /\ Step.kind = "ledger" => ledger >= Step.mig
    BY <1>1 DEF MigratedInv, Seen
  <2> QED BY <1>3, <1>4, <1>6, <1>7, <2>1 DEF MigratedInv, VerifiedInLedger, Step
<1>11. ActiveIsMigrated' /\ ledger' \in Nat /\ links'.active \in Releases
  <2>1. Unfinished'
    BY <1>1, <1>8 DEF SaveStep, Unfinished, TransitionInv, Global, Shapes
  <2> QED BY <1>4, <2>1 DEF MigratedInv, ActiveIsMigrated
<1> QED BY <1>2, <1>4, <1>9, <1>10, <1>11, LoudStep
\* A checkpoint of the journal is about its steps, which stay as they are.
LEMMA CheckpointsMigrated ==
  ASSUME TransitionInv, MigratedInv, NEW p \in Callers, Unfinished, pc[p] \in Locked,
         NEW cp, SaveCheckpoint(p, cp, "steps"),
         cp = "complete" => journal.cp = "reconciling"
  PROVE  MigratedInv'
<1>1. Goto(p, "steps") /\ UNCHANGED <<ledger, links, plan>>
  BY DEF SaveCheckpoint, JournalOnly
<1>2. journal'.plan = journal.plan /\ journal'.steps = journal.steps
  BY DEF SaveCheckpoint, TransitionInv, Global, Shapes
<1>3. Covered'
  BY <1>1, <1>2 DEF MigratedInv, Covered, Pairs, Reaches, acceptsLedger
<1>4. VerifiedInLedger'
  BY <1>1, <1>2 DEF MigratedInv, VerifiedInLedger
<1>5. ActiveIsMigrated' /\ ledger' \in Nat /\ links'.active \in Releases
  <2>1. CASE cp # "complete"
    <3>1. Unfinished'
      BY <2>1 DEF SaveCheckpoint, Unfinished, TransitionInv, Global, Shapes
    <3> QED BY <1>1, <3>1 DEF MigratedInv, ActiveIsMigrated
  <2>2. CASE cp = "complete"
    <3>1. links.active = Pairs.target
      BY <2>2 DEF TransitionInv, Global, LinksMatchJournal, journalLinksAllowed,
                  initialReleaseLinks, activatedReleaseLinks, BeforeActivation
    <3>2. Pairs.target \in Releases /\ acceptsLedger(Pairs.target)
      BY DEF MigratedInv, Covered
    <3>3. Epoch[Pairs.target] \in Nat
      BY <3>2, TransitionAssumption
    <3> QED BY <1>1, <3>1, <3>2, <3>3 DEF MigratedInv, ActiveIsMigrated, acceptsLedger
  <2> QED BY <2>1, <2>2
<1> QED BY <1>1, <1>3, <1>4, <1>5, LoudStep

\* The links move while every step is verified, so the ledger has got there.
LEMMA LinksMigrated ==
  ASSUME TransitionInv, MigratedInv, NEW p \in Callers, RenameLink(p) \/ ExchangeLinks(p)
  PROVE  MigratedInv'
<1>1. UNCHANGED <<ledger, journal, plan>>
  BY DEF RenameLink, ExchangeLinks, LinksOnly
<1>2. Covered' /\ VerifiedInLedger' /\ ledger' \in Nat
  BY <1>1 DEF MigratedInv, Covered, Unfinished, Pairs, Reaches, VerifiedInLedger,
              acceptsLedger
<1>3. CASE RenameLink(p)
  <2>1. pc[p] \in Locked /\ Goto(p, "steps") /\ links'.active = links.active
    BY <1>3 DEF RenameLink, Move, Locked, TransitionInv, Global, Shapes
  <2> QED BY <1>1, <1>2, <2>1, LoudStep DEF MigratedInv, ActiveIsMigrated, Unfinished
<1>4. CASE ExchangeLinks(p)
  <2>1. /\ pc[p] \in Locked /\ Goto(p, "activated") /\ Open = {} /\ Unfinished
        /\ links'.active = Pairs.target
    BY <1>4 DEF ExchangeLinks, Activating, Ready, Locked, Unfinished, stagedLinks
  <2>2. Pairs.target \in Releases /\ Epoch[Pairs.target] \in Nat
    BY <2>1, TransitionAssumption DEF MigratedInv, Covered
  <2>3. ledger >= Epoch[Pairs.target]
    BY <2>1 DEF MigratedInv, Covered, VerifiedInLedger, Reaches, Open
  <2> QED BY <1>1, <1>2, <2>1, <2>2, <2>3, LoudStep DEF ActiveIsMigrated, Unfinished
<1> QED BY <1>3, <1>4

\* The steps that only look, prepare or record.
LEMMA OthersMigrated ==
  ASSUME TransitionInv, MigratedInv, NEW p \in Callers,
         \/ preflightConverge(p) \/ Lock(p) \/ PreserveReplacedJournal(p)
         \/ guardJournalLinks(p) \/ ensureRecovery(p) \/ CaptureEvidence(p)
         \/ StageSettings(p) \/ CompareSettings(p) \/ RenameSettings(p) \/ AlreadyApplied(p)
         \/ ObserveApplied(p)
         \/ StageLink(p) \/ AlreadyActivated(p) \/ Reconcile(p) \/ Finish(p) \/ Die(p)
  PROVE  MigratedInv'
<1>1. UNCHANGED <<ledger, links, journal>>
  BY DEF preflightConverge, Lock, PreserveReplacedJournal, guardJournalLinks, ensureRecovery,
         CaptureEvidence, StageSettings, CompareSettings, RenameSettings, AlreadyApplied,
         ObserveApplied,
         CreateFile, StageLink, AlreadyActivated, Reconcile, Finish, Die, LinksOnly, durable
<1>2. CASE Give(p)
  BY <1>1, <1>2, QuietStep
<1>3. CASE PreserveReplacedJournal(p)
  <2>1. pc[p] = "preserve" /\ Goto(p, "publish") /\ UNCHANGED plan
    BY <1>3 DEF PreserveReplacedJournal, Move
  <2>2. plan[p].ledger = ledger /\ acceptsLedger(plan[p].pair.target)
    BY <2>1 DEF MigratedInv, Seen
  <2> QED BY <1>1, <2>1, <2>2, QuietStep
<1>4. CASE Reconcile(p) /\ UNCHANGED <<pc, plan>>
  <2>1. pc[p] = "steps"
    BY <1>4 DEF Reconcile, Reconciling, Ready
  <2>2. Goto(p, "steps")
    BY <1>4, <2>1 DEF Goto, TransitionInv, Exclusion
  <2> QED BY <1>1, <1>4, <2>1, <2>2, QuietStep
<1>5. CASE \E to \in {"lock", "admit", "steps", "capture", "journal-evidence", "compare",
                      "rename", "applied", "journal-applied", "stage-link", "activated"} :
             Goto(p, to) /\ UNCHANGED plan /\ pc[p] # "idle"
  BY <1>1, <1>5, QuietStep
<1>6. CASE preflightConverge(p) \/ Lock(p) \/ guardJournalLinks(p)
  BY <1>2, <1>5, <1>6 DEF preflightConverge, Lock, Move, guardJournalLinks
<1>7. CASE ensureRecovery(p) \/ CaptureEvidence(p) \/ ObserveApplied(p)
  BY <1>2, <1>5, <1>7 DEF ensureRecovery, AtStep, CaptureEvidence, ObserveApplied, CreateFile
<1>8. CASE StageSettings(p) \/ CompareSettings(p) \/ RenameSettings(p) \/ AlreadyApplied(p)
  BY <1>5, <1>8 DEF StageSettings, AtStep, CompareSettings, RenameSettings, Move, AlreadyApplied
<1>9. CASE StageLink(p) \/ AlreadyActivated(p)
  BY <1>2, <1>5, <1>9 DEF StageLink, AlreadyActivated, Activating, Ready, LinksOnly
<1>10. CASE Reconcile(p) \/ Finish(p) \/ Die(p)
  BY <1>2, <1>4, <1>10 DEF Reconcile, Finish, Die
<1> QED BY <1>3, <1>6, <1>7, <1>8, <1>9, <1>10

LEMMA VerifyMigrated ==
  ASSUME TransitionInv, MigratedInv, NEW p \in Callers, VerifyStep(p)
  PROVE  MigratedInv'
<1>1. UNCHANGED <<ledger, links, journal>> /\ pc[p] = "steps" /\ Current \in Open
  BY AtCurrent DEF VerifyStep, CreateFile, durable
<1>2. CASE Give(p)
  BY <1>1, <1>2, QuietStep
<1>3. CASE AtDesired(Step) /\ CreateFile(p, "verified", "journal-verified")
  <2>1. Step.mig \in Nat
    BY <1>1 DEF MigratedInv, VerifiedInLedger, Open, Step
  <2>2. Step.kind = "ledger" => ledger >= Step.mig
    BY <1>3, <2>1 DEF AtDesired
  <2>3. Goto(p, "journal-verified") /\ UNCHANGED plan
    BY <1>3 DEF CreateFile
  <2> QED BY <1>1, <2>2, <2>3, QuietStep
<1> QED BY <1>2, <1>3 DEF VerifyStep

LEMMA MigratedNext == TransitionInv /\ MigratedInv /\ [Next]_vars => MigratedInv'
<1> SUFFICES ASSUME TransitionInv, MigratedInv, [Next]_vars PROVE MigratedInv'
    OBVIOUS
<1>1. ASSUME NEW p \in Callers,
             SkipActivation(p) \/ IntendActivation(p) \/ TargetActive(p) \/ BeginReconciling(p)
             \/ CompleteJournal(p)
      PROVE  MigratedInv'
  <2>1. pc[p] \in Locked /\ Unfinished
    BY <1>1 DEF SkipActivation, IntendActivation, TargetActive, BeginReconciling, CompleteJournal,
                Reconciling, Ready, BeforeActivation, Unfinished, Locked, TransitionInv, Facts,
                LinkFacts
  <2>2. CASE \E cp : SaveCheckpoint(p, cp, "steps") /\ (cp = "complete" => Reconciling(p))
    BY <2>1, <2>2, CheckpointsMigrated DEF Reconciling
  <2>3. CASE Give(p) /\ UNCHANGED durable
    BY <2>3, QuietStep DEF durable
  <2> QED BY <1>1, <2>2, <2>3 DEF SkipActivation, IntendActivation, TargetActive,
                                  BeginReconciling, CompleteJournal
<1>2. ASSUME NEW p \in Callers, Converge(p) PROVE MigratedInv'
  BY <1>1, <1>2, AdmitMigrated, PublishMigrated, SwapMigrated, SavesMigrated, LinksMigrated,
     OthersMigrated, VerifyMigrated
     DEF Converge
<1>3. ASSUME NEW p \in Callers, Inspect(p) \/ Die(p) PROVE MigratedInv'
  BY <1>3, InspectMigrated, OthersMigrated
<1>4. CASE UNCHANGED <<ledger, links, journal, pc, plan>>
  <2>1. \A p \in Callers : Seen(p)'
    BY <1>4, SameJournal DEF MigratedInv, Seen, acceptsLedger
  <2> QED BY <1>4, <2>1
          DEF MigratedInv, ActiveIsMigrated, Covered, Unfinished, Pairs, Reaches, acceptsLedger,
            VerifiedInLedger
<1>5. CASE \/ \E m \in Migrations : Edit(m) \/ Restore(m)
           \/ \E k \in Parts : Drift(k)
  BY <1>4, <1>5 DEF Edit, Restore, Drift
<1>6. CASE UNCHANGED vars
  BY <1>4, <1>6 DEF vars, durable
<1> QED BY <1>2, <1>3, <1>5, <1>6 DEF Next

\* No release is ever active on a ledger short of its migrations, whichever way
\* it became active, nor, once the update is finished, on one beyond them (Activate
\* after the last verified step, ParseLedgerV2 before the first).
THEOREM ActiveAlwaysMigrated == Spec => []ActiveIsMigrated
<1>1. Init => MigratedInv
  BY MigratedInit
<1>2. TransitionInv /\ MigratedInv /\ [Next]_vars => MigratedInv'
  BY MigratedNext
<1>3. MigratedInv => ActiveIsMigrated
  BY DEF MigratedInv
<1> QED BY <1>1, <1>2, <1>3, TransitionInvariant, PTL DEF Spec
=============================================================================
