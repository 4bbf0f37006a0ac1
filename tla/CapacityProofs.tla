--------------------------- MODULE CapacityProofs ---------------------------
(***************************************************************************)
(* Admission never promises more than the host has, for any number of      *)
(* slots, any sizes and any width of the unsigned numbers.                 *)
(*                                                                         *)
(* RamNeed and DiskNeed are what each slot has together with what it may   *)
(* still take.  Guests that grow, shrink or go leave them alone or lower   *)
(* them, so that the promises can break only where something is admitted.  *)
(* There the invariant of the measurement under way (Covers) is used: what *)
(* the admission has added up covers what the measured slots may take now, *)
(* by the earlier reading of storage but for what guests have taken since  *)
(* and by the later one but for what they have given back.                 *)
(***************************************************************************)
EXTENDS Capacity, WellFoundedInduction, NaturalsInduction, TLAPS

\* The part of the assumption on the constants that the proofs use: that sums do
\* not overflow is not among it, since the model does not wrap them.
LEMMA NumbersOK ==
  /\ N \in Nat /\ GuestRam \in Nat /\ GuestDisk \in Nat /\ BuilderRam \in Nat
  /\ BuilderDisk \in Nat /\ ImageMax \in Nat /\ RamReserve \in Nat
  /\ DiskReserve \in Nat /\ ForeignDisk \in Nat /\ DiskBudget \in Nat
  /\ ImageMax <= BuilderDisk
  /\ TotalRam \in Nat /\ TotalDisk \in Nat /\ Wrap \in Nat \ {0}
BY CapacityAssumption

-----------------------------------------------------------------------------
(* Sums over the slots.                                                    *)

\* Every set of numbers has a least one.
LEMMA LeastNumber ==
  ASSUME NEW T, T \subseteq Nat, T # {}
  PROVE  \E x \in T : \A y \in T : x <= y
<1>1. \E x \in T : \A y \in T : ~ (<<y, x>> \in OpToRel(<, Nat))
  BY WFMin, NatLessThanWellFounded
<1>2. PICK x \in T : \A y \in T : ~ (<<y, x>> \in OpToRel(<, Nat))
  BY <1>1
<1>3. ASSUME NEW y \in T  PROVE x <= y
  <2>1. ~ (<<y, x>> \in OpToRel(<, Nat))
    BY <1>2
  <2>2. ~ (y < x)
    BY <2>1 DEF OpToRel
  <2> QED  BY <2>2
<1> QED  BY <1>3

\* Induction over the slots, for a set in place of a predicate.
LEMMA UpToN ==
  ASSUME NEW T, 0 \in T, \A n \in 0 .. N - 1 : n \in T => n + 1 \in T
  PROVE  \A n \in 0 .. N : n \in T
<1>1. SUFFICES ASSUME NEW m \in 0 .. N, m \notin T  PROVE FALSE
  OBVIOUS
<1> DEFINE B == {n \in 0 .. N : n \notin T}
<1>2. B \subseteq Nat /\ B # {}
  BY <1>1
<1>3. PICK x \in B : \A y \in B : x <= y
  <2> HIDE DEF B
  <2> QED  BY <1>2, LeastNumber
<1>4. x \in 1 .. N /\ x \notin T /\ x - 1 \in 0 .. N - 1
  BY <1>3, NumbersOK
<1>5. x - 1 \in T
  BY <1>3, <1>4, NumbersOK
<1>6. (x - 1) + 1 \in T
  BY <1>4, <1>5
<1> QED  BY <1>4, <1>6

\* The sums of the first n values of f, as Total takes them.
SumTo(f) == CHOOSE g : g = [n \in 0 .. N |-> IF n = 0 THEN 0 ELSE g[n - 1] + f[n]]

LEMMA TotalIs ==
  ASSUME NEW f
  PROVE  Total(f) = SumTo(f)[N]
BY DEF Total, SumTo

\* The recursion that defines the sums has a solution.
LEMMA SumsExist ==
  ASSUME NEW f
  PROVE  SumTo(f) = [n \in 0 .. N |-> IF n = 0 THEN 0 ELSE SumTo(f)[n - 1] + f[n]]
<1> DEFINE Sums(n, g) == g = [k \in 0 .. n |-> IF k = 0 THEN 0 ELSE g[k - 1] + f[k]]
           T == {n \in 0 .. N : \E g : Sums(n, g)}
<1>1. 0 \in T
  <2>1. Sums(0, [k \in 0 .. 0 |-> 0])
    OBVIOUS
  <2> HIDE DEF Sums
  <2>2. \E g : Sums(0, g)
    BY <2>1
  <2> QED  BY <2>2, NumbersOK
<1>2. ASSUME NEW n \in 0 .. N - 1, n \in T  PROVE n + 1 \in T
  <2>1. PICK g : Sums(n, g)
    BY <1>2
  <2> DEFINE h == [k \in 0 .. n + 1 |-> IF k = n + 1 THEN g[n] + f[n + 1] ELSE g[k]]
  <2>2. ASSUME NEW k \in 0 .. n + 1
        PROVE  h[k] = IF k = 0 THEN 0 ELSE h[k - 1] + f[k]
    <3>1. CASE k = n + 1
      BY <3>1, NumbersOK
    <3>2. CASE k # n + 1
      <4>1. k \in 0 .. n /\ h[k] = g[k]
        BY <3>2, NumbersOK
      <4>2. g[k] = IF k = 0 THEN 0 ELSE g[k - 1] + f[k]
        BY <2>1, <4>1
      <4>3. k # 0 => h[k - 1] = g[k - 1]
        BY <4>1, NumbersOK
      <4> QED  BY <4>1, <4>2, <4>3
    <3> QED  BY <3>1, <3>2
  <2>3. Sums(n + 1, h)
    BY <2>2
  <2>4. n + 1 \in 0 .. N
    BY NumbersOK
  <2> QED  BY <2>3, <2>4
<1>3. N \in T
  <2>1. N \in 0 .. N
    BY NumbersOK
  <2> HIDE DEF T
  <2> QED  BY <1>1, <1>2, <2>1, UpToN
<1>4. \E g : g = [n \in 0 .. N |-> IF n = 0 THEN 0 ELSE g[n - 1] + f[n]]
  BY <1>3
<1> QED  BY <1>4 DEF SumTo

LEMMA SumFacts ==
  ASSUME NEW f \in [Slots -> Int]
  PROVE  /\ SumTo(f)[0] = 0
         /\ \A n \in 0 .. N - 1 : SumTo(f)[n + 1] = SumTo(f)[n] + f[n + 1]
         /\ \A n \in 0 .. N : SumTo(f)[n] \in Int
<1> DEFINE S == SumTo(f)
           T == {n \in 0 .. N : S[n] \in Int}
<1>1. S = [n \in 0 .. N |-> IF n = 0 THEN 0 ELSE S[n - 1] + f[n]]
  BY SumsExist
<1> HIDE DEF S
<1>2. S[0] = 0
  BY <1>1, NumbersOK
<1>3. ASSUME NEW n \in 0 .. N - 1  PROVE S[n + 1] = S[n] + f[n + 1]
  <2>1. n + 1 \in 0 .. N /\ n + 1 # 0 /\ (n + 1) - 1 = n
    BY NumbersOK
  <2> QED  BY <1>1, <2>1
<1>4. 0 \in T
  BY <1>2, NumbersOK
<1>5. ASSUME NEW n \in 0 .. N - 1, n \in T  PROVE n + 1 \in T
  <2>1. n + 1 \in 0 .. N /\ n + 1 \in Slots
    BY NumbersOK DEF Slots
  <2> QED  BY <1>3, <1>5, <2>1
<1>6. \A n \in 0 .. N : n \in T
  <2> HIDE DEF T
  <2> QED  BY <1>4, <1>5, UpToN
<1> QED  BY <1>2, <1>3, <1>6 DEF S

LEMMA TotalInt ==
  ASSUME NEW f \in [Slots -> Int]
  PROVE  Total(f) \in Int
<1>1. N \in 0 .. N
  BY NumbersOK
<1> QED  BY <1>1, TotalIs, SumFacts

\* A sum is no more than another, but for what one slot has more.
LEMMA TotalBump ==
  ASSUME NEW f \in [Slots -> Int], NEW g \in [Slots -> Int], NEW t \in Int,
         NEW c \in Nat, \A s \in Slots : g[s] <= f[s] + (IF s = t THEN c ELSE 0)
  PROVE  Total(g) <= Total(f) + c
<1> DEFINE F == SumTo(f)
           G == SumTo(g)
           T == {n \in 0 .. N : /\ G[n] <= F[n] + c
                                /\ n < t => G[n] <= F[n]}
<1>1. /\ F[0] = 0 /\ G[0] = 0
      /\ \A n \in 0 .. N - 1 : F[n + 1] = F[n] + f[n + 1] /\ G[n + 1] = G[n] + g[n + 1]
      /\ \A n \in 0 .. N : F[n] \in Int /\ G[n] \in Int
  BY SumFacts
<1>2. Total(f) = F[N] /\ Total(g) = G[N]
  BY TotalIs
<1> HIDE DEF F, G
<1>3. 0 \in T
  BY <1>1, NumbersOK
<1>4. ASSUME NEW n \in 0 .. N - 1, n \in T  PROVE n + 1 \in T
  <2>1. n \in 0 .. N /\ n + 1 \in 0 .. N /\ n + 1 \in Slots
    BY NumbersOK DEF Slots
  <2>2. g[n + 1] <= f[n + 1] + (IF n + 1 = t THEN c ELSE 0)
    BY <2>1
  <2>3. f[n + 1] \in Int /\ g[n + 1] \in Int
    BY <2>1
  <2>4. G[n + 1] <= F[n + 1] + c
    BY <1>1, <1>4, <2>1, <2>2, <2>3
  <2>5. n + 1 < t => G[n + 1] <= F[n + 1]
    BY <1>1, <1>4, <2>1, <2>2, <2>3
  <2> QED  BY <2>1, <2>4, <2>5
<1>5. N \in T
  <2>1. N \in 0 .. N
    BY NumbersOK
  <2> HIDE DEF T
  <2> QED  BY <1>3, <1>4, <2>1, UpToN
<1> QED  BY <1>2, <1>5

LEMMA TotalLeq ==
  ASSUME NEW f \in [Slots -> Int], NEW g \in [Slots -> Int],
         \A s \in Slots : g[s] <= f[s]
  PROVE  Total(g) <= Total(f)
<1>1. Total(g) <= Total(f) + 0
  <2>1. \A s \in Slots : g[s] <= f[s] + (IF s = 0 THEN 0 ELSE 0)
    OBVIOUS
  <2> QED  BY <2>1, TotalBump
<1> QED  BY <1>1, TotalInt

LEMMA TotalAdds ==
  ASSUME NEW f \in [Slots -> Int], NEW g \in [Slots -> Int], NEW h \in [Slots -> Int],
         \A s \in Slots : h[s] = f[s] + g[s]
  PROVE  Total(h) = Total(f) + Total(g)
<1> DEFINE F == SumTo(f)
           G == SumTo(g)
           H == SumTo(h)
           T == {n \in 0 .. N : H[n] = F[n] + G[n]}
<1>1. /\ F[0] = 0 /\ G[0] = 0 /\ H[0] = 0
      /\ \A n \in 0 .. N - 1 : /\ F[n + 1] = F[n] + f[n + 1]
                               /\ G[n + 1] = G[n] + g[n + 1]
                               /\ H[n + 1] = H[n] + h[n + 1]
      /\ \A n \in 0 .. N : F[n] \in Int /\ G[n] \in Int /\ H[n] \in Int
  BY SumFacts
<1>2. Total(f) = F[N] /\ Total(g) = G[N] /\ Total(h) = H[N]
  BY TotalIs
<1> HIDE DEF F, G, H
<1>3. 0 \in T
  BY <1>1, NumbersOK
<1>4. ASSUME NEW n \in 0 .. N - 1, n \in T  PROVE n + 1 \in T
  <2>1. n \in 0 .. N /\ n + 1 \in 0 .. N /\ n + 1 \in Slots
    BY NumbersOK DEF Slots
  <2>2. f[n + 1] \in Int /\ g[n + 1] \in Int /\ h[n + 1] = f[n + 1] + g[n + 1]
    BY <2>1
  <2> QED  BY <1>1, <1>4, <2>1, <2>2
<1>5. N \in T
  <2>1. N \in 0 .. N
    BY NumbersOK
  <2> HIDE DEF T
  <2> QED  BY <1>3, <1>4, <2>1, UpToN
<1> QED  BY <1>2, <1>5

LEMMA TotalOfZeros ==
  ASSUME NEW f \in [Slots -> Int], \A s \in Slots : f[s] = 0
  PROVE  Total(f) = 0
<1>1. \A s \in Slots : f[s] = f[s] + f[s]
  OBVIOUS
<1>2. Total(f) = Total(f) + Total(f)
  BY <1>1, TotalAdds
<1> QED  BY <1>2, TotalInt

-----------------------------------------------------------------------------
(* The inductive invariant.                                                *)

Holders == Slots \cup {None, Refresh}

Admission == [kind : {"reserve", "build"}, avail : Int, used : Int, charged : Int,
              at : 1 .. N + 1, ram : Nat, disk : Nat]

CapacityTypeOK ==
    /\ state \in [Slots -> {"available", "provisioning", "held", "draining"}]
    /\ reserved \in [Slots -> BOOLEAN] /\ ready \in [Slots -> BOOLEAN]
    /\ machines \in [Slots -> BOOLEAN]
    /\ ram \in [Slots -> 0 .. GuestRam] /\ disk \in [Slots -> 0 .. GuestDisk]
    /\ cache \in Nat
    /\ builder \in [for : Holders, ram : Nat, disk : Nat, alive : BOOLEAN]
    /\ imageLock \in Holders
    /\ adm \in Admission \cup {NoAdmission}
    /\ grown \in Nat /\ freed \in Nat /\ slack \in Nat

\* Machines are there only for an admitted lease that is through with the image
\* lock and with the builder.
GuestsAdmitted ==
    \A s \in Slots :
        /\ state[s] = "available" => ~reserved[s]
        /\ machines[s] => reserved[s] /\ imageLock # s /\ builder.for # s
        /\ state[s] = "held" => ready[s]

\* A builder that lives works for who has the lock; a dead one does not survive
\* the next holder.
BuilderHeld ==
    /\ builder.for = None => builder = NoBuilder
    /\ builder.alive => builder.for # None /\ builder.for = imageLock
    /\ imageLock # None => builder = NoBuilder \/ builder.alive
    /\ builder.alive => \A s \in Slots : s = builder.for => reserved[s]

\* While an admission measures, its lease waits and no builder is there.
AdmissionHeld ==
    ~Idle =>
        /\ builder = NoBuilder /\ imageLock # None
        /\ adm.kind = "reserve" =>
              /\ imageLock \in Slots
              /\ state[imageLock] = "provisioning" /\ ~reserved[imageLock]
        /\ adm.kind = "build" /\ imageLock \in Slots =>
              state[imageLock] = "provisioning" /\ reserved[imageLock]

ControlInv == CapacityTypeOK /\ GuestsAdmitted /\ BuilderHeld /\ AdmissionHeld

\* What the admission asks for itself.
OwnRam == IF adm.kind = "reserve" THEN GuestRam
          ELSE IF imageLock = Refresh THEN BuilderRam ELSE More(BuilderRam, GuestRam)
OwnDisk == IF adm.kind = "reserve" THEN GuestDisk
           ELSE IF imageLock = Refresh THEN BuilderDisk ELSE More(BuilderDisk, GuestDisk)

\* The slots whose commitment it has added, and what they may take at present.
Measured(s) == s < adm.at /\ Counted(s) /\ s # imageLock
RamMeasured == [s \in Slots |-> IF Measured(s) THEN pendingMemory(s) ELSE 0]
DiskMeasured == [s \in Slots |-> IF Measured(s) THEN GuestDisk - disk[s] ELSE 0]
DiskAtLimit == [s \in Slots |-> IF Measured(s) THEN GuestDisk ELSE disk[s]]

\* What has been added covers what the slots may take, by the later measurement
\* of storage but for what was given back, and by the earlier one but for what
\* was taken.
Covers ==
    /\ OwnRam + Total(RamMeasured) <= adm.ram
    /\ OwnDisk + Total(DiskMeasured) <= adm.disk + freed
    /\ OwnDisk + cache + Total(DiskAtLimit) <= adm.charged + adm.disk + grown
    /\ adm.used = ForeignDisk + adm.charged

MeasuredInv == ~Idle => Covers

\* What every slot and the builder have together with what they may still take.
RamNeed == [s \in Slots |-> IF Growing(s) /\ ~ready[s] THEN GuestRam ELSE ram[s]]
DiskNeed == [s \in Slots |-> IF Growing(s) THEN GuestDisk ELSE disk[s]]
BuilderRamNeed ==
    IF builder.for = None THEN 0
    ELSE IF builder.for = Refresh THEN BuilderRam ELSE More(BuilderRam, GuestRam)
BuilderDiskNeed ==
    IF builder.for = None THEN 0
    ELSE IF builder.for = Refresh THEN BuilderDisk ELSE More(BuilderDisk, GuestDisk)

RamFits == Total(RamNeed) + BuilderRamNeed + RamReserve <= TotalRam
DiskFits ==
    LET need == cache + Total(DiskNeed) + BuilderDiskNeed IN
    /\ ForeignDisk + need + DiskReserve <= TotalDisk + slack
    /\ DiskBudget # 0 => need <= DiskBudget + slack

CapacityInv == ControlInv /\ MeasuredInv /\ RamFits /\ DiskFits

\* What an image overdraws is a number.
LEMMA OverdraftNat ==
  ASSUME NEW size \in 0 .. ImageMax
  PROVE  Overdraft(size) \in Nat
BY NumbersOK DEF Overdraft, More

LEMMA HoldersDiffer ==
  /\ None \notin Slots /\ Refresh \notin Slots /\ None # Refresh
  /\ Slots \subseteq Int
BY NumbersOK DEF None, Refresh, Slots

\* An admission is under way exactly when there is one of the two kinds.
LEMMA AdmissionShape ==
  ASSUME CapacityTypeOK
  PROVE  /\ ~Idle <=> adm \in Admission
         /\ NoAdmission \notin Admission
<1>1. NoAdmission \notin Admission
  <2>1. NoAdmission.kind = "none"
    BY DEF NoAdmission
  <2>2. \A a \in Admission : a.kind # "none"
    BY DEF Admission
  <2> QED  BY <2>1, <2>2
<1> QED  BY <1>1 DEF CapacityTypeOK, Idle

-----------------------------------------------------------------------------
(* Who holds what.                                                         *)

\* A slot's guests, lease and lock change together.
LEMMA LeaseStepControl ==
  ASSUME ControlInv, NEW s \in Slots,
         acquireSlot(s) \/ MarkHeld(s) \/ BeginDrain(s) \/ FinishDrain(s)
  PROVE  ControlInv'
<1> USE HoldersDiffer, NumbersOK DEF ControlInv, leaseVars, guestVars
<1>1. CASE acquireSlot(s)
  <2> USE <1>1 DEF acquireSlot
  <2>1. CapacityTypeOK'
    BY DEF CapacityTypeOK
  <2>2. GuestsAdmitted'
    BY DEF CapacityTypeOK, GuestsAdmitted
  <2>3. BuilderHeld' /\ AdmissionHeld'
    BY DEF BuilderHeld, AdmissionHeld, Idle
  <2> QED  BY <2>1, <2>2, <2>3
<1>2. CASE MarkHeld(s)
  <2> USE <1>2 DEF MarkHeld
  <2>1. CapacityTypeOK'
    BY DEF CapacityTypeOK
  <2>2. GuestsAdmitted'
    BY DEF CapacityTypeOK, GuestsAdmitted
  <2>3. BuilderHeld' /\ AdmissionHeld'
    BY DEF BuilderHeld, AdmissionHeld, Idle
  <2> QED  BY <2>1, <2>2, <2>3
<1>3. CASE BeginDrain(s)
  <2> USE <1>3 DEF BeginDrain
  <2>1. CapacityTypeOK'
    BY DEF CapacityTypeOK
  <2>2. GuestsAdmitted'
    BY DEF CapacityTypeOK, GuestsAdmitted
  <2>3. BuilderHeld' /\ AdmissionHeld'
    BY DEF BuilderHeld, AdmissionHeld, Idle
  <2> QED  BY <2>1, <2>2, <2>3
<1>4. CASE FinishDrain(s)
  <2> USE <1>4 DEF FinishDrain
  <2>1. CapacityTypeOK'
    BY DEF CapacityTypeOK
  <2>2. GuestsAdmitted'
    BY DEF CapacityTypeOK, GuestsAdmitted
  <2>3. BuilderHeld' /\ AdmissionHeld'
    BY DEF BuilderHeld, AdmissionHeld, Idle, CapacityTypeOK
  <2> QED  BY <2>1, <2>2, <2>3
<1> QED  BY <1>1, <1>2, <1>3, <1>4

LEMMA GuestStepControl ==
  ASSUME ControlInv, NEW s \in Slots,
         \/ GuestOccupies(s) \/ GuestWrites(s) \/ GuestDiscards(s)
         \/ DeleteMachines(s) \/ UseBase(s)
  PROVE  ControlInv'
<1> USE HoldersDiffer, NumbersOK DEF ControlInv, leaseVars, guestVars
<1>1. CASE GuestOccupies(s)
  <2> USE <1>1 DEF GuestOccupies
  <2>1. CapacityTypeOK'
    BY DEF CapacityTypeOK
  <2>2. GuestsAdmitted' /\ BuilderHeld' /\ AdmissionHeld'
    BY DEF GuestsAdmitted, BuilderHeld, AdmissionHeld, Idle
  <2> QED  BY <2>1, <2>2
<1>2. CASE GuestWrites(s)
  <2> USE <1>2 DEF GuestWrites
  <2>1. CapacityTypeOK'
    BY DEF CapacityTypeOK
  <2>2. GuestsAdmitted' /\ BuilderHeld' /\ AdmissionHeld'
    BY DEF GuestsAdmitted, BuilderHeld, AdmissionHeld, Idle
  <2> QED  BY <2>1, <2>2
<1>3. CASE GuestDiscards(s)
  <2> USE <1>3 DEF GuestDiscards
  <2>1. CapacityTypeOK'
    BY DEF CapacityTypeOK
  <2>2. GuestsAdmitted' /\ BuilderHeld' /\ AdmissionHeld'
    BY DEF GuestsAdmitted, BuilderHeld, AdmissionHeld, Idle
  <2> QED  BY <2>1, <2>2
<1>4. CASE DeleteMachines(s)
  <2> USE <1>4 DEF DeleteMachines
  <2>1. CapacityTypeOK'
    BY DEF CapacityTypeOK
  <2>2. GuestsAdmitted'
    BY DEF GuestsAdmitted, CapacityTypeOK
  <2>3. BuilderHeld' /\ AdmissionHeld'
    BY DEF BuilderHeld, AdmissionHeld, Idle
  <2> QED  BY <2>1, <2>2, <2>3
<1>5. CASE UseBase(s)
  <2> USE <1>5 DEF UseBase
  <2>1. Admitted(s) \in BOOLEAN
    BY DEF Admitted
  <2>2. CapacityTypeOK'
    BY <2>1 DEF CapacityTypeOK, Holders
  <2>3. GuestsAdmitted'
    BY DEF GuestsAdmitted, CapacityTypeOK, Admitted, NoBuilder
  <2>4. BuilderHeld' /\ AdmissionHeld'
    BY DEF BuilderHeld, AdmissionHeld, Idle, NoBuilder
  <2> QED  BY <2>2, <2>3, <2>4
<1> QED  BY <1>1, <1>2, <1>3, <1>4, <1>5

LEMMA BuilderStepControl ==
  ASSUME ControlInv,
         EndRefresh \/ BuilderGrows \/ PublishImage \/ ClientDies
  PROVE  ControlInv'
<1> USE HoldersDiffer, NumbersOK DEF ControlInv, leaseVars, guestVars
<1>1. CASE EndRefresh
  <2> USE <1>1 DEF EndRefresh
  <2>1. CapacityTypeOK'
    BY DEF CapacityTypeOK, Holders
  <2>2. GuestsAdmitted'
    BY DEF GuestsAdmitted
  <2>3. BuilderHeld' /\ AdmissionHeld'
    BY DEF BuilderHeld, AdmissionHeld, Idle, NoBuilder
  <2> QED  BY <2>1, <2>2, <2>3
<1>2. CASE BuilderGrows
  <2> USE <1>2 DEF BuilderGrows
  <2>0. builder.for' = builder.for /\ builder.alive' = builder.alive
    BY DEF CapacityTypeOK
  <2>1. CapacityTypeOK'
    BY DEF CapacityTypeOK
  <2>2. GuestsAdmitted'
    BY <2>0 DEF GuestsAdmitted
  <2>3. builder # NoBuilder
    BY DEF NoBuilder
  <2>4. BuilderHeld'
    BY <2>0, <2>3 DEF BuilderHeld
  <2>5. AdmissionHeld'
    BY <2>3 DEF AdmissionHeld, Idle
  <2> QED  BY <2>1, <2>2, <2>4, <2>5
<1>3. CASE PublishImage
  <2> USE <1>3 DEF PublishImage
  <2>1. CapacityTypeOK'
    <3>1. machines' \in [Slots -> BOOLEAN]
      BY DEF CapacityTypeOK, Admitted
    <3>2. cache' \in Nat
      BY DEF CapacityTypeOK
    <3>3. builder' \in [for : Holders, ram : Nat, disk : Nat, alive : BOOLEAN]
      BY DEF NoBuilder, Holders
    <3>4. slack' \in Nat
      <4>1. PICK size \in 0 .. ImageMax : slack' = slack + Overdraft(size)
        OBVIOUS
      <4> QED  BY <4>1, OverdraftNat DEF CapacityTypeOK
    <3> QED  BY <3>1, <3>2, <3>3, <3>4 DEF CapacityTypeOK, Holders
  <2>2. GuestsAdmitted'
    BY DEF GuestsAdmitted, CapacityTypeOK, Admitted, NoBuilder
  <2>3. BuilderHeld' /\ AdmissionHeld'
    BY DEF BuilderHeld, AdmissionHeld, Idle, NoBuilder
  <2> QED  BY <2>1, <2>2, <2>3
<1>4. CASE ClientDies
  <2> USE <1>4 DEF ClientDies
  <2>0. builder.for' = builder.for /\ builder.alive' = FALSE /\ builder.for # None
    BY DEF CapacityTypeOK, BuilderHeld
  <2>1. CapacityTypeOK'
    BY DEF CapacityTypeOK, Holders
  <2>2. GuestsAdmitted'
    BY <2>0 DEF GuestsAdmitted
  <2>3. BuilderHeld' /\ AdmissionHeld'
    BY <2>0 DEF BuilderHeld, AdmissionHeld, Idle
  <2> QED  BY <2>1, <2>2, <2>3
<1> QED  BY <1>1, <1>2, <1>3, <1>4

LEMMA LockControl ==
  ASSUME ControlInv,
         LockForRefresh \/ \E s \in Slots : LockForLease(s)
  PROVE  ControlInv'
<1> USE HoldersDiffer, NumbersOK DEF ControlInv, leaseVars, guestVars
<1>1. PICK who \in Slots \cup {Refresh} :
        Lock(who) /\ (who \in Slots => state[who] = "provisioning" /\ ~reserved[who])
  BY DEF LockForLease, LockForRefresh
<1> USE <1>1 DEF Lock
<1>2. CapacityTypeOK'
  BY DEF CapacityTypeOK, Holders, NoBuilder
<1>3. GuestsAdmitted'
  BY DEF GuestsAdmitted, NoBuilder
<1>4. BuilderHeld'
  BY DEF BuilderHeld, NoBuilder
<1>5. AdmissionHeld'
  BY DEF AdmissionHeld, Idle
<1> QED  BY <1>2, <1>3, <1>4, <1>5

\* The sums that the measurements take are numbers.
LEMMA MeasurementsInt ==
  ASSUME CapacityTypeOK
  PROVE  /\ Total(ram) \in Int /\ Total(disk) \in Int
         /\ Available \in Int /\ Used \in Int /\ BudgetUsed \in Int
<1>1. ram \in [Slots -> Int] /\ disk \in [Slots -> Int]
  BY NumbersOK DEF CapacityTypeOK
<1>2. Total(ram) \in Int /\ Total(disk) \in Int
  BY <1>1, TotalInt
<1> QED  BY <1>2, NumbersOK DEF CapacityTypeOK, Available, Used, BudgetUsed

LEMMA MoreNat ==
  /\ More(BuilderRam, GuestRam) \in Nat /\ More(BuilderDisk, GuestDisk) \in Nat
  /\ More(BuilderRam, GuestRam) >= GuestRam /\ More(BuilderRam, GuestRam) >= BuilderRam
  /\ More(BuilderDisk, GuestDisk) >= GuestDisk
  /\ More(BuilderDisk, GuestDisk) >= BuilderDisk
BY NumbersOK DEF More

\* The first measurement.
LEMMA BeginControl ==
  ASSUME ControlInv,
         \/ \E s \in Slots : reserveEnvironment(s)
         \/ \E s \in Slots \cup {Refresh} : admitBuild(s)
  PROVE  ControlInv'
<1> USE HoldersDiffer, NumbersOK, MoreNat DEF ControlInv, leaseVars, guestVars
<1>0. Available \in Int /\ Used \in Int /\ BudgetUsed \in Int
  BY MeasurementsInt
<1>1. ASSUME NEW kind \in {"reserve", "build"}, NEW r \in Nat, NEW d \in Nat,
             Begin(kind, r, d), builder = NoBuilder, imageLock # None,
             kind = "reserve" =>
               /\ imageLock \in Slots
               /\ state[imageLock] = "provisioning" /\ ~reserved[imageLock],
             kind = "build" /\ imageLock \in Slots =>
               state[imageLock] = "provisioning" /\ reserved[imageLock]
      PROVE  ControlInv'
  <2> USE <1>1 DEF Begin
  <2>1. adm' \in Admission /\ adm'.kind = kind
    BY <1>0 DEF Admission
  <2>2. CapacityTypeOK'
    BY <2>1 DEF CapacityTypeOK
  <2>3. GuestsAdmitted' /\ BuilderHeld'
    BY DEF GuestsAdmitted, BuilderHeld
  <2>4. AdmissionHeld'
    BY <2>1 DEF AdmissionHeld
  <2> QED  BY <2>2, <2>3, <2>4
<1>2. ASSUME NEW s \in Slots, reserveEnvironment(s)  PROVE ControlInv'
  <2>1. builder = NoBuilder
    BY <1>2 DEF reserveEnvironment, BuilderHeld, CapacityTypeOK
  <2> QED  BY <1>1, <1>2, <2>1 DEF reserveEnvironment
<1>3. ASSUME NEW s \in Slots \cup {Refresh}, admitBuild(s)  PROVE ControlInv'
  BY <1>1, <1>3 DEF admitBuild
<1> QED  BY <1>2, <1>3

\* What one measurement adds.
LEMMA MeasureAdds ==
  ASSUME ControlInv, outstandingCommitment
  PROVE  /\ adm \in Admission /\ adm' \in Admission /\ adm.at \in Slots
         /\ adm'.kind = adm.kind /\ adm'.used = adm.used /\ adm'.charged = adm.charged
         /\ adm'.at = adm.at + 1
         /\ IF Counted(adm.at) /\ adm.at # imageLock
            THEN /\ adm'.ram = adm.ram + pendingMemory(adm.at)
                 /\ adm'.disk >= adm.disk + (GuestDisk - disk[adm.at])
            ELSE adm'.ram = adm.ram /\ adm'.disk = adm.disk
<1> USE NumbersOK
<1>1. adm \in Admission /\ adm.at \in Slots
  BY AdmissionShape DEF outstandingCommitment, ControlInv
<1>2. adm.at \in 1 .. N + 1 /\ adm.ram \in Nat /\ adm.disk \in Nat /\ adm.at + 1 \in 1 .. N + 1
  BY <1>1 DEF Admission, Slots
<1>3. PICK credit \in 0 .. disk[adm.at] :
        adm' = IF Counted(adm.at) /\ adm.at # imageLock
               THEN [adm EXCEPT !.at = @ + 1, !.ram = @ + pendingMemory(adm.at),
                       !.disk = @ + GuestDisk - Less(GuestDisk, credit)]
               ELSE [adm EXCEPT !.at = @ + 1]
  BY DEF outstandingCommitment, allocationUsage
<1>4. CASE Counted(adm.at) /\ adm.at # imageLock
  <2> DEFINE r == adm.ram + pendingMemory(adm.at)
             d == adm.disk + GuestDisk - Less(GuestDisk, credit)
  <2>1. r \in Nat
    BY <1>2 DEF pendingMemory
  <2>2. d \in Nat /\ d >= adm.disk + (GuestDisk - disk[adm.at])
    <3>1. disk[adm.at] \in 0 .. GuestDisk
      BY <1>1 DEF ControlInv, CapacityTypeOK
    <3> QED  BY <1>2, <1>3, <3>1 DEF Less
  <2>3. adm' = [adm EXCEPT !.at = adm.at + 1, !.ram = r, !.disk = d]
    BY <1>3, <1>4
  <2> HIDE DEF r, d
  <2>4. /\ adm' \in Admission
        /\ adm'.kind = adm.kind /\ adm'.used = adm.used /\ adm'.charged = adm.charged
        /\ adm'.at = adm.at + 1 /\ adm'.ram = r /\ adm'.disk = d
    BY <1>1, <1>2, <2>1, <2>2, <2>3 DEF Admission
  <2> QED  BY <1>1, <1>4, <2>2, <2>4 DEF r
<1>5. CASE ~ (Counted(adm.at) /\ adm.at # imageLock)
  <2>1. adm' = [adm EXCEPT !.at = adm.at + 1]
    BY <1>3, <1>5
  <2>2. /\ adm' \in Admission
        /\ adm'.kind = adm.kind /\ adm'.used = adm.used /\ adm'.charged = adm.charged
        /\ adm'.at = adm.at + 1 /\ adm'.ram = adm.ram /\ adm'.disk = adm.disk
    BY <1>1, <1>2, <2>1 DEF Admission
  <2> QED  BY <1>1, <1>5, <2>2
<1> QED  BY <1>4, <1>5

LEMMA MeasureControl ==
  ASSUME ControlInv, outstandingCommitment
  PROVE  ControlInv'
<1> USE DEF ControlInv, leaseVars, guestVars, outstandingCommitment
<1>1. adm' \in Admission /\ adm'.kind = adm.kind
  BY MeasureAdds
<1>2. CapacityTypeOK'
  BY <1>1 DEF CapacityTypeOK
<1>3. GuestsAdmitted' /\ BuilderHeld'
  BY DEF GuestsAdmitted, BuilderHeld
<1>4. AdmissionHeld'
  BY <1>1 DEF AdmissionHeld
<1> QED  BY <1>2, <1>3, <1>4

LEMMA VerdictControl ==
  ASSUME ControlInv, Admit \/ Refuse
  PROVE  ControlInv'
<1> USE HoldersDiffer, NumbersOK DEF ControlInv, leaseVars, guestVars
<1>0. adm \in Admission /\ builder = NoBuilder /\ imageLock \in Slots \cup {Refresh}
  BY AdmissionShape DEF AdmissionHeld, Admit, Refuse, CapacityTypeOK, Holders
<1>1. CASE Admit
  <2> USE <1>0, <1>1 DEF Admit
  <2>1. CapacityTypeOK'
    <3>1. slack' \in Nat /\ grown' \in Nat /\ freed' \in Nat
      BY DEF Less, CapacityTypeOK
    <3>2. reserved' \in [Slots -> BOOLEAN]
      BY DEF CapacityTypeOK, AdmissionHeld, Admission
    <3>3. builder' \in [for : Holders, ram : Nat, disk : Nat, alive : BOOLEAN]
      <4>1. CASE adm.kind = "reserve"
        BY <4>1 DEF CapacityTypeOK
      <4>2. CASE adm.kind # "reserve"
        <5>1. builder' = [NoBuilder EXCEPT !.for = imageLock, !.alive = TRUE]
          BY <4>2
        <5>2. imageLock \in Holders
          BY DEF CapacityTypeOK
        <5> QED  BY <5>1, <5>2 DEF NoBuilder
      <4> QED  BY <4>1, <4>2
    <3> QED  BY <3>1, <3>2, <3>3 DEF CapacityTypeOK
  <2>2. CASE adm.kind = "reserve"
    <3> USE <2>2
    <3>1. GuestsAdmitted'
      BY DEF GuestsAdmitted, CapacityTypeOK, AdmissionHeld
    <3>2. BuilderHeld' /\ AdmissionHeld'
      BY DEF BuilderHeld, AdmissionHeld, Idle, NoBuilder
    <3> QED  BY <2>1, <3>1, <3>2
  <2>3. CASE adm.kind # "reserve"
    <3> USE <2>3
    <3>0. builder'.for = imageLock /\ builder'.alive /\ adm.kind = "build"
      BY DEF NoBuilder, Admission
    <3>1. GuestsAdmitted'
      BY <3>0 DEF GuestsAdmitted
    <3>2. BuilderHeld' /\ AdmissionHeld'
      BY <3>0 DEF BuilderHeld, AdmissionHeld, Idle
    <3> QED  BY <2>1, <3>1, <3>2
  <2> QED  BY <2>2, <2>3
<1>2. CASE Refuse
  <2> USE <1>0, <1>2 DEF Refuse
  <2>1. CapacityTypeOK'
    <3>1. /\ state' \in [Slots -> {"available", "provisioning", "held", "draining"}]
          /\ reserved' \in [Slots -> BOOLEAN] /\ ready' \in [Slots -> BOOLEAN]
      <4>1. CASE imageLock = Refresh
        BY <4>1 DEF CapacityTypeOK
      <4>2. CASE imageLock # Refresh
        <5>1. /\ state' = [state EXCEPT ![imageLock] = "available"]
              /\ reserved' = [reserved EXCEPT ![imageLock] = FALSE] /\ ready' = ready
          BY <4>2
        <5> QED  BY <5>1 DEF CapacityTypeOK
      <4> QED  BY <4>1, <4>2
    <3>2. imageLock' \in Holders
      BY DEF Holders
    <3> QED  BY <3>1, <3>2 DEF CapacityTypeOK
  <2>2. GuestsAdmitted'
    BY DEF GuestsAdmitted, CapacityTypeOK, NoBuilder
  <2>3. BuilderHeld' /\ AdmissionHeld'
    BY DEF BuilderHeld, AdmissionHeld, Idle, NoBuilder
  <2> QED  BY <2>1, <2>2, <2>3
<1> QED  BY <1>1, <1>2

LEMMA NextControl ==
  ASSUME ControlInv, Next
  PROVE  ControlInv'
BY LeaseStepControl, GuestStepControl, BuilderStepControl, LockControl, BeginControl,
   MeasureControl, VerdictControl DEF Next, SlotStep
-----------------------------------------------------------------------------
(* What an admission has measured.                                         *)

AmountsOK ==
    /\ ram \in [Slots -> Int] /\ disk \in [Slots -> Int]
    /\ RamMeasured \in [Slots -> Int] /\ DiskMeasured \in [Slots -> Int]
    /\ DiskAtLimit \in [Slots -> Int]
    /\ RamNeed \in [Slots -> Int] /\ DiskNeed \in [Slots -> Int]
    /\ OwnRam \in Nat /\ OwnDisk \in Nat
    /\ BuilderRamNeed \in Nat /\ BuilderDiskNeed \in Nat

LEMMA AmountsInt == CapacityTypeOK => AmountsOK
<1> SUFFICES ASSUME CapacityTypeOK PROVE AmountsOK
  OBVIOUS
<1> USE NumbersOK, MoreNat DEF CapacityTypeOK
<1>1. ram \in [Slots -> Int] /\ disk \in [Slots -> Int]
  OBVIOUS
<1>2. \A s \in Slots : ram[s] \in Int /\ disk[s] \in Int /\ pendingMemory(s) \in Int
  BY <1>1 DEF pendingMemory
<1>3. RamMeasured \in [Slots -> Int] /\ DiskMeasured \in [Slots -> Int]
      /\ DiskAtLimit \in [Slots -> Int]
  BY <1>2 DEF RamMeasured, DiskMeasured, DiskAtLimit
<1>4. RamNeed \in [Slots -> Int] /\ DiskNeed \in [Slots -> Int]
  BY <1>2 DEF RamNeed, DiskNeed
<1>5. OwnRam \in Nat /\ OwnDisk \in Nat
  BY DEF OwnRam, OwnDisk
<1>6. BuilderRamNeed \in Nat /\ BuilderDiskNeed \in Nat
  BY DEF BuilderRamNeed, BuilderDiskNeed
<1> QED  BY <1>1, <1>3, <1>4, <1>5, <1>6 DEF AmountsOK

LEMMA AmountsIntPrimed == CapacityTypeOK' => AmountsOK'
BY AmountsInt, PTL

LEMMA TotalsPrimed ==
  /\ Total(ram)' = Total(ram') /\ Total(disk)' = Total(disk')
  /\ Total(RamMeasured)' = Total(RamMeasured')
  /\ Total(DiskMeasured)' = Total(DiskMeasured')
  /\ Total(DiskAtLimit)' = Total(DiskAtLimit')
  /\ Total(RamNeed)' = Total(RamNeed') /\ Total(DiskNeed)' = Total(DiskNeed')
BY DEF Total

\* While leases stand still, what the guest of one slot takes or gives back is
\* at most what grown and freed record of it.
LEMMA GuestKeepsCover ==
  ASSUME ControlInv, ControlInv', Covers, ~Idle, NEW t \in Slots,
         UNCHANGED <<leaseVars, cache, builder, imageLock, adm>>,
         \A s \in Slots : s # t => disk'[s] = disk[s],
         freed <= freed', disk[t] - disk'[t] <= freed' - freed,
         grown <= grown', disk'[t] - disk[t] <= grown' - grown
  PROVE  Covers'
<1> USE NumbersOK DEF ControlInv, leaseVars
<1>0. adm \in Admission /\ t \in Int
  BY AdmissionShape, HoldersDiffer
<1>1. AmountsOK /\ AmountsOK'
  BY AmountsInt, AmountsIntPrimed
<1>2. /\ OwnRam' = OwnRam /\ OwnDisk' = OwnDisk
      /\ \A s \in Slots : Measured(s)' = Measured(s) /\ pendingMemory(s)' = pendingMemory(s)
  BY DEF OwnRam, OwnDisk, Measured, Counted, pendingMemory
<1>3. RamMeasured' = RamMeasured
  BY <1>2 DEF RamMeasured
<1>4. freed' - freed \in Nat /\ grown' - grown \in Nat
  <2>1. freed \in Nat /\ grown \in Nat
    BY DEF CapacityTypeOK
  <2>2. freed' \in Nat /\ grown' \in Nat
    BY DEF CapacityTypeOK
  <2> QED  BY <2>1, <2>2
<1>5. \A s \in Slots : disk[s] \in Int /\ disk'[s] \in Int
  BY <1>1 DEF AmountsOK
<1>6. Total(DiskMeasured') <= Total(DiskMeasured) + (freed' - freed)
  <2>1. \A s \in Slots : DiskMeasured'[s]
                           <= DiskMeasured[s] + (IF s = t THEN freed' - freed ELSE 0)
    BY <1>2, <1>4, <1>5 DEF DiskMeasured
  <2> QED  BY <1>0, <1>1, <1>4, <2>1, TotalBump DEF AmountsOK
<1>7. Total(DiskAtLimit') <= Total(DiskAtLimit) + (grown' - grown)
  <2>1. \A s \in Slots : DiskAtLimit'[s]
                           <= DiskAtLimit[s] + (IF s = t THEN grown' - grown ELSE 0)
    BY <1>2, <1>4, <1>5 DEF DiskAtLimit
  <2> QED  BY <1>0, <1>1, <1>4, <2>1, TotalBump DEF AmountsOK
<1>8. /\ Total(DiskMeasured) \in Int /\ Total(DiskMeasured') \in Int
      /\ Total(DiskAtLimit) \in Int /\ Total(DiskAtLimit') \in Int
  BY <1>1, TotalInt DEF AmountsOK
<1>9. /\ OwnDisk \in Nat /\ adm.disk \in Nat /\ adm.charged \in Int /\ cache \in Nat
      /\ freed \in Nat /\ freed' \in Nat /\ grown \in Nat /\ grown' \in Nat
  BY <1>0, <1>1 DEF AmountsOK, CapacityTypeOK, Admission
<1>10. OwnRam' + Total(RamMeasured)' <= adm'.ram
  BY <1>2, <1>3, TotalsPrimed DEF Covers
<1>11. OwnDisk' + Total(DiskMeasured)' <= adm'.disk + freed'
  BY <1>2, <1>6, <1>8, <1>9, TotalsPrimed DEF Covers
<1>12. OwnDisk' + cache' + Total(DiskAtLimit)' <= adm'.charged + adm'.disk + grown'
  BY <1>2, <1>7, <1>8, <1>9, TotalsPrimed DEF Covers
<1> QED  BY <1>10, <1>11, <1>12 DEF Covers

\* The first measurement covers the admission itself.
LEMMA BeginCovers ==
  ASSUME ControlInv, ControlInv',
         \/ \E s \in Slots : reserveEnvironment(s)
         \/ \E s \in Slots \cup {Refresh} : admitBuild(s)
  PROVE  Covers'
<1> USE NumbersOK, HoldersDiffer DEF ControlInv, leaseVars, guestVars
<1>1. AmountsOK /\ AmountsOK'
  BY AmountsInt, AmountsIntPrimed
<1>2. PICK kind \in {"reserve", "build"}, r \in Nat, d \in Nat :
        /\ Begin(kind, r, d) /\ builder = NoBuilder
        /\ r = IF kind = "reserve" THEN GuestRam
               ELSE IF imageLock = Refresh THEN BuilderRam ELSE More(BuilderRam, GuestRam)
        /\ d = IF kind = "reserve" THEN GuestDisk
               ELSE IF imageLock = Refresh THEN BuilderDisk ELSE More(BuilderDisk, GuestDisk)
  <2>1. CASE \E s \in Slots : reserveEnvironment(s)
    <3>1. PICK s \in Slots : reserveEnvironment(s)
      BY <2>1
    <3>2. builder = NoBuilder
      BY <3>1 DEF reserveEnvironment, BuilderHeld, CapacityTypeOK
    <3> QED  BY <3>1, <3>2 DEF reserveEnvironment
  <2>2. CASE \E s \in Slots \cup {Refresh} : admitBuild(s)
    BY <2>2, MoreNat DEF admitBuild
  <2> QED  BY <2>1, <2>2
<1>3. /\ adm'.kind = kind /\ adm'.ram = r /\ adm'.disk = d /\ adm'.at = 1
      /\ adm'.used = Used /\ adm'.charged = BudgetUsed
      /\ grown' = 0 /\ freed' = 0 /\ UNCHANGED <<disk, cache, imageLock>>
  BY <1>2 DEF Begin
<1>4. OwnRam' = r /\ OwnDisk' = d
  BY <1>2, <1>3 DEF OwnRam, OwnDisk
<1>5. \A s \in Slots : ~ Measured(s)'
  BY <1>3 DEF Measured, Slots
<1>6. Total(RamMeasured') = 0 /\ Total(DiskMeasured') = 0
  <2>1. \A s \in Slots : RamMeasured'[s] = 0 /\ DiskMeasured'[s] = 0
    BY <1>5 DEF RamMeasured, DiskMeasured
  <2> QED  BY <1>1, <2>1, TotalOfZeros DEF AmountsOK
<1>7. Total(DiskAtLimit') = Total(disk)
  <2>1. DiskAtLimit' = disk
    BY <1>1, <1>3, <1>5 DEF DiskAtLimit, AmountsOK
  <2> QED  BY <2>1
<1>8. BudgetUsed = cache + Total(disk) /\ Used = ForeignDisk + BudgetUsed
  <2>1. builder.disk = 0
    BY <1>2 DEF NoBuilder
  <2> QED  BY <2>1, MeasurementsInt DEF BudgetUsed, Used, CapacityTypeOK
<1>9. Total(disk) \in Int /\ cache \in Nat
  BY MeasurementsInt DEF CapacityTypeOK
<1> QED  BY <1>3, <1>4, <1>6, <1>7, <1>8, <1>9, TotalsPrimed DEF Covers

\* A measurement covers one slot more.
LEMMA MeasureCovers ==
  ASSUME ControlInv, ControlInv', Covers, outstandingCommitment
  PROVE  Covers'
<1> USE NumbersOK, HoldersDiffer DEF ControlInv, leaseVars, guestVars
<1>0. PICK t \in Slots : t = adm.at
  BY MeasureAdds
<1> DEFINE more == Counted(t) /\ t # imageLock
           p == IF more THEN pendingMemory(t) ELSE 0
           q == IF more THEN GuestDisk - disk[t] ELSE 0
<1>1. AmountsOK /\ AmountsOK'
  BY AmountsInt, AmountsIntPrimed
<1>2. /\ adm \in Admission /\ adm' \in Admission /\ t \in Slots
      /\ adm'.kind = adm.kind /\ adm'.used = adm.used /\ adm'.charged = adm.charged
      /\ adm'.at = t + 1 /\ adm'.ram = adm.ram + p /\ adm'.disk >= adm.disk + q
  <2>1. adm \in Admission => adm.ram \in Nat /\ adm.disk \in Nat
    BY DEF Admission
  <2> QED  BY <1>0, <2>1, MeasureAdds
<1>3. UNCHANGED <<state, reserved, ready, disk, cache, builder, imageLock, grown, freed>>
  BY DEF outstandingCommitment
<1>4. p \in Nat /\ q \in Nat
  <2>1. pendingMemory(t) \in Nat
    BY DEF pendingMemory
  <2>2. disk[t] \in 0 .. GuestDisk
    BY DEF CapacityTypeOK
  <2> QED  BY <2>1, <2>2
<1>5. OwnRam' = OwnRam /\ OwnDisk' = OwnDisk
  BY <1>2, <1>3 DEF OwnRam, OwnDisk
<1>6. /\ \A s \in Slots : s # t => (Measured(s)' <=> Measured(s))
      /\ ~ Measured(t) /\ (Measured(t)' <=> more)
      /\ \A s \in Slots : pendingMemory(s)' = pendingMemory(s)
  <2>1. \A s \in Slots : (Counted(s)' <=> Counted(s)) /\ pendingMemory(s)' = pendingMemory(s)
    BY <1>3 DEF Counted, pendingMemory
  <2>2. t \in Int /\ \A s \in Slots : s # t => (s < t + 1 <=> s < t)
    OBVIOUS
  <2> QED  BY <1>0, <1>2, <1>3, <2>1, <2>2 DEF Measured
<1>7. \A s \in Slots : disk[s] \in Int /\ pendingMemory(s) \in Int
  BY <1>1 DEF AmountsOK, pendingMemory
<1>8. Total(RamMeasured') <= Total(RamMeasured) + p
  <2>1. \A s \in Slots : RamMeasured'[s] <= RamMeasured[s] + (IF s = t THEN p ELSE 0)
    BY <1>2, <1>4, <1>6, <1>7 DEF RamMeasured
  <2> HIDE DEF p
  <2> QED  BY <1>1, <1>2, <1>4, <2>1, TotalBump DEF AmountsOK
<1>9. Total(DiskMeasured') <= Total(DiskMeasured) + q
  <2>1. \A s \in Slots : DiskMeasured'[s] <= DiskMeasured[s] + (IF s = t THEN q ELSE 0)
    BY <1>2, <1>3, <1>4, <1>6, <1>7 DEF DiskMeasured
  <2> HIDE DEF q
  <2> QED  BY <1>1, <1>2, <1>4, <2>1, TotalBump DEF AmountsOK
<1>10. Total(DiskAtLimit') <= Total(DiskAtLimit) + q
  <2>1. \A s \in Slots : DiskAtLimit'[s] <= DiskAtLimit[s] + (IF s = t THEN q ELSE 0)
    BY <1>2, <1>3, <1>4, <1>6, <1>7 DEF DiskAtLimit
  <2> HIDE DEF q
  <2> QED  BY <1>1, <1>2, <1>4, <2>1, TotalBump DEF AmountsOK
<1> HIDE DEF p, q, more
<1>11. /\ Total(DiskMeasured) \in Int /\ Total(DiskMeasured') \in Int
       /\ Total(DiskAtLimit) \in Int /\ Total(DiskAtLimit') \in Int
       /\ Total(RamMeasured) \in Int /\ Total(RamMeasured') \in Int
  BY <1>1, TotalInt DEF AmountsOK
<1>12. /\ OwnDisk \in Nat /\ OwnRam \in Nat /\ adm.disk \in Nat /\ adm'.disk \in Nat
       /\ adm.charged \in Int /\ cache \in Nat /\ adm.ram \in Nat
       /\ freed \in Nat /\ grown \in Nat
  BY <1>1, <1>2 DEF AmountsOK, CapacityTypeOK, Admission
<1>13. OwnRam' + Total(RamMeasured)' <= adm'.ram
  BY <1>2, <1>4, <1>5, <1>8, <1>11, <1>12, TotalsPrimed DEF Covers
<1>14. OwnDisk' + Total(DiskMeasured)' <= adm'.disk + freed'
  BY <1>2, <1>3, <1>4, <1>5, <1>9, <1>11, <1>12, TotalsPrimed DEF Covers
<1>15. OwnDisk' + cache' + Total(DiskAtLimit)' <= adm'.charged + adm'.disk + grown'
  BY <1>2, <1>3, <1>4, <1>5, <1>10, <1>11, <1>12, TotalsPrimed DEF Covers
<1> QED  BY <1>2, <1>13, <1>14, <1>15 DEF Covers

LEMMA NextMeasured ==
  ASSUME ControlInv, ControlInv', MeasuredInv, Next
  PROVE  MeasuredInv'
<1> USE DEF MeasuredInv
<1>1. CASE Idle' \/ (Idle /\ UNCHANGED adm)
  BY <1>1 DEF Idle
<1>2. ASSUME ~Idle, NEW t \in Slots,
             \/ GuestOccupies(t) \/ GuestWrites(t) \/ GuestDiscards(t) \/ DeleteMachines(t)
      PROVE  Covers'
  <2>1. /\ UNCHANGED <<leaseVars, cache, builder, imageLock, adm>>
        /\ \A s \in Slots : s # t => disk'[s] = disk[s]
        /\ freed <= freed' /\ disk[t] - disk'[t] <= freed' - freed
        /\ grown <= grown' /\ disk'[t] - disk[t] <= grown' - grown
    BY <1>2, NumbersOK
       DEF GuestOccupies, GuestWrites, GuestDiscards, DeleteMachines, ControlInv,
           CapacityTypeOK
  <2> QED  BY <1>2, <2>1, GuestKeepsCover
<1>3. ASSUME ~Idle, outstandingCommitment  PROVE Covers'
  BY <1>3, MeasureCovers
<1>4. ASSUME \/ \E s \in Slots : reserveEnvironment(s)
             \/ \E s \in Slots \cup {Refresh} : admitBuild(s)
      PROVE  Covers'
  BY <1>4, BeginCovers
<1>5. ASSUME ~Idle, LockForRefresh \/ BuilderGrows \/ \E s \in Slots : LockForLease(s)
      PROVE  FALSE
  BY <1>5 DEF LockForRefresh, LockForLease, Lock, BuilderGrows, ControlInv, AdmissionHeld,
              NoBuilder
<1>6. ASSUME \/ Admit \/ Refuse \/ EndRefresh \/ PublishImage \/ ClientDies
             \/ \E s \in Slots : \/ acquireSlot(s) \/ UseBase(s) \/ MarkHeld(s)
                                 \/ BeginDrain(s) \/ FinishDrain(s)
      PROVE  Idle' \/ (Idle /\ UNCHANGED adm)
  BY <1>6 DEF Admit, Refuse, EndRefresh, PublishImage, ClientDies, acquireSlot, UseBase,
              MarkHeld, BeginDrain, FinishDrain, Idle
<1>7. ASSUME Idle, \/ LockForRefresh \/ BuilderGrows
                   \/ \E s \in Slots : \/ LockForLease(s) \/ GuestOccupies(s)
                                       \/ GuestWrites(s) \/ GuestDiscards(s)
                                       \/ DeleteMachines(s)
      PROVE  UNCHANGED adm
  BY <1>7 DEF LockForRefresh, LockForLease, Lock, BuilderGrows, GuestOccupies,
              GuestWrites, GuestDiscards, DeleteMachines
<1>8. outstandingCommitment => ~Idle
  BY DEF outstandingCommitment
<1> QED  BY <1>1, <1>2, <1>3, <1>4, <1>5, <1>6, <1>7, <1>8 DEF Next, SlotStep

-----------------------------------------------------------------------------
(* Promises.                                                               *)

LEMMA FitsTypes ==
  ASSUME ControlInv, ControlInv'
  PROVE  /\ AmountsOK /\ AmountsOK' /\ cache \in Nat /\ cache' \in Nat
         /\ slack \in Nat /\ slack' \in Nat
         /\ Total(RamNeed) \in Int /\ Total(RamNeed') \in Int
         /\ Total(DiskNeed) \in Int /\ Total(DiskNeed') \in Int
<1>1. AmountsOK /\ AmountsOK'
  BY AmountsInt, AmountsIntPrimed DEF ControlInv
<1>2. cache \in Nat /\ slack \in Nat
  BY DEF ControlInv, CapacityTypeOK
<1>3. cache' \in Nat /\ slack' \in Nat
  BY DEF ControlInv, CapacityTypeOK
<1> QED  BY <1>1, <1>2, <1>3, TotalInt DEF AmountsOK

\* A step in which no slot comes to need more keeps the promises.
LEMMA NoMoreNeeded ==
  ASSUME ControlInv, ControlInv', RamFits, DiskFits,
         builder'.for = builder.for, cache' = cache, slack' = slack,
         \A s \in Slots : RamNeed'[s] <= RamNeed[s] /\ DiskNeed'[s] <= DiskNeed[s]
  PROVE  RamFits' /\ DiskFits'
<1> USE NumbersOK, FitsTypes
<1>1. Total(RamNeed') <= Total(RamNeed) /\ Total(DiskNeed') <= Total(DiskNeed)
  BY TotalLeq DEF AmountsOK
<1>2. BuilderRamNeed' = BuilderRamNeed /\ BuilderDiskNeed' = BuilderDiskNeed
  BY DEF BuilderRamNeed, BuilderDiskNeed
<1>3. BuilderRamNeed \in Nat /\ BuilderDiskNeed \in Nat
  BY DEF AmountsOK
<1>4. RamFits'
  BY <1>1, <1>2, <1>3, TotalsPrimed DEF RamFits
<1>5. DiskFits'
  BY <1>1, <1>2, <1>3, TotalsPrimed DEF DiskFits
<1> QED  BY <1>4, <1>5

\* When the builder goes, what it may still take passes to the guests of its slot
\* and to the image that it published, and the slack to what of the two was not
\* reserved.
LEMMA BuilderGone ==
  ASSUME ControlInv, ControlInv', RamFits, DiskFits, builder' = NoBuilder,
         UNCHANGED <<leaseVars, ram, disk>>,
         \A s \in Slots : IF s = builder.for THEN machines'[s] => Admitted(s)
                          ELSE machines'[s] = machines[s],
         NEW size \in 0 .. ImageMax, builder.for # None \/ size = 0,
         cache' = cache + size, slack' = slack + Overdraft(size)
  PROVE  RamFits' /\ DiskFits'
<1> USE NumbersOK, HoldersDiffer, FitsTypes
<1> DEFINE b == builder.for
           r == IF b \in Slots THEN GuestRam ELSE 0
           d == IF b \in Slots /\ Admitted(b) THEN GuestDisk ELSE 0
<1>0. b \in Holders
  BY DEF ControlInv, CapacityTypeOK
<1>1. b \in Int /\ r \in Nat /\ d \in Nat
  <2>1. Holders \subseteq Int
    BY DEF Holders, None, Refresh
  <2> QED  BY <1>0, <2>1
<1>2. builder'.for = None
  BY DEF NoBuilder
<1>3. \A s \in Slots : ram[s] \in 0 .. GuestRam /\ disk[s] \in 0 .. GuestDisk
  BY DEF ControlInv, CapacityTypeOK
<1>4. \A s \in Slots : s # b => (Growing(s)' <=> Growing(s))
  BY <1>2 DEF Growing, leaseVars
<1>5. \A s \in Slots : RamNeed'[s] <= RamNeed[s] + (IF s = b THEN r ELSE 0)
  BY <1>3, <1>4 DEF RamNeed, leaseVars
<1>4a. \A s \in Slots : s = b => ~Growing(s) /\ (Growing(s)' => Admitted(s))
  BY <1>2 DEF Growing, Admitted, leaseVars
<1>6. \A s \in Slots : DiskNeed'[s] <= DiskNeed[s] + (IF s = b THEN d ELSE 0)
  BY <1>3, <1>4, <1>4a DEF DiskNeed, leaseVars
<1>7. /\ BuilderRamNeed' = 0 /\ BuilderDiskNeed' = 0
      /\ BuilderRamNeed \in Nat /\ BuilderDiskNeed \in Nat
      /\ BuilderRamNeed >= r /\ BuilderDiskNeed + Overdraft(size) >= d + size
      /\ Overdraft(size) \in Nat
  <2>1. /\ BuilderRamNeed' = 0 /\ BuilderDiskNeed' = 0
        /\ BuilderRamNeed \in Nat /\ BuilderDiskNeed \in Nat /\ BuilderRamNeed >= r
    BY <1>0, <1>2, MoreNat DEF BuilderRamNeed, BuilderDiskNeed
  <2>2. CASE b \in Slots /\ Admitted(b)
    <3>1. /\ BuilderDiskNeed = More(BuilderDisk, GuestDisk) /\ d = GuestDisk
          /\ Overdraft(size) = More(0, size + GuestDisk - BuilderDiskNeed)
      BY <2>2 DEF BuilderDiskNeed, Overdraft
    <3>2. BuilderDiskNeed \in Int /\ size \in Int /\ GuestDisk \in Int
      BY <2>1
    <3>3. \A x \in Int : More(0, x) >= x
      BY DEF More
    <3> HIDE DEF d
    <3> QED  BY <2>1, <3>1, <3>2, <3>3, OverdraftNat
  <2>3. CASE ~(b \in Slots /\ Admitted(b))
    <3>1. Overdraft(size) = 0 /\ d = 0
      BY <2>3 DEF Overdraft
    <3>2. b = None => size = 0
      OBVIOUS
    <3> QED  BY <1>0, <2>1, <3>1, <3>2, MoreNat DEF BuilderDiskNeed
  <2> QED  BY <2>1, <2>2, <2>3, OverdraftNat
<1> HIDE DEF r, d, b
<1>8. Total(RamNeed') <= Total(RamNeed) + r
  BY <1>1, <1>5, TotalBump DEF AmountsOK
<1>9. Total(DiskNeed') <= Total(DiskNeed) + d
  BY <1>1, <1>6, TotalBump DEF AmountsOK
<1>10. RamFits'
  BY <1>1, <1>7, <1>8, TotalsPrimed DEF RamFits
<1>11. DiskFits'
  BY <1>1, <1>7, <1>9, TotalsPrimed DEF DiskFits
<1> QED  BY <1>10, <1>11

\* A remainder is at most the number.
LEMMA ModLeq ==
  ASSUME NEW x \in Nat, NEW w \in Nat \ {0}
  PROVE  x % w <= x /\ x % w \in Nat
OBVIOUS

\* What a verdict means, whatever the width of the numbers.
LEMMA CheckMeans ==
  ASSUME NEW avail \in Int, NEW used \in Int, NEW charged \in Int,
         NEW r \in Nat, NEW d \in Nat, checkCapacity(avail, used, charged, r, d)
  PROVE  /\ r + RamReserve <= avail
         /\ used + d + DiskReserve <= TotalDisk
         /\ DiskBudget # 0 => charged + d <= DiskBudget
<1> USE NumbersOK
<1>1. ASSUME NEW a \in Int, NEW c \in Int, c <= a
      PROVE  Minus(a, c) \in Nat /\ Minus(a, c) <= a - c
  <2>1. a - c \in Nat
    BY <1>1
  <2> QED  BY <2>1, ModLeq DEF Minus
<1>2. r + RamReserve <= avail
  <2>1. r <= avail /\ RamReserve <= Minus(avail, r)
    BY DEF checkCapacity
  <2> QED  BY <1>1, <2>1
<1>3. used + d + DiskReserve <= TotalDisk
  <2> DEFINE free == Minus(TotalDisk, used)
  <2>1. used <= TotalDisk /\ d <= free /\ DiskReserve <= Minus(free, d)
    BY DEF checkCapacity
  <2>2. free \in Nat /\ free <= TotalDisk - used
    BY <1>1, <2>1
  <2> HIDE DEF free
  <2>3. Minus(free, d) \in Nat /\ Minus(free, d) <= free - d
    BY <1>1, <2>1, <2>2
  <2> QED  BY <2>1, <2>2, <2>3
<1>4. DiskBudget # 0 => charged + d <= DiskBudget
  <2>1. SUFFICES ASSUME DiskBudget # 0  PROVE charged + d <= DiskBudget
    OBVIOUS
  <2>2. charged <= DiskBudget /\ d <= Minus(DiskBudget, charged)
    BY <2>1 DEF checkCapacity
  <2> QED  BY <1>1, <2>2
<1> QED  BY <1>2, <1>3, <1>4

LEMMA VerdictMeans ==
  ASSUME CapacityTypeOK, adm \in Admission, Verdict
  PROVE  /\ adm.ram + RamReserve <= Available
         /\ adm.used + adm.disk + DiskReserve <= TotalDisk
         /\ Used + adm.disk + DiskReserve <= TotalDisk
         /\ DiskBudget # 0 => /\ adm.charged + adm.disk <= DiskBudget
                              /\ BudgetUsed + adm.disk <= DiskBudget
<1> USE NumbersOK
<1> DEFINE avail == Less(adm.avail, Available)
           used == More(adm.used, Used)
           charged == More(adm.charged, BudgetUsed)
<1>1. /\ adm.avail \in Int /\ adm.used \in Int /\ adm.charged \in Int
      /\ adm.ram \in Nat /\ adm.disk \in Nat
  BY DEF Admission
<1>2. Available \in Int /\ Used \in Int /\ BudgetUsed \in Int
  BY MeasurementsInt
<1>3. /\ avail \in Int /\ used \in Int /\ charged \in Int /\ avail <= Available
      /\ adm.used <= used /\ Used <= used
      /\ adm.charged <= charged /\ BudgetUsed <= charged
  BY <1>1, <1>2 DEF Less, More
<1>4. checkCapacity(avail, used, charged, adm.ram, adm.disk)
  BY DEF Verdict
<1> HIDE DEF avail, used, charged
<1>5. /\ adm.ram + RamReserve <= avail
      /\ used + adm.disk + DiskReserve <= TotalDisk
      /\ DiskBudget # 0 => charged + adm.disk <= DiskBudget
  BY <1>1, <1>3, <1>4, CheckMeans
<1> QED  BY <1>1, <1>2, <1>3, <1>5

\* What is granted has been measured: the slot or the builder that is admitted
\* needs what the admission asked for itself, the others what it has added.
LEMMA AdmitFits ==
  ASSUME ControlInv, ControlInv', MeasuredInv, Admit
  PROVE  RamFits' /\ DiskFits'
<1> USE NumbersOK, HoldersDiffer, FitsTypes
<1> DEFINE reserve == adm.kind = "reserve"
           r == IF reserve THEN GuestRam ELSE 0
           d == IF reserve THEN GuestDisk ELSE 0
<1>1. PICK L \in Slots \cup {Refresh} : L = imageLock
  BY DEF ControlInv, AdmissionHeld, Admit, CapacityTypeOK, Holders
<1>2. /\ adm \in Admission /\ adm.at = N + 1 /\ Verdict /\ builder = NoBuilder /\ Covers
      /\ UNCHANGED <<state, ready, machines, ram, disk, cache>>
  BY AdmissionShape DEF Admit, ControlInv, AdmissionHeld, MeasuredInv, guestVars
<1>3. IF reserve
      THEN /\ L \in Slots /\ builder'.for = None
           /\ \A s \in Slots : s # L => reserved'[s] = reserved[s]
      ELSE builder'.for = L /\ reserved' = reserved
  <2>1. CASE reserve
    BY <1>1, <1>2, <2>1 DEF Admit, NoBuilder, ControlInv, AdmissionHeld, CapacityTypeOK
  <2>2. CASE ~reserve
    BY <1>1, <2>2 DEF Admit, NoBuilder
  <2> QED  BY <2>1, <2>2
<1>4. L \in Int /\ r \in Nat /\ d \in Nat
  BY DEF Refresh
<1>5. \A s \in Slots : ram[s] \in 0 .. GuestRam /\ disk[s] \in 0 .. GuestDisk
  BY DEF ControlInv, CapacityTypeOK
<1>6. ASSUME NEW s \in Slots, s # L, Growing(s)'
      PROVE  Measured(s) /\ (~ready[s] => pendingMemory(s) = GuestRam)
  <2>1. reserved[s] /\ (machines[s] \/ state[s] = "provisioning")
    BY <1>2, <1>3, <1>6 DEF Growing
  <2>2. state[s] # "available" /\ (~ready[s] => state[s] # "held")
    BY <2>1 DEF ControlInv, GuestsAdmitted
  <2>3. s < N + 1
    BY DEF Slots
  <2>4. Measured(s)
    BY <1>1, <1>2, <1>6, <2>1, <2>2, <2>3 DEF Measured, Counted
  <2>5. ~ready[s] => pendingMemory(s) = GuestRam
    BY <2>1, <2>2 DEF pendingMemory
  <2> QED  BY <2>4, <2>5
<1>7. ~reserve => \A s \in Slots : s = L => ~Growing(s)'
  BY <1>3 DEF Growing
<1>8. \A s \in Slots : RamMeasured[s] >= 0 /\ (Measured(s) => RamMeasured[s] = pendingMemory(s))
  BY DEF RamMeasured, pendingMemory
<1> DEFINE ramLimit == [s \in Slots |-> ram[s] + RamMeasured[s]]
<1>9. /\ ramLimit \in [Slots -> Int]
      /\ \A s \in Slots : RamMeasured[s] \in Int /\ ramLimit[s] = ram[s] + RamMeasured[s]
  BY DEF AmountsOK
<1>10. \A s \in Slots : RamNeed'[s] <= ramLimit[s] + (IF s = L THEN r ELSE 0)
  <2> SUFFICES ASSUME NEW s \in Slots
               PROVE  RamNeed'[s] <= ramLimit[s] + (IF s = L THEN r ELSE 0)
    OBVIOUS
  <2>1. RamNeed'[s] = IF Growing(s)' /\ ~ready[s] THEN GuestRam ELSE ram[s]
    BY <1>2 DEF RamNeed
  <2>2. ram[s] \in 0 .. GuestRam /\ RamMeasured[s] \in Int /\ RamMeasured[s] >= 0
        /\ ramLimit[s] = ram[s] + RamMeasured[s]
    BY <1>5, <1>8, <1>9
  <2> HIDE DEF ramLimit
  <2>3. CASE s # L
    BY <1>6, <1>8, <2>1, <2>2, <2>3
  <2>4. CASE s = L
    BY <1>7, <2>1, <2>2, <2>4
  <2> QED  BY <2>3, <2>4
<1>11. \A s \in Slots : DiskNeed'[s] <= DiskAtLimit[s] + (IF s = L THEN d ELSE 0)
  <2> SUFFICES ASSUME NEW s \in Slots
               PROVE  DiskNeed'[s] <= DiskAtLimit[s] + (IF s = L THEN d ELSE 0)
    OBVIOUS
  <2>1. /\ DiskNeed'[s] = IF Growing(s)' THEN GuestDisk ELSE disk[s]
        /\ DiskAtLimit[s] = IF Measured(s) THEN GuestDisk ELSE disk[s]
        /\ disk[s] \in 0 .. GuestDisk
    BY <1>2, <1>5 DEF DiskNeed, DiskAtLimit
  <2>2. CASE s # L
    BY <1>6, <2>1, <2>2
  <2>3. CASE s = L
    BY <1>7, <2>1, <2>3
  <2> QED  BY <2>2, <2>3
<1>12. Total(RamNeed') <= Total(ramLimit) + r /\ Total(ramLimit) \in Int
  <2> HIDE DEF ramLimit, r
  <2> QED  BY <1>4, <1>9, <1>10, TotalBump, TotalInt DEF AmountsOK
<1>13. Total(DiskNeed') <= Total(DiskAtLimit) + d
  <2> HIDE DEF d
  <2> QED  BY <1>4, <1>11, TotalBump DEF AmountsOK
<1>14. Total(ramLimit) = Total(ram) + Total(RamMeasured)
  <2> HIDE DEF ramLimit
  <2> QED  BY <1>9, TotalAdds DEF AmountsOK
<1>15. Total(DiskAtLimit) = Total(disk) + Total(DiskMeasured)
  <2>1. \A s \in Slots : DiskAtLimit[s] = disk[s] + DiskMeasured[s]
    BY <1>5 DEF DiskAtLimit, DiskMeasured
  <2> QED  BY <2>1, TotalAdds DEF AmountsOK
<1>16. OwnRam = r + BuilderRamNeed' /\ OwnDisk = d + BuilderDiskNeed'
  BY <1>1, <1>3, MoreNat DEF OwnRam, OwnDisk, BuilderRamNeed, BuilderDiskNeed
<1>17. /\ Total(ram) \in Int /\ Total(disk) \in Int /\ Total(RamMeasured) \in Int
       /\ Total(DiskMeasured) \in Int /\ Total(DiskAtLimit) \in Int
       /\ BuilderRamNeed' \in Nat /\ BuilderDiskNeed' \in Nat
  BY TotalInt DEF AmountsOK
<1>18. /\ adm.ram \in Nat /\ adm.disk \in Nat /\ adm.charged \in Int /\ adm.used \in Int
       /\ grown \in Nat /\ freed \in Nat
  BY <1>2 DEF Admission, ControlInv, CapacityTypeOK
<1>19. /\ Available = TotalRam - Total(ram) /\ BudgetUsed = cache + Total(disk)
       /\ Used = ForeignDisk + BudgetUsed
  <2>1. builder.ram = 0 /\ builder.disk = 0
    BY <1>2 DEF NoBuilder
  <2> QED  BY <1>17, <2>1 DEF Available, BudgetUsed, Used
<1>20. /\ adm.ram + RamReserve <= Available
       /\ adm.used + adm.disk + DiskReserve <= TotalDisk
       /\ Used + adm.disk + DiskReserve <= TotalDisk
       /\ DiskBudget # 0 => /\ adm.charged + adm.disk <= DiskBudget
                            /\ BudgetUsed + adm.disk <= DiskBudget
  BY <1>2, VerdictMeans DEF ControlInv
<1>21. /\ OwnRam + Total(RamMeasured) <= adm.ram
       /\ OwnDisk + Total(DiskMeasured) <= adm.disk + freed
       /\ OwnDisk + cache + Total(DiskAtLimit) <= adm.charged + adm.disk + grown
       /\ adm.used = ForeignDisk + adm.charged
  BY <1>2 DEF Covers
<1> HIDE DEF r, d, ramLimit
<1>22. RamFits'
  BY <1>4, <1>12, <1>14, <1>16, <1>17, <1>18, <1>19, <1>20, <1>21, TotalsPrimed DEF RamFits
<1>23. DiskFits'
  <2> DEFINE need == cache + Total(DiskNeed') + BuilderDiskNeed'
  <2>1. need \in Int /\ need <= adm.charged + adm.disk + grown
    BY <1>4, <1>13, <1>16, <1>17, <1>18, <1>21
  <2>2. need <= BudgetUsed + adm.disk + freed
    BY <1>4, <1>13, <1>15, <1>16, <1>17, <1>18, <1>19, <1>21
  <2>3. slack' = grown \/ slack' = freed
    BY DEF Admit, Less
  <2>4. (cache + Total(DiskNeed) + BuilderDiskNeed)' = need
    BY <1>2, TotalsPrimed
  <2> HIDE DEF need
  <2>5. ForeignDisk + need + DiskReserve <= TotalDisk + slack'
    BY <1>17, <1>18, <1>19, <1>20, <1>21, <2>1, <2>2, <2>3
  <2>6. DiskBudget # 0 => need <= DiskBudget + slack'
    BY <1>17, <1>18, <1>19, <1>20, <2>1, <2>2, <2>3
  <2> QED  BY <2>4, <2>5, <2>6 DEF DiskFits
<1> QED  BY <1>22, <1>23

LEMMA NextFits ==
  ASSUME ControlInv, ControlInv', MeasuredInv, RamFits, DiskFits, Next
  PROVE  RamFits' /\ DiskFits'
<1> USE NumbersOK
<1>0. \A s \in Slots : ram[s] \in 0 .. GuestRam /\ disk[s] \in 0 .. GuestDisk
  BY DEF ControlInv, CapacityTypeOK
<1>1. CASE Admit
  BY <1>1, AdmitFits
<1>2. CASE LockForRefresh \/ \E s \in Slots : LockForLease(s)
  <2>1. /\ builder' = NoBuilder /\ cache' = cache
        /\ UNCHANGED <<leaseVars, ram, disk, slack, machines>>
    BY <1>2 DEF LockForRefresh, LockForLease, Lock, guestVars
  <2>2. \A s \in Slots : s = builder.for => ~machines[s]
    BY DEF ControlInv, GuestsAdmitted
  <2>3. Overdraft(0) = 0 /\ 0 \in 0 .. ImageMax /\ cache \in Nat /\ slack \in Nat
    BY DEF Overdraft, More, ControlInv, CapacityTypeOK
  <2>4. cache' = cache + 0 /\ slack' = slack + Overdraft(0)
    BY <2>1, <2>3
  <2> QED  BY <2>1, <2>2, <2>3, <2>4, BuilderGone
<1>3. CASE PublishImage
  <2>1. /\ builder' = NoBuilder /\ UNCHANGED <<leaseVars, ram, disk>>
        /\ \A s \in Slots : IF s = builder.for THEN machines'[s] => Admitted(s)
                            ELSE machines'[s] = machines[s]
    BY <1>3 DEF PublishImage, ControlInv, CapacityTypeOK, GuestsAdmitted
  <2>2. builder.for # None
    BY <1>3 DEF PublishImage, ControlInv, BuilderHeld
  <2>3. PICK size \in 0 .. ImageMax : cache' = cache + size /\ slack' = slack + Overdraft(size)
    BY <1>3 DEF PublishImage
  <2> QED  BY <2>1, <2>2, <2>3, BuilderGone
<1>4. CASE \/ outstandingCommitment \/ EndRefresh \/ BuilderGrows \/ ClientDies
           \/ \E s \in Slots : reserveEnvironment(s)
           \/ \E s \in Slots \cup {Refresh} : admitBuild(s)
  <2>1. UNCHANGED <<leaseVars, guestVars, cache, slack>>
    BY <1>4 DEF outstandingCommitment, EndRefresh, BuilderGrows, ClientDies,
                reserveEnvironment, admitBuild, Begin
  <2>2. builder'.for = builder.for
    BY <1>4 DEF outstandingCommitment, EndRefresh, BuilderGrows, ClientDies,
                reserveEnvironment, admitBuild, Begin, ControlInv, CapacityTypeOK
  <2>3. RamNeed' = RamNeed /\ DiskNeed' = DiskNeed
    BY <2>1, <2>2 DEF RamNeed, DiskNeed, Growing, leaseVars, guestVars
  <2>4. \A s \in Slots : RamNeed'[s] <= RamNeed[s] /\ DiskNeed'[s] <= DiskNeed[s]
    BY <2>3, FitsTypes DEF AmountsOK
  <2> QED  BY <2>1, <2>2, <2>4, NoMoreNeeded
<1>5. ASSUME UNCHANGED <<builder, cache, slack>>,
             NEW t, \A s \in Slots : s # t =>
                      /\ state'[s] = state[s] /\ reserved'[s] = reserved[s]
                      /\ ready'[s] = ready[s] /\ machines'[s] = machines[s]
                      /\ ram'[s] = ram[s] /\ disk'[s] = disk[s],
             t \in Slots =>
               /\ (IF Growing(t)' /\ ~ready'[t] THEN GuestRam ELSE ram'[t])
                    <= (IF Growing(t) /\ ~ready[t] THEN GuestRam ELSE ram[t])
               /\ (IF Growing(t)' THEN GuestDisk ELSE disk'[t])
                    <= (IF Growing(t) THEN GuestDisk ELSE disk[t])
      PROVE  RamFits' /\ DiskFits'
  <2>1. ASSUME NEW s \in Slots
        PROVE  RamNeed'[s] <= RamNeed[s] /\ DiskNeed'[s] <= DiskNeed[s]
    <3>1. CASE s = t
      BY <1>5, <3>1 DEF RamNeed, DiskNeed
    <3>2. CASE s # t
      <4>1. Growing(s)' <=> Growing(s)
        BY <1>5, <3>2 DEF Growing
      <4>2. RamNeed'[s] = RamNeed[s] /\ DiskNeed'[s] = DiskNeed[s]
        BY <1>5, <3>2, <4>1 DEF RamNeed, DiskNeed
      <4> QED  BY <4>2, FitsTypes DEF AmountsOK
    <3> QED  BY <3>1, <3>2
  <2> QED  BY <1>5, <2>1, NoMoreNeeded
<1>6. CASE Refuse
  <2> USE DEF ControlInv, CapacityTypeOK, leaseVars, guestVars
  <2>1. PICK L \in Slots \cup {Refresh} : L = imageLock
    BY <1>6 DEF Refuse, AdmissionHeld, Holders
  <2>2. UNCHANGED <<builder, cache, slack, ready, machines, ram, disk>>
    BY <1>6 DEF Refuse
  <2>3. CASE L = Refresh
    <3>1. UNCHANGED <<state, reserved>> /\ L \notin Slots
      BY <1>6, <2>1, <2>3, HoldersDiffer DEF Refuse
    <3> QED  BY <1>5, <2>2, <3>1
  <2>4. CASE L # Refresh
    <3>1. /\ state' = [state EXCEPT ![L] = "available"]
          /\ reserved' = [reserved EXCEPT ![L] = FALSE] /\ L \in Slots
      BY <1>6, <2>1, <2>4 DEF Refuse
    <3>2. ~Growing(L)'
      BY <3>1 DEF Growing
    <3>3. \A s \in Slots : s # L => state'[s] = state[s] /\ reserved'[s] = reserved[s]
      BY <3>1
    <3>4. /\ ram'[L] <= (IF Growing(L) /\ ~ready[L] THEN GuestRam ELSE ram[L])
          /\ disk'[L] <= (IF Growing(L) THEN GuestDisk ELSE disk[L])
      BY <1>0, <2>2, <3>1
    <3> QED  BY <1>5, <2>2, <3>2, <3>3, <3>4
  <2> QED  BY <2>3, <2>4
<1>7. ASSUME NEW t \in Slots,
             \/ acquireSlot(t) \/ UseBase(t) \/ MarkHeld(t) \/ BeginDrain(t)
             \/ DeleteMachines(t) \/ FinishDrain(t)
      PROVE  RamFits' /\ DiskFits'
  <2> USE DEF ControlInv, CapacityTypeOK, leaseVars, guestVars
  <2>1. /\ UNCHANGED <<builder, cache, slack>>
        /\ \A s \in Slots : s # t =>
             /\ state'[s] = state[s] /\ reserved'[s] = reserved[s]
             /\ ready'[s] = ready[s] /\ machines'[s] = machines[s]
             /\ ram'[s] = ram[s] /\ disk'[s] = disk[s]
    BY <1>7 DEF acquireSlot, UseBase, MarkHeld, BeginDrain, DeleteMachines, FinishDrain
  <2>2. /\ (Growing(t)' => Growing(t)) /\ (ready[t] /\ Growing(t)' => ready'[t])
        /\ ram'[t] \in 0 .. ram[t] /\ disk'[t] \in 0 .. disk[t]
    <3>1. CASE acquireSlot(t)
      BY <1>0, <3>1 DEF acquireSlot, Growing, GuestsAdmitted
    <3>2. CASE UseBase(t)
      BY <1>0, <3>2 DEF UseBase, Growing, GuestsAdmitted, Admitted
    <3>3. CASE MarkHeld(t) \/ BeginDrain(t)
      BY <1>0, <3>3 DEF MarkHeld, BeginDrain, Growing, GuestsAdmitted
    <3>4. CASE DeleteMachines(t) \/ FinishDrain(t)
      BY <1>0, <3>4 DEF DeleteMachines, FinishDrain, Growing, GuestsAdmitted
    <3> QED  BY <1>7, <3>1, <3>2, <3>3, <3>4
  <2>3. /\ (IF Growing(t)' /\ ~ready'[t] THEN GuestRam ELSE ram'[t])
             <= (IF Growing(t) /\ ~ready[t] THEN GuestRam ELSE ram[t])
        /\ (IF Growing(t)' THEN GuestDisk ELSE disk'[t])
             <= (IF Growing(t) THEN GuestDisk ELSE disk[t])
    BY <1>0, <2>2
  <2> QED  BY <1>5, <2>1, <2>3
<1>8. ASSUME NEW t \in Slots, GuestOccupies(t) \/ GuestWrites(t) \/ GuestDiscards(t)
      PROVE  RamFits' /\ DiskFits'
  <2> USE DEF ControlInv, CapacityTypeOK, leaseVars, guestVars
  <2>1. /\ UNCHANGED <<state, reserved, ready, machines, builder, cache, slack>>
        /\ \A s \in Slots : s # t => ram'[s] = ram[s] /\ disk'[s] = disk[s]
    BY <1>8 DEF GuestOccupies, GuestWrites, GuestDiscards
  <2>2. Growing(t) /\ Growing(t)' /\ ready'[t] = ready[t]
    BY <1>8, <2>1 DEF GuestOccupies, GuestWrites, GuestDiscards, Growing, GuestsAdmitted
  <2>3. ready[t] => ram'[t] = ram[t]
    BY <1>8 DEF GuestOccupies, GuestWrites, GuestDiscards
  <2> QED  BY <1>0, <1>5, <2>1, <2>2, <2>3
<1> QED  BY <1>1, <1>2, <1>3, <1>4, <1>6, <1>7, <1>8 DEF Next, SlotStep

-----------------------------------------------------------------------------
(* Theorems.                                                               *)

\* The host has its reserves as long as nothing is admitted.
HostSuffices == RamReserve <= TotalRam /\ ForeignDisk + DiskReserve <= TotalDisk

LEMMA InitCapacity ==
  ASSUME HostSuffices, Init
  PROVE  CapacityInv
<1> USE NumbersOK, HoldersDiffer DEF Init
<1>1. ControlInv
  <2>1. CapacityTypeOK
    BY DEF CapacityTypeOK, NoBuilder, Holders
  <2>2. GuestsAdmitted /\ BuilderHeld /\ AdmissionHeld
    BY DEF GuestsAdmitted, BuilderHeld, AdmissionHeld, NoBuilder, Idle
  <2> QED  BY <2>1, <2>2 DEF ControlInv
<1>2. AmountsOK
  BY <1>1, AmountsInt DEF ControlInv
<1>3. \A s \in Slots : RamNeed[s] = 0 /\ DiskNeed[s] = 0
  BY DEF RamNeed, DiskNeed, Growing
<1>4. Total(RamNeed) = 0 /\ Total(DiskNeed) = 0
  BY <1>2, <1>3, TotalOfZeros DEF AmountsOK
<1>5. BuilderRamNeed = 0 /\ BuilderDiskNeed = 0
  BY DEF BuilderRamNeed, BuilderDiskNeed, NoBuilder
<1>6. RamFits /\ DiskFits
  BY <1>4, <1>5 DEF RamFits, DiskFits, HostSuffices
<1>7. MeasuredInv
  BY DEF MeasuredInv, Idle
<1> QED  BY <1>1, <1>6, <1>7 DEF CapacityInv

LEMMA NextCapacity ==
  ASSUME CapacityInv, [Next]_vars
  PROVE  CapacityInv'
<1>1. CASE Next
  <2>1. ControlInv'
    BY <1>1, NextControl DEF CapacityInv
  <2>2. MeasuredInv'
    BY <1>1, <2>1, NextMeasured DEF CapacityInv
  <2>3. RamFits' /\ DiskFits'
    BY <1>1, <2>1, NextFits DEF CapacityInv
  <2> QED  BY <2>1, <2>2, <2>3 DEF CapacityInv
<1>2. CASE UNCHANGED vars
  <2> USE <1>2 DEF vars, CapacityInv
  <2>1. ControlInv'
    BY DEF ControlInv, CapacityTypeOK, GuestsAdmitted, BuilderHeld, AdmissionHeld, Idle
  <2>2. MeasuredInv'
    <3>1. RamMeasured' = RamMeasured /\ DiskMeasured' = DiskMeasured
          /\ DiskAtLimit' = DiskAtLimit
      BY DEF RamMeasured, DiskMeasured, DiskAtLimit, Measured, Counted, pendingMemory
    <3> QED  BY <3>1, TotalsPrimed DEF MeasuredInv, Covers, Idle, OwnRam, OwnDisk
  <2>3. RamNeed' = RamNeed /\ DiskNeed' = DiskNeed
    BY DEF RamNeed, DiskNeed, Growing
  <2>4. RamFits' /\ DiskFits'
    BY <2>3, TotalsPrimed DEF RamFits, DiskFits, BuilderRamNeed, BuilderDiskNeed
  <2> QED  BY <2>1, <2>2, <2>4
<1> QED  BY <1>1, <1>2

\* Everything that has been admitted fits with all that it may still take, and
\* what an admission has added up so far covers what it has measured.
THEOREM CapacityInvariant == HostSuffices => (Spec => []CapacityInv)
<1> SUFFICES ASSUME HostSuffices PROVE Spec => []CapacityInv
  OBVIOUS
<1>1. Init => CapacityInv
  BY InitCapacity
<1>2. CapacityInv /\ [Next]_vars => CapacityInv'
  BY NextCapacity
<1> QED  BY <1>1, <1>2, PTL DEF Spec

\* No order of admissions, cancelled starts and crashed builders promises memory
\* that the host does not have above its reserve, for any number of slots, any
\* sizes and any width of the unsigned numbers (checkCapacity, pendingMemory).
THEOREM MemoryIsNotOverpromised == HostSuffices => (Spec => []MemoryPromisesFit)
<1> SUFFICES ASSUME HostSuffices PROVE Spec => []MemoryPromisesFit
  OBVIOUS
<1>1. ASSUME CapacityInv  PROVE MemoryPromisesFit
  <2> USE NumbersOK DEF CapacityInv, ControlInv
  <2> DEFINE growth == [s \in Slots |-> RamGrowth(s)]
  <2>0. AmountsOK
    BY <1>1, AmountsInt
  <2>1. \A s \in Slots : ram[s] \in Int
    BY <2>0 DEF AmountsOK
  <2>2. /\ growth \in [Slots -> Int]
        /\ \A s \in Slots : RamNeed[s] = ram[s] + growth[s]
    BY <2>1 DEF RamGrowth, RamNeed
  <2> HIDE DEF growth
  <2>3. Total(RamNeed) = Total(ram) + Total(growth)
    BY <2>0, <2>2, TotalAdds DEF AmountsOK
  <2>4. Total(ram) \in Int /\ Total(growth) \in Int /\ Total(RamNeed) \in Int
    BY <2>0, <2>2, TotalInt DEF AmountsOK
  <2>5. BuilderRamNeed = builder.ram + BuilderRamGrowth /\ builder.ram \in Nat
        /\ BuilderRamGrowth \in Int
    BY <1>1, MoreNat
       DEF BuilderRamNeed, BuilderRamGrowth, BuilderHeld, NoBuilder, CapacityTypeOK
  <2>6. Total(growth) + BuilderRamGrowth + RamReserve <= Available
    BY <1>1, <2>3, <2>4, <2>5 DEF RamFits, Available
  <2> QED  BY <2>6 DEF MemoryPromisesFit, growth
<1> QED  BY <1>1, CapacityInvariant, PTL

\* All disks may grow to their limits without touching the reserve or the quota,
\* but for the slack: guests that write, discard and are deleted between the
\* measurements of the last admission can do no more harm than the smaller of what
\* they took and what they gave back, and an image no more than what it and the
\* disks of its lease have over what the build reserved (reserveEnvironment,
\* admitBuild, checkCapacity).
THEOREM StorageIsNotOverpromised == HostSuffices => (Spec => []DiskGrowthReserved)
<1> SUFFICES ASSUME HostSuffices PROVE Spec => []DiskGrowthReserved
  OBVIOUS
<1>1. ASSUME CapacityInv  PROVE DiskGrowthReserved
  <2> USE NumbersOK DEF CapacityInv, ControlInv
  <2> DEFINE growth == [s \in Slots |-> DiskGrowth(s)]
  <2>0. AmountsOK /\ cache \in Nat /\ slack \in Nat
    BY <1>1, AmountsInt DEF CapacityTypeOK
  <2>1. \A s \in Slots : disk[s] \in Int
    BY <2>0 DEF AmountsOK
  <2>2. /\ growth \in [Slots -> Int]
        /\ \A s \in Slots : DiskNeed[s] = disk[s] + growth[s]
    BY <2>1 DEF DiskGrowth, DiskNeed
  <2> HIDE DEF growth
  <2>3. Total(DiskNeed) = Total(disk) + Total(growth)
    BY <2>0, <2>2, TotalAdds DEF AmountsOK
  <2>4. Total(disk) \in Int /\ Total(growth) \in Int /\ Total(DiskNeed) \in Int
    BY <2>0, <2>2, TotalInt DEF AmountsOK
  <2>5. BuilderDiskNeed = builder.disk + BuilderDiskGrowth /\ builder.disk \in Nat
        /\ BuilderDiskGrowth \in Int
    BY <1>1, MoreNat
       DEF BuilderDiskNeed, BuilderDiskGrowth, BuilderHeld, NoBuilder, CapacityTypeOK
  <2>6. /\ Used + (Total(growth) + BuilderDiskGrowth) + DiskReserve <= TotalDisk + slack
        /\ DiskBudget # 0 =>
             BudgetUsed + (Total(growth) + BuilderDiskGrowth) <= DiskBudget + slack
    BY <1>1, <2>0, <2>3, <2>4, <2>5 DEF DiskFits, Used, BudgetUsed
  <2> QED  BY <2>6 DEF DiskGrowthReserved, growth
<1> QED  BY <1>1, CapacityInvariant, PTL

=============================================================================
