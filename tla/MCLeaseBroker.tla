--------------------------- MODULE MCLeaseBroker ---------------------------
EXTENDS LeaseBroker, TLC

OneDelay == <<1>>

TheSlot == CHOOSE s \in Slots : TRUE

\* The contract of DisposableLease, as in LeaseBroker, but for one slot: TLC
\* does not take fairness from an instance with a parameter.
Slot1 == INSTANCE DisposableLease WITH
            phase  <- Phase(TheSlot),
            tenant <- slots[TheSlot].lease,
            past   <- Past(TheSlot)

\* The broker keeps the contract: through crashes, cancellations and failed
\* cleanups, a slot serves one fresh lease at a time, and a revoked lease is
\* always reclaimed in the end.
ImplementsDisposableLease == Slot1!Spec
=============================================================================
