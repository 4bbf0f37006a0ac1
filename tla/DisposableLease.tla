-------------------------- MODULE DisposableLease --------------------------
(***************************************************************************)
(* What a lease adapter promises about one slot, whatever fails: one       *)
(* tenant at a time, a fresh environment for each, no way back to a        *)
(* revoked environment, and every revoked environment is reclaimed before  *)
(* the slot is offered again.                                              *)
(*                                                                         *)
(* docs/reference/resource-leases.md describes this contract; the states   *)
(* are those of SlotState in lease.go as a client can tell them apart.     *)
(***************************************************************************)
EXTENDS Integers

VARIABLES
    phase,     \* "free", "preparing", "usable" or "revoked"
    tenant,    \* the lease that has the slot, 0 when it is free
    past       \* every lease that has ever had the slot

vars == <<phase, tenant, past>>

\* Whoever had the slot before, nobody has it now.
Init == phase = "free" /\ tenant = 0

Grant == /\ phase = "free"
         /\ phase' = "preparing"
         /\ tenant' # 0 /\ tenant' \notin past
         /\ past' = past \cup {tenant'}

Admit == phase = "preparing" /\ phase' = "usable" /\ UNCHANGED <<tenant, past>>

\* Admission refused before anything was built.
Reject == /\ phase = "preparing"
          /\ phase' = "free" /\ tenant' = 0
          /\ UNCHANGED past

Revoke == /\ phase \in {"preparing", "usable"}
          /\ phase' = "revoked"
          /\ UNCHANGED <<tenant, past>>

Reclaim == /\ phase = "revoked"
           /\ phase' = "free" /\ tenant' = 0
           /\ UNCHANGED past

Next == Grant \/ Admit \/ Reject \/ Revoke \/ Reclaim

Safety == Init /\ [][Next]_vars

Spec == Safety /\ WF_vars(Reclaim)
=============================================================================
