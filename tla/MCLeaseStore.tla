---------------------------- MODULE MCLeaseStore ----------------------------
(* A small instance of LeaseStore for TLC.                                 *)
EXTENDS LeaseStore, TLC

\* One tick stands for a minute; the table is cut where the run is short.
OneDelay == <<1>>
Symmetry == Permutations(Slots)
=============================================================================
