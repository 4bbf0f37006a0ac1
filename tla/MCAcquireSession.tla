-------------------------- MODULE MCAcquireSession --------------------------
(* A small instance of AcquireSession for TLC.                             *)
EXTENDS AcquireSession
=============================================================================
