------------------------ MODULE MCReleaseTransition ------------------------
(* A small instance of ReleaseTransition for TLC.                          *)
EXTENDS ReleaseTransition

\* The first release has no migration, the second one, the third the same.
OneMigration == <<0, 1, 1>>
=============================================================================
