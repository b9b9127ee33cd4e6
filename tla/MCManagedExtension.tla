------------------------- MODULE MCManagedExtension -------------------------
(* ManagedExtension for TLC: an installation and two updates of it, each of   *)
(* which deletes the release it replaces.                                   *)
EXTENDS ManagedExtension
=============================================================================
