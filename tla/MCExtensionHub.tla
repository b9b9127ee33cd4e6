--------------------------- MODULE MCExtensionHub ----------------------------
(* ExtensionHub for TLC. *)
EXTENDS ExtensionHub, TLC

ActorSymmetry == Permutations(Actors)
=============================================================================
