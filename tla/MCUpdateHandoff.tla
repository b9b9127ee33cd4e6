--------------------------- MODULE MCUpdateHandoff ---------------------------
(* UpdateHandoff for TLC: two workers, two updates after the installed one.   *)
EXTENDS UpdateHandoff
=============================================================================
