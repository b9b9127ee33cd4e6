---------------------------- MODULE MCRelayWorker ----------------------------
(* RelayWorker for TLC: administrators and assets are interchangeable.       *)
EXTENDS RelayWorker, TLC

AdminSymmetry == Permutations(Admins) \cup Permutations(Assets)
=============================================================================
