---------------------------- MODULE MCAvidaeJobs ----------------------------
(* AvidaeJobs for TLC.  The jobs the scheduler starts, which may have two     *)
(* threads at a time, take the path of a conversion.                          *)
EXTENDS AvidaeJobs

AllPaths  == Runners
FewPaths  == {AudioTrim}
=============================================================================
