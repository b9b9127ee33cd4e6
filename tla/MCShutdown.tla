----------------------------- MODULE MCShutdown -----------------------------
(* Two windows for TLC.                                                     *)
EXTENDS Shutdown, TLC

CONSTANTS main, side

TwoWindows == {main, side}

=============================================================================
