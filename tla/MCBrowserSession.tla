--------------------------- MODULE MCBrowserSession ---------------------------
(* Small instances of BrowserSession for TLC.                                *)
EXTENDS BrowserSession

CONSTANTS p1, p2, setup
=============================================================================
