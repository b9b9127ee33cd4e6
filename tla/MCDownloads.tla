----------------------------- MODULE MCDownloads -----------------------------
(* Downloads for TLC: an ordinary download and a private one.                *)
EXTENDS Downloads

\* Bound: a replacement only where the private download, which no list names,
\* did not start.
Apart == replaces = 0 \/ \A d \in Private : phase[d] = "unused"
=============================================================================
