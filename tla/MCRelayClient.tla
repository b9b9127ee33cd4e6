---- MODULE MCRelayClient ----
(* Small instances of RelayClient for TLC. *)
EXTENDS RelayClient

CONSTANTS p1, p2, p3

TwoPlaces == [p \in {p1, p2} |-> IF p = p1 THEN 0 ELSE 1]
ThreePlaces == [p \in {p1, p2, p3} |-> IF p = p1 THEN 0 ELSE IF p = p2 THEN 1 ELSE 2]

====
