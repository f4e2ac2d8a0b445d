--------------------------- MODULE MCSingleFlight ---------------------------
(* The constants of SingleFlight for TLC. *)
EXTENDS SingleFlight

CONSTANTS c1, c2, c3

MCCallers == {c1, c2, c3}
=============================================================================
