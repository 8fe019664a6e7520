---------------------------- MODULE MCEventQueue ----------------------------
(***************************************************************************)
(* EventQueue on two producers that race for the lock with the writer, a   *)
(* ring of three slots (so it is empty, partly full, full and wrapped      *)
(* around) and ids that wrap after three, the tightest that Size allows.   *)
(***************************************************************************)
EXTENDS EventQueue

CONSTANTS p1, p2

MCProducers == {p1, p2}
MCSize == 3
MCUlongMax == MCSize - 1
=============================================================================
