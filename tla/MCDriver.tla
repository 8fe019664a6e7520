------------------------------ MODULE MCDriver ------------------------------
(***************************************************************************)
(* The driver with activity on one host sensor and both directions of the  *)
(* network, loads without end, three events a load on a queue of two.      *)
(***************************************************************************)
EXTENDS Driver

MCContents == {"process", "outbound", "inbound"}
MCSize == 2
MCMaxEvents == 3
MCUlongMax == MCMaxEvents
=============================================================================
