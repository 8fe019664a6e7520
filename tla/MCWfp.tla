------------------------------- MODULE MCWfp -------------------------------
(***************************************************************************)
(* Loads and unloads without end, any call failing, with room for one      *)
(* session that a failed close left open beside the current one.           *)
(***************************************************************************)
EXTENDS Wfp

MCMaxOpen == 2
=============================================================================
