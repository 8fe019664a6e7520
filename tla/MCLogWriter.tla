---------------------------- MODULE MCLogWriter ----------------------------
(***************************************************************************)
(* The log writer on a queue of two and at most four events, one kind of   *)
(* which never fits the buffer; every system call may fail.                *)
(***************************************************************************)
EXTENDS LogWriter

CONSTANTS small, large

MCContents == {small, large}
MCOversize == {large}
MCSize == 2
MCMaxEvents == 4
MCUlongMax == MCMaxEvents
MCMayFail == TRUE
=============================================================================
