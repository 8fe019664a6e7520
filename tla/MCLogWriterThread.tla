------------------------- MODULE MCLogWriterThread -------------------------
(***************************************************************************)
(* The writer thread on a queue of three: empty, drained while it fills,   *)
(* and full.  UlongMax > Size - 1 keeps the id of the popped event apart from  *)
(* those still queued, across the wrap of the ids.                         *)
(***************************************************************************)
EXTENDS LogWriterThread

CONSTANTS a, b

MCContents == {a, b}
MCSize == 3
MCUlongMax == MCSize
=============================================================================
