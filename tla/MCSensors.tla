----------------------------- MODULE MCSensors -----------------------------
(***************************************************************************)
(* Two threads, so that the callbacks of one can overtake one of the       *)
(* other; the process sensor stands for all that have no key to resolve.   *)
(***************************************************************************)
EXTENDS Sensors, TLC

CONSTANTS t1, t2
MCThreads == {t1, t2}
MCActive == {"process", "registry"}
ThreadSymmetry == Permutations(MCThreads)
=============================================================================
