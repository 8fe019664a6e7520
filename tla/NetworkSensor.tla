--------------------------- MODULE NetworkSensor ---------------------------
(***************************************************************************)
(* What the WFP session and its callouts promise to the rest of the        *)
(* driver: connections of a direction are observed from one moment of the  *)
(* start until one moment of the stop, a start that succeeds observes      *)
(* every direction, and a sensor that is gone observes nothing, whether it *)
(* was stopped or failed to start.  Wfp.tla implements it; Driver.tla      *)
(* builds on it.                                                           *)
(***************************************************************************)
CONSTANT Directions

VARIABLES
  phase,       \* "absent", "starting", "present" or "stopping"
  observing    \* the directions whose connections reach a classify function

netVars == <<phase, observing>>

NetInit == phase = "absent" /\ observing = {}

Begin == phase = "absent" /\ phase' = "starting" /\ UNCHANGED observing

Observe(d) ==
  /\ phase = "starting" /\ d \notin observing
  /\ observing' = observing \cup {d}
  /\ phase' = IF observing' = Directions THEN "present" ELSE "starting"

Fail == phase = "starting" /\ phase' = "stopping" /\ UNCHANGED observing

Withdraw == phase = "present" /\ phase' = "stopping" /\ UNCHANGED observing

Forget(d) ==
  /\ phase = "stopping" /\ d \in observing
  /\ observing' = observing \ {d}
  /\ UNCHANGED phase

End ==
  /\ phase = "stopping" /\ observing = {}
  /\ phase' = "absent"
  /\ UNCHANGED observing

NetNext ==
  \/ Begin \/ Fail \/ Withdraw \/ End
  \/ \E d \in Directions : Observe(d) \/ Forget(d)

NetSpec == NetInit /\ [][NetNext]_netVars
=============================================================================
