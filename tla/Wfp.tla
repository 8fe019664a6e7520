-------------------------------- MODULE Wfp --------------------------------
(***************************************************************************)
(* driver/src/wfp_session.c and driver/src/wfp_callout.c: how the driver   *)
(* builds its objects in the Base Filtering Engine, undoes a build that    *)
(* fails half way and removes them when it is unloaded, over any number of *)
(* loads.  The session is not a dynamic one: what a load leaves behind in  *)
(* the engine is still there at the next.  One action per system call,     *)
(* each of which may fail except FwpsCalloutUnregisterById: it refuses an  *)
(* unknown id or a callout with flow contexts, and the driver has neither. *)
(***************************************************************************)
EXTENDS Naturals

CONSTANTS
  MayFail,         \* opening, adding and registering may fail for any reason
  DeleteMayFail,   \* so may deleting and closing
  MaxOpen          \* bound on the engine sessions open at a time

ASSUME WfpAssumption ==
  MayFail \in BOOLEAN /\ DeleteMayFail \in BOOLEAN /\ MaxOpen \in Nat \ {0}

Directions == {"out", "in"}
CalloutOf == [out |-> "callout out", in |-> "callout in"]
FilterOf == [out |-> "filter out", in |-> "filter in"]
Objects ==
  {"provider", "sublayer", "callout out", "callout in", "filter out", "filter in"}

VARIABLES
  engine,      \* the driver's objects in the Base Filtering Engine
  fwps,        \* the callouts registered with the kernel's filter engine
  sessions,    \* the open engine sessions
  handle,      \* g_EngineHandle is not NULL
  calloutId,   \* per direction, g_WpsCalloutId... is not 0
  filterId,    \* per direction, g_FilterId... is not 0
  at,          \* the next system call
  dir,         \* the direction it is for
  found,       \* this load found objects of an earlier one
  stuck        \* a delete or a close has failed for no fault of the driver

globals == <<handle, calloutId, filterId>>
wfpVars == <<engine, fwps, sessions, globals, at, dir, found, stuck>>

(* KdaMonWfpSessionInit     "open", "provider", "sublayer",                *)
(*   when that fails        "drop provider", "drop engine"                 *)
(* KdaMonWfpCalloutRegister "register", "callout", "filter"                *)
(* KdaMonWfpCalloutUnregister "unfilter", "uncallout", "unregister"        *)
(* KdaMonWfpSessionCleanup  "unsublayer", "unprovider", "close"            *)
Calls ==
  {"open", "provider", "sublayer", "drop provider", "drop engine",
   "register", "callout", "filter", "unfilter", "uncallout", "unregister",
   "unsublayer", "unprovider", "close"}

Off == [d \in Directions |-> FALSE]

WfpInit ==
  /\ engine = {} /\ fwps = {} /\ sessions = 0
  /\ handle = FALSE /\ calloutId = Off /\ filterId = Off
  /\ at = "unloaded" /\ dir = "out"
  /\ found = FALSE /\ stuck = FALSE

Goto(from, to) == at = from /\ at' = to

-----------------------------------------------------------------------------
(* The engine refuses a key that exists, an object whose references do not *)
(* exist, and to delete what is referred to.  A filter's key is generated. *)

RefersTo(o) ==
  CASE o = "sublayer"   -> {"provider"}
    [] o = "filter out" -> {"provider", "sublayer", "callout out"}
    [] o = "filter in"  -> {"provider", "sublayer", "callout in"}
    [] OTHER            -> {}

InUse(o) == \E user \in engine : o \in RefersTo(user)
Addable(o) ==
  /\ RefersTo(o) \subseteq engine
  /\ o \in {"filter out", "filter in"} \/ o \notin engine

Add(o) == Addable(o) /\ engine' = engine \cup {o}
CannotAdd(o) == (MayFail \/ ~ Addable(o)) /\ UNCHANGED engine

Delete(o) ==
  \/ /\ o \in engine /\ ~ InUse(o)
     /\ engine' = engine \ {o}
     /\ UNCHANGED stuck
  \/ /\ o \notin engine \/ InUse(o)
     /\ UNCHANGED <<engine, stuck>>
  \/ /\ DeleteMayFail /\ o \in engine
     /\ stuck' = TRUE
     /\ UNCHANGED engine

Close ==
  \/ sessions' = sessions - 1 /\ UNCHANGED stuck
  \/ /\ DeleteMayFail /\ sessions < MaxOpen
     /\ stuck' = TRUE
     /\ UNCHANGED sessions

-----------------------------------------------------------------------------
(* Loading: KdaMonWfpSessionInit.                                          *)

\* A fresh image: the globals are zero.
Load ==
  /\ Goto("unloaded", "open")
  /\ handle' = FALSE /\ calloutId' = Off /\ filterId' = Off
  /\ dir' = "out"
  /\ found' = (engine # {})
  /\ UNCHANGED <<engine, fwps, sessions, stuck>>

OpenEngine ==
  /\ Goto("open", "provider")
  /\ sessions' = sessions + 1
  /\ handle' = TRUE
  /\ UNCHANGED <<engine, fwps, calloutId, filterId, dir, found, stuck>>

OpenEngineFails ==
  /\ MayFail
  /\ Goto("open", "unloaded")
  /\ UNCHANGED <<engine, fwps, sessions, globals, dir, found, stuck>>

\* Faulty: takes a provider that is there already for its own.
AddProviderOrFind ==
  /\ Goto("provider", "sublayer")
  /\ engine' = engine \cup {"provider"}
  /\ UNCHANGED <<fwps, sessions, globals, dir, found, stuck>>

AddProvider ==
  /\ Goto("provider", "sublayer")
  /\ Add("provider")
  /\ UNCHANGED <<fwps, sessions, globals, dir, found, stuck>>

AddProviderFails ==
  /\ Goto("provider", "drop engine")
  /\ CannotAdd("provider")
  /\ UNCHANGED <<fwps, sessions, globals, dir, found, stuck>>

AddSubLayer ==
  /\ Goto("sublayer", "register")
  /\ Add("sublayer")
  /\ UNCHANGED <<fwps, sessions, globals, dir, found, stuck>>

AddSubLayerFails ==
  /\ Goto("sublayer", "drop provider")
  /\ CannotAdd("sublayer")
  /\ UNCHANGED <<fwps, sessions, globals, dir, found, stuck>>

DropProvider ==
  /\ Goto("drop provider", "drop engine")
  /\ Delete("provider")
  /\ UNCHANGED <<fwps, sessions, globals, dir, found>>

\* Faulty: the session is not closed.
DropEngineOpen ==
  /\ Goto("drop engine", "unloaded")
  /\ handle' = FALSE
  /\ UNCHANGED <<engine, fwps, sessions, calloutId, filterId, dir, found, stuck>>

DropEngine ==
  /\ Goto("drop engine", "unloaded")
  /\ Close
  /\ handle' = FALSE
  /\ UNCHANGED <<engine, fwps, calloutId, filterId, dir, found>>

SessionInit ==
  \/ OpenEngine \/ OpenEngineFails
  \/ AddProvider \/ AddProviderFails
  \/ AddSubLayer \/ AddSubLayerFails
  \/ DropProvider \/ DropEngine

-----------------------------------------------------------------------------
(* Loading: KdaMonWfpCalloutRegister, outbound and then inbound.           *)

RegisterCallout ==
  /\ Goto("register", "callout")
  /\ dir \notin fwps
  /\ fwps' = fwps \cup {dir}
  /\ calloutId' = [calloutId EXCEPT ![dir] = TRUE]
  /\ UNCHANGED <<engine, sessions, handle, filterId, dir, found, stuck>>

\* Faulty: the second failure returns at once too.
RegisterCalloutFailsAtOnce ==
  /\ MayFail \/ dir \in fwps
  /\ Goto("register", "unsublayer")
  /\ UNCHANGED <<engine, fwps, sessions, globals, dir, found, stuck>>

\* The first failure returns at once, the second by way of Unregister.
RegisterCalloutFails ==
  /\ MayFail \/ dir \in fwps
  /\ Goto("register", IF dir = "out" THEN "unsublayer" ELSE "unfilter")
  /\ UNCHANGED <<engine, fwps, sessions, globals, dir, found, stuck>>

\* Faulty: takes a callout that is there already for its own.
AddCalloutOrFind ==
  /\ Goto("callout", "filter")
  /\ engine' = engine \cup {CalloutOf[dir]}
  /\ UNCHANGED <<fwps, sessions, globals, dir, found, stuck>>

AddCallout ==
  /\ Goto("callout", "filter")
  /\ Add(CalloutOf[dir])
  /\ UNCHANGED <<fwps, sessions, globals, dir, found, stuck>>

\* Every other failure calls Unregister, which begins with the inbound filter.
AddCalloutFails ==
  /\ Goto("callout", "unfilter")
  /\ CannotAdd(CalloutOf[dir])
  /\ dir' = "in"
  /\ UNCHANGED <<fwps, sessions, globals, found, stuck>>

AddFilter ==
  /\ Goto("filter", IF dir = "out" THEN "register" ELSE "loaded")
  /\ Add(FilterOf[dir])
  /\ filterId' = [filterId EXCEPT ![dir] = TRUE]
  /\ dir' = "in"
  /\ UNCHANGED <<fwps, sessions, handle, calloutId, found, stuck>>

AddFilterFails ==
  /\ Goto("filter", "unfilter")
  /\ CannotAdd(FilterOf[dir])
  /\ dir' = "in"
  /\ UNCHANGED <<fwps, sessions, globals, found, stuck>>

CalloutRegister ==
  \/ RegisterCallout \/ RegisterCalloutFails
  \/ AddCallout \/ AddCalloutFails
  \/ AddFilter \/ AddFilterFails

-----------------------------------------------------------------------------
(* Unloading: KdaMonWfpCalloutUnregister, inbound and then outbound.       *)

BeginUnload ==
  /\ Goto("loaded", "unfilter")
  /\ dir' = "in"
  /\ UNCHANGED <<engine, fwps, sessions, globals, found, stuck>>

\* The id is forgotten, whether or not the filter was deleted.
DeleteFilter ==
  /\ Goto("unfilter", IF dir = "in" THEN "unfilter" ELSE "uncallout")
  /\ IF filterId[dir] THEN Delete(FilterOf[dir]) ELSE UNCHANGED <<engine, stuck>>
  /\ filterId' = [filterId EXCEPT ![dir] = FALSE]
  /\ dir' = IF dir = "in" THEN "out" ELSE "in"
  /\ UNCHANGED <<fwps, sessions, handle, calloutId, found>>

DeleteCallout ==
  /\ calloutId[dir]
  /\ Goto("uncallout", "unregister")
  /\ Delete(CalloutOf[dir])
  /\ UNCHANGED <<fwps, sessions, globals, dir, found>>

\* Faulty: a callout that could not be deleted stays registered.
UnregisterIfDeleted ==
  /\ Goto("unregister", IF dir = "in" THEN "uncallout" ELSE "unsublayer")
  /\ fwps' = IF CalloutOf[dir] \in engine THEN fwps ELSE fwps \ {dir}
  /\ calloutId' = [calloutId EXCEPT ![dir] = FALSE]
  /\ dir' = "out"
  /\ UNCHANGED <<engine, sessions, handle, filterId, found, stuck>>

\* Unregistering succeeds once the classify calls in progress have returned;
\* the status it would have otherwise is ignored.
UnregisterCallout ==
  /\ Goto("unregister", IF dir = "in" THEN "uncallout" ELSE "unsublayer")
  /\ fwps' = fwps \ {dir}
  /\ calloutId' = [calloutId EXCEPT ![dir] = FALSE]
  /\ dir' = "out"
  /\ UNCHANGED <<engine, sessions, handle, filterId, found, stuck>>

SkipCallout ==
  /\ ~ calloutId[dir]
  /\ Goto("uncallout", IF dir = "in" THEN "uncallout" ELSE "unsublayer")
  /\ dir' = "out"
  /\ UNCHANGED <<engine, fwps, sessions, globals, found, stuck>>

CalloutUnregister == DeleteFilter \/ DeleteCallout \/ UnregisterCallout \/ SkipCallout

-----------------------------------------------------------------------------
(* Unloading: KdaMonWfpSessionCleanup.                                     *)

\* Faulty: goes on to close the engine, the provider still there.
DeleteSubLayerOnly ==
  /\ Goto("unsublayer", "close")
  /\ Delete("sublayer")
  /\ UNCHANGED <<fwps, sessions, globals, dir, found>>

DeleteSubLayer ==
  /\ Goto("unsublayer", "unprovider")
  /\ Delete("sublayer")
  /\ UNCHANGED <<fwps, sessions, globals, dir, found>>

DeleteProvider ==
  /\ Goto("unprovider", "close")
  /\ Delete("provider")
  /\ UNCHANGED <<fwps, sessions, globals, dir, found>>

CloseEngine ==
  /\ Goto("close", "unloaded")
  /\ Close
  /\ handle' = FALSE
  /\ UNCHANGED <<engine, fwps, calloutId, filterId, dir, found>>

SessionCleanup == DeleteSubLayer \/ DeleteProvider \/ CloseEngine

WfpNext ==
  \/ Load \/ SessionInit \/ CalloutRegister
  \/ BeginUnload \/ CalloutUnregister \/ SessionCleanup

WfpSpec == WfpInit /\ [][WfpNext]_wfpVars

-----------------------------------------------------------------------------
(* Correctness.                                                            *)

WfpTypeOK ==
  /\ engine \subseteq Objects
  /\ fwps \subseteq Directions
  /\ sessions \in 0 .. MaxOpen
  /\ handle \in BOOLEAN
  /\ calloutId \in [Directions -> BOOLEAN]
  /\ filterId \in [Directions -> BOOLEAN]
  /\ at \in Calls \cup {"unloaded", "loaded"}
  /\ dir \in Directions
  /\ found \in BOOLEAN /\ stuck \in BOOLEAN

(* Wherever a load failed, and in whatever state an unload began: what it  *)
(* built is removed again, the objects in an order in which none is still  *)
(* referred to, and the session closed, unless the engine itself failed.   *)
AbsentOnUnload ==
  at = "unloaded" /\ ~ stuck => engine = {} /\ sessions = 0 /\ ~ handle

(* The kernel is never left with the address of a classify function of a   *)
(* driver that is gone, not even when deletions fail.                      *)
NoDanglingClassify == at = "unloaded" => fwps = {}

(* A driver that is loaded observes connections of both directions, with   *)
(* its own objects: it never starts on top of objects that an earlier,     *)
(* badly ended load left behind.                                           *)
LoadedIsComplete ==
  at = "loaded" => engine = Objects /\ fwps = Directions /\ ~ found

(* KdaMonWfpSessionInit does not remove a provider that it did not add: if *)
(* one is left behind, no load succeeds any more for as long as the engine *)
(* runs.                                                                   *)
LeftProviderBlocksLoads ==
  [](at = "unloaded" /\ "provider" \in engine => [](at # "loaded"))

-----------------------------------------------------------------------------
(* What the session and the callouts promise: NetworkSensor.tla.           *)

NetPhase ==
  CASE at \in {"unloaded", "open"} -> "absent"
    [] at \in {"provider", "sublayer", "register", "callout", "filter"} -> "starting"
    [] at = "loaded" -> "present"
    [] OTHER -> "stopping"

\* Activity reaches a classify function by way of the filter of its direction.
Observing == {d \in fwps : FilterOf[d] \in engine}

Sensor == INSTANCE NetworkSensor WITH phase <- NetPhase, observing <- Observing

(* Whatever fails on the way in or out, the sensor goes through its phases *)
(* in order, observes a direction for one unbroken time, both directions   *)
(* whenever a load succeeded, and none once the driver may be gone.        *)
ImplementsNetwork == Sensor!NetSpec
=============================================================================
