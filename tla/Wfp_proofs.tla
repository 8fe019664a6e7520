----------------------------- MODULE Wfp_proofs -----------------------------
(***************************************************************************)
(* Proofs about the WFP session and its callouts, for loads and unloads    *)
(* without end and a failure in any call.                                  *)
(***************************************************************************)
EXTENDS Wfp, TLAPS

\* The engine holds no object without what it refers to.
Closed ==
  /\ "sublayer" \in engine => "provider" \in engine
  /\ \A d \in Directions :
       FilterOf[d] \in engine =>
         "provider" \in engine /\ "sublayer" \in engine /\ CalloutOf[d] \in engine

Starting == {"provider", "sublayer", "register", "callout", "filter"}
PerDirection == {"register", "callout", "filter"}
Unbuilding == {"unfilter", "uncallout", "unregister"}

\* What the kernel knows, and what the globals say of it.
KernelKnown ==
  /\ \A d \in Directions : calloutId[d] <=> d \in fwps
  /\ \A d \in Directions : filterId[d] => d \in fwps
  /\ at \notin PerDirection \cup Unbuilding \cup {"loaded"} => fwps = {}
  /\ at \in {"open", "provider", "sublayer"} => dir = "out"
  /\ at \in PerDirection => "in" \notin fwps \/ (dir = "in" /\ at # "register")
  /\ at \in PerDirection /\ dir = "out" => fwps = {} \/ at # "register"
  /\ at \in {"callout", "filter"} => dir \in fwps
  /\ at \in PerDirection /\ dir = "in" => "out" \in fwps
  /\ at = "loaded" => fwps = Directions
  /\ at \in {"uncallout", "unregister"} /\ dir = "out" => "in" \notin fwps
  /\ at \in PerDirection => ~ filterId[dir]
  /\ at \in PerDirection /\ dir = "out" => ~ filterId["in"]
  /\ at = "unfilter" /\ dir = "out" => ~ filterId["in"]
  /\ at \in {"uncallout", "unregister"} => \A d \in Directions : ~ filterId[d]
  /\ at = "unregister" => calloutId[dir]

\* What a load has added so far, and what can be left of an earlier one.
Built ==
  /\ at \in PerDirection \cup {"sublayer", "loaded"} => "provider" \in engine
  /\ at \in PerDirection \cup {"loaded"} => "sublayer" \in engine
  /\ at = "filter" => CalloutOf[dir] \in engine
  /\ at = "loaded" => \A d \in Directions : CalloutOf[d] \in engine /\ FilterOf[d] \in engine
  /\ at \in PerDirection /\ dir = "in" => "callout out" \in engine /\ "filter out" \in engine
  /\ at = "sublayer" => "sublayer" \notin engine
  /\ at \in PerDirection => FilterOf[dir] \notin engine
  /\ at \in PerDirection /\ dir = "out" => "filter in" \notin engine

Leftovers ==
  /\ found /\ at \in {"open", "provider"} =>
       \E o \in {"provider", "callout out", "callout in"} : o \in engine
  /\ found /\ (at = "sublayer" \/ (at \in {"register", "callout"} /\ dir = "out")) =>
       "callout out" \in engine \/ "callout in" \in engine
  /\ found /\ ((at = "filter" /\ dir = "out") \/ (at \in {"register", "callout"} /\ dir = "in")) =>
       "callout in" \in engine
  /\ (at = "filter" /\ dir = "in") \/ at = "loaded" => ~ found

\* While no delete or close has failed, nothing is there that should not be.
Clean ==
  ~ stuck =>
    /\ \A d \in Directions : FilterOf[d] \in engine => filterId[d]
    /\ \A d \in Directions : CalloutOf[d] \in engine => calloutId[d]
    /\ at = "unregister" => CalloutOf[dir] \notin engine
    /\ at \in {"unloaded", "open", "provider", "close", "drop engine"} => "provider" \notin engine
    /\ at \in {"sublayer", "drop provider", "unprovider"} => "sublayer" \notin engine
    /\ at = "callout" => CalloutOf[dir] \notin engine

SessionOpen ==
  /\ at \in {"unloaded", "open"} => ~ handle /\ sessions < MaxOpen
  /\ at \notin {"unloaded", "open"} => sessions > 0
  /\ ~ stuck => sessions <= 1 /\ (at \in {"unloaded", "open"} => sessions = 0)

WfpInv ==
  /\ WfpTypeOK /\ Closed /\ KernelKnown /\ Built /\ Leftovers /\ Clean /\ SessionOpen
-----------------------------------------------------------------------------
(* The engine.                                                             *)

LEMMA Names ==
  /\ Directions = {"out", "in"}
  /\ CalloutOf["out"] = "callout out" /\ CalloutOf["in"] = "callout in"
  /\ FilterOf["out"] = "filter out" /\ FilterOf["in"] = "filter in"
  /\ Objects = {"provider", "sublayer", "callout out", "callout in", "filter out", "filter in"}
  BY DEF Directions, CalloutOf, FilterOf, Objects

LEMMA References ==
  /\ RefersTo("provider") = {} /\ RefersTo("sublayer") = {"provider"}
  /\ RefersTo("callout out") = {} /\ RefersTo("callout in") = {}
  /\ RefersTo("filter out") = {"provider", "sublayer", "callout out"}
  /\ RefersTo("filter in") = {"provider", "sublayer", "callout in"}
  BY DEF RefersTo

LEMMA ClosedFacts ==
  Closed <=>
    /\ "sublayer" \in engine => "provider" \in engine
    /\ "filter out" \in engine =>
         "provider" \in engine /\ "sublayer" \in engine /\ "callout out" \in engine
    /\ "filter in" \in engine =>
         "provider" \in engine /\ "sublayer" \in engine /\ "callout in" \in engine
  BY Names DEF Closed

LEMMA UsedOnlyBy ==
  ASSUME engine \subseteq Objects, NEW o \in Objects, InUse(o)
  PROVE  /\ o \in {"provider", "sublayer", "callout out", "callout in"}
         /\ o = "provider" =>
              "sublayer" \in engine \/ "filter out" \in engine \/ "filter in" \in engine
         /\ o = "sublayer" => "filter out" \in engine \/ "filter in" \in engine
         /\ o = "callout out" => "filter out" \in engine
         /\ o = "callout in" => "filter in" \in engine
  BY Names, References DEF InUse

LEMMA Used ==
  /\ "sublayer" \in engine => InUse("provider")
  /\ "filter out" \in engine =>
       InUse("provider") /\ InUse("sublayer") /\ InUse("callout out")
  /\ "filter in" \in engine =>
       InUse("provider") /\ InUse("sublayer") /\ InUse("callout in")
  BY References DEF InUse

(* What a deletion does: nothing, or the object goes, leaving none that    *)
(* refers to it.  It only fails for no fault of the driver if nothing does.*)
LEMMA Deletion ==
  ASSUME engine \subseteq Objects, Closed, stuck \in BOOLEAN, NEW o \in Objects, Delete(o)
  PROVE  /\ engine' \subseteq Objects /\ stuck' \in BOOLEAN /\ Closed'
         /\ engine' = engine \/ engine' = engine \ {o}
         /\ stuck => stuck'
         /\ ~ stuck' => o \notin engine' \/ InUse(o)
<1>1. engine' = engine \/ (engine' = engine \ {o} /\ ~ InUse(o))
  BY DEF Delete
<1>2. stuck' \in BOOLEAN /\ (stuck => stuck')
  BY Zenon DEF Delete
<1>3. ~ stuck' => o \notin engine' \/ InUse(o)
  BY DEF Delete
<1>4. engine' \subseteq Objects /\ Closed'
  <2>1. CASE engine' = engine
    BY <2>1 DEF Closed
  <2>2. CASE engine' = engine \ {o} /\ ~ InUse(o)
    <3>1. /\ engine' \subseteq Objects
          /\ \A x : x \in engine' <=> x \in engine /\ x # o
      BY <2>2
    <3>2. Closed'
      BY <2>2, <3>1, ClosedFacts, Used, Names DEF Closed
    <3> QED
      BY <3>1, <3>2
  <2> QED
    BY <1>1, <2>1, <2>2
<1> QED
  BY <1>1, <1>2, <1>3, <1>4, Zenon

LEMMA Addition ==
  ASSUME engine \subseteq Objects, Closed, NEW o \in Objects, Add(o)
  PROVE  /\ engine' \subseteq Objects /\ Closed' /\ engine' = engine \cup {o}
         /\ o \notin {"filter out", "filter in"} => o \notin engine
<1>1. RefersTo(o) \subseteq engine /\ engine' = engine \cup {o}
      /\ (o \notin {"filter out", "filter in"} => o \notin engine)
  BY DEF Add, Addable
<1>2. Closed'
  BY <1>1, ClosedFacts, References, Names DEF Closed
<1> QED
  BY <1>1, <1>2

LEMMA Closing ==
  ASSUME Close, stuck \in BOOLEAN, sessions \in 0 .. MaxOpen, sessions > 0
  PROVE  /\ sessions' \in 0 .. MaxOpen /\ stuck' \in BOOLEAN
         /\ stuck => stuck'
         /\ sessions' < MaxOpen
         /\ ~ stuck' => sessions' = sessions - 1
<1>1. sessions' = sessions - 1 \/ (sessions < MaxOpen /\ sessions' = sessions)
  BY DEF Close
<1>2. stuck' \in BOOLEAN /\ (stuck => stuck')
  <2>1. stuck' = stuck \/ stuck' = TRUE
    BY DEF Close
  <2> QED
    BY <2>1, Zenon
<1>3. ~ stuck' => sessions' = sessions - 1
  BY DEF Close
<1>4. sessions' \in 0 .. MaxOpen /\ sessions' < MaxOpen
  BY <1>1, WfpAssumption
<1> QED
  BY <1>2, <1>3, <1>4, Zenon

-----------------------------------------------------------------------------
(* The steps.                                                              *)

LEMMA LoadInv == WfpInv /\ Load => WfpInv'
<1> SUFFICES ASSUME WfpInv, Load PROVE WfpInv'
  OBVIOUS
<1> USE DEF PerDirection, Unbuilding
<1>1. /\ engine \subseteq Objects /\ Closed /\ dir \in {"out", "in"} /\ stuck \in BOOLEAN
      /\ Directions = {"out", "in"}
  BY DEF WfpInv, WfpTypeOK, Directions
<1>2. /\ at = "unloaded" /\ at' = "open" /\ dir' = "out"
      /\ handle' = FALSE /\ calloutId' = Off /\ filterId' = Off
      /\ found' = (engine # {})
      /\ UNCHANGED <<engine, fwps, sessions, stuck>>
  BY DEF Load, Goto, globals
<1>3. engine' \subseteq Objects /\ stuck' \in BOOLEAN /\ Closed'
  BY <1>1, <1>2 DEF Closed
<1>4. WfpTypeOK'
  <2>1. Off \in [Directions -> BOOLEAN] /\ (engine # {}) \in BOOLEAN
    BY DEF Off
  <2> QED
    BY <1>1, <1>2, <1>3, <2>1 DEF WfpInv, WfpTypeOK, Calls
<1>5. KernelKnown'
  BY <1>1, <1>2, <1>3, Names DEF WfpInv, KernelKnown, WfpTypeOK, Off
<1>6. Built'
  BY <1>1, <1>2, <1>3, Names DEF WfpInv, Built, WfpTypeOK
<1>7. Leftovers'
  <2>1. engine # {} => \E o \in {"provider", "callout out", "callout in"} : o \in engine
    <3>1. ASSUME NEW o \in engine PROVE \E x \in {"provider", "callout out", "callout in"} : x \in engine
      BY <1>1, <3>1, ClosedFacts, Names
    <3> QED
      BY <3>1
  <2> QED
    BY <1>2, <2>1 DEF Leftovers
<1>8. Clean'
  BY <1>1, <1>2, <1>3, Names DEF WfpInv, Clean, KernelKnown, WfpTypeOK, Off
<1>9. SessionOpen'
  BY <1>1, <1>2, <1>3 DEF WfpInv, SessionOpen
<1> QED
  BY <1>3, <1>4, <1>5, <1>6, <1>7, <1>8, <1>9 DEF WfpInv

LEMMA OpenEngineInv == WfpInv /\ OpenEngine => WfpInv'
<1> SUFFICES ASSUME WfpInv, OpenEngine PROVE WfpInv'
  OBVIOUS
<1> USE DEF PerDirection, Unbuilding
<1>1. /\ engine \subseteq Objects /\ Closed /\ dir \in {"out", "in"} /\ stuck \in BOOLEAN
      /\ Directions = {"out", "in"}
  BY DEF WfpInv, WfpTypeOK, Directions
<1>2. /\ at = "open" /\ at' = "provider"
      /\ sessions' = sessions + 1 /\ handle' = TRUE
      /\ UNCHANGED <<engine, fwps, calloutId, filterId, dir, found, stuck>>
  BY DEF OpenEngine, Goto, globals
<1>3. engine' \subseteq Objects /\ stuck' \in BOOLEAN /\ Closed'
  BY <1>1, <1>2 DEF Closed
<1>4. WfpTypeOK'
  <2>1. sessions' \in 0 .. MaxOpen
    <3>1. sessions' = sessions + 1 /\ sessions \in 0 .. MaxOpen /\ sessions < MaxOpen
      BY <1>2 DEF WfpInv, WfpTypeOK, SessionOpen
    <3> QED
      BY <3>1, WfpAssumption
  <2> QED
    BY <1>1, <1>2, <1>3, <2>1 DEF WfpInv, WfpTypeOK, Calls
<1>5. KernelKnown'
  BY <1>1, <1>2, <1>3, Names DEF WfpInv, KernelKnown, WfpTypeOK
<1>6. Built'
  BY <1>1, <1>2, <1>3, Names DEF WfpInv, Built, WfpTypeOK
<1>7. Leftovers'
  BY <1>1, <1>2, <1>3, Names DEF WfpInv, Leftovers, Built
<1>8. Clean'
  BY <1>1, <1>2, <1>3, Names DEF WfpInv, Clean, KernelKnown, WfpTypeOK
<1>9. SessionOpen'
  <2>1. sessions \in 0 .. MaxOpen /\ (~ stuck => sessions = 0)
    BY <1>2 DEF WfpInv, WfpTypeOK, SessionOpen
  <2>2. sessions' > 0 /\ (sessions = 0 => sessions' <= 1)
    <3>1. sessions' = sessions + 1
      BY <1>2
    <3> QED
      BY <2>1, <3>1
  <2> QED
    BY <1>2, <2>1, <2>2 DEF SessionOpen
<1> QED
  BY <1>3, <1>4, <1>5, <1>6, <1>7, <1>8, <1>9 DEF WfpInv

LEMMA OpenEngineFailsInv == WfpInv /\ OpenEngineFails => WfpInv'
<1> SUFFICES ASSUME WfpInv, OpenEngineFails PROVE WfpInv'
  OBVIOUS
<1> USE DEF PerDirection, Unbuilding
<1>1. /\ engine \subseteq Objects /\ Closed /\ dir \in {"out", "in"} /\ stuck \in BOOLEAN
      /\ Directions = {"out", "in"}
  BY DEF WfpInv, WfpTypeOK, Directions
<1>2. /\ at = "open" /\ at' = "unloaded"
      /\ UNCHANGED <<engine, fwps, sessions, handle, calloutId, filterId, dir, found, stuck>>
  BY DEF OpenEngineFails, Goto, globals, CannotAdd
<1>3. engine' \subseteq Objects /\ stuck' \in BOOLEAN /\ Closed'
  BY <1>1, <1>2 DEF Closed
<1>4. WfpTypeOK'
  BY <1>1, <1>2, <1>3 DEF WfpInv, WfpTypeOK, Calls
<1>5. KernelKnown'
  BY <1>1, <1>2, <1>3, Names DEF WfpInv, KernelKnown, WfpTypeOK
<1>6. Built'
  BY <1>1, <1>2, <1>3, Names DEF WfpInv, Built, WfpTypeOK
<1>7. Leftovers'
  BY <1>1, <1>2, <1>3, Names DEF WfpInv, Leftovers, Built
<1>8. Clean'
  BY <1>1, <1>2, <1>3, Names DEF WfpInv, Clean, KernelKnown, WfpTypeOK
<1>9. SessionOpen'
  BY <1>1, <1>2, <1>3 DEF WfpInv, SessionOpen
<1> QED
  BY <1>3, <1>4, <1>5, <1>6, <1>7, <1>8, <1>9 DEF WfpInv

LEMMA AddProviderInv == WfpInv /\ AddProvider => WfpInv'
<1> SUFFICES ASSUME WfpInv, AddProvider PROVE WfpInv'
  OBVIOUS
<1> USE DEF PerDirection, Unbuilding
<1>1. /\ engine \subseteq Objects /\ Closed /\ dir \in {"out", "in"} /\ stuck \in BOOLEAN
      /\ Directions = {"out", "in"}
  BY DEF WfpInv, WfpTypeOK, Directions
<1>2. /\ at = "provider" /\ at' = "sublayer"
      /\ UNCHANGED <<fwps, sessions, handle, calloutId, filterId, dir, found, stuck>>
  BY DEF AddProvider, Goto, globals
<1>3. /\ engine' \subseteq Objects /\ Closed' /\ engine' = engine \cup {"provider"}
      /\ "provider" \notin engine
  BY <1>1, Addition, Names DEF AddProvider
<1>4. WfpTypeOK'
  BY <1>1, <1>2, <1>3 DEF WfpInv, WfpTypeOK, Calls
<1>5. KernelKnown'
  BY <1>1, <1>2, <1>3, Names DEF WfpInv, KernelKnown, WfpTypeOK
<1>6. Built'
  BY <1>1, <1>2, <1>3, Names, ClosedFacts DEF WfpInv, Built, WfpTypeOK
<1>7. Leftovers'
  BY <1>1, <1>2, <1>3, Names, ClosedFacts DEF WfpInv, Leftovers, Built
<1>8. Clean'
  BY <1>1, <1>2, <1>3, Names, ClosedFacts DEF WfpInv, Clean, KernelKnown, WfpTypeOK
<1>9. SessionOpen'
  BY <1>1, <1>2, <1>3 DEF WfpInv, SessionOpen
<1> QED
  BY <1>3, <1>4, <1>5, <1>6, <1>7, <1>8, <1>9 DEF WfpInv

LEMMA AddProviderFailsInv == WfpInv /\ AddProviderFails => WfpInv'
<1> SUFFICES ASSUME WfpInv, AddProviderFails PROVE WfpInv'
  OBVIOUS
<1> USE DEF PerDirection, Unbuilding
<1>1. /\ engine \subseteq Objects /\ Closed /\ dir \in {"out", "in"} /\ stuck \in BOOLEAN
      /\ Directions = {"out", "in"}
  BY DEF WfpInv, WfpTypeOK, Directions
<1>2. /\ at = "provider" /\ at' = "drop engine"
      /\ UNCHANGED <<fwps, sessions, handle, calloutId, filterId, dir, found, stuck>>
      /\ UNCHANGED engine
  BY DEF AddProviderFails, Goto, globals, CannotAdd
<1>3. engine' \subseteq Objects /\ stuck' \in BOOLEAN /\ Closed'
  BY <1>1, <1>2 DEF Closed
<1>4. WfpTypeOK'
  BY <1>1, <1>2, <1>3 DEF WfpInv, WfpTypeOK, Calls
<1>5. KernelKnown'
  BY <1>1, <1>2, <1>3, Names DEF WfpInv, KernelKnown, WfpTypeOK
<1>6. Built'
  BY <1>1, <1>2, <1>3, Names DEF WfpInv, Built, WfpTypeOK
<1>7. Leftovers'
  BY <1>1, <1>2, <1>3, Names DEF WfpInv, Leftovers, Built
<1>8. Clean'
  BY <1>1, <1>2, <1>3, Names DEF WfpInv, Clean, KernelKnown, WfpTypeOK
<1>9. SessionOpen'
  BY <1>1, <1>2, <1>3 DEF WfpInv, SessionOpen
<1> QED
  BY <1>3, <1>4, <1>5, <1>6, <1>7, <1>8, <1>9 DEF WfpInv

LEMMA AddSubLayerInv == WfpInv /\ AddSubLayer => WfpInv'
<1> SUFFICES ASSUME WfpInv, AddSubLayer PROVE WfpInv'
  OBVIOUS
<1> USE DEF PerDirection, Unbuilding
<1>1. /\ engine \subseteq Objects /\ Closed /\ dir \in {"out", "in"} /\ stuck \in BOOLEAN
      /\ Directions = {"out", "in"}
  BY DEF WfpInv, WfpTypeOK, Directions
<1>2. /\ at = "sublayer" /\ at' = "register"
      /\ UNCHANGED <<fwps, sessions, handle, calloutId, filterId, dir, found, stuck>>
  BY DEF AddSubLayer, Goto, globals
<1>3. /\ engine' \subseteq Objects /\ Closed' /\ engine' = engine \cup {"sublayer"}
      /\ "sublayer" \notin engine
  BY <1>1, Addition, Names DEF AddSubLayer
<1>4. WfpTypeOK'
  BY <1>1, <1>2, <1>3 DEF WfpInv, WfpTypeOK, Calls
<1>5. KernelKnown'
  BY <1>1, <1>2, <1>3, Names DEF WfpInv, KernelKnown, WfpTypeOK
<1>6. Built'
  <2>1. "filter out" \notin engine' /\ "filter in" \notin engine' /\ dir = "out"
    BY <1>1, <1>2, <1>3, ClosedFacts DEF WfpInv, KernelKnown
  <2> QED
    BY <1>1, <1>2, <1>3, <2>1, Names DEF WfpInv, Built
<1>7. Leftovers'
  <2>1. "filter out" \notin engine' /\ "filter in" \notin engine' /\ dir = "out"
    BY <1>1, <1>2, <1>3, ClosedFacts DEF WfpInv, KernelKnown
  <2> QED
    BY <1>1, <1>2, <1>3, <2>1, Names DEF WfpInv, Leftovers
<1>8. Clean'
  BY <1>1, <1>2, <1>3, Names, ClosedFacts DEF WfpInv, Clean, KernelKnown, WfpTypeOK
<1>9. SessionOpen'
  BY <1>1, <1>2, <1>3 DEF WfpInv, SessionOpen
<1> QED
  BY <1>3, <1>4, <1>5, <1>6, <1>7, <1>8, <1>9 DEF WfpInv

LEMMA AddSubLayerFailsInv == WfpInv /\ AddSubLayerFails => WfpInv'
<1> SUFFICES ASSUME WfpInv, AddSubLayerFails PROVE WfpInv'
  OBVIOUS
<1> USE DEF PerDirection, Unbuilding
<1>1. /\ engine \subseteq Objects /\ Closed /\ dir \in {"out", "in"} /\ stuck \in BOOLEAN
      /\ Directions = {"out", "in"}
  BY DEF WfpInv, WfpTypeOK, Directions
<1>2. /\ at = "sublayer" /\ at' = "drop provider"
      /\ UNCHANGED <<fwps, sessions, handle, calloutId, filterId, dir, found, stuck>>
      /\ UNCHANGED engine
  BY DEF AddSubLayerFails, Goto, globals, CannotAdd
<1>3. engine' \subseteq Objects /\ stuck' \in BOOLEAN /\ Closed'
  BY <1>1, <1>2 DEF Closed
<1>4. WfpTypeOK'
  BY <1>1, <1>2, <1>3 DEF WfpInv, WfpTypeOK, Calls
<1>5. KernelKnown'
  BY <1>1, <1>2, <1>3, Names DEF WfpInv, KernelKnown, WfpTypeOK
<1>6. Built'
  BY <1>1, <1>2, <1>3, Names DEF WfpInv, Built, WfpTypeOK
<1>7. Leftovers'
  BY <1>1, <1>2, <1>3, Names DEF WfpInv, Leftovers, Built
<1>8. Clean'
  BY <1>1, <1>2, <1>3, Names DEF WfpInv, Clean, KernelKnown, WfpTypeOK
<1>9. SessionOpen'
  BY <1>1, <1>2, <1>3 DEF WfpInv, SessionOpen
<1> QED
  BY <1>3, <1>4, <1>5, <1>6, <1>7, <1>8, <1>9 DEF WfpInv

LEMMA DropProviderInv == WfpInv /\ DropProvider => WfpInv'
<1> SUFFICES ASSUME WfpInv, DropProvider PROVE WfpInv'
  OBVIOUS
<1> USE DEF PerDirection, Unbuilding
<1>1. /\ engine \subseteq Objects /\ Closed /\ dir \in {"out", "in"} /\ stuck \in BOOLEAN
      /\ Directions = {"out", "in"}
  BY DEF WfpInv, WfpTypeOK, Directions
<1>2. /\ at = "drop provider" /\ at' = "drop engine"
      /\ UNCHANGED <<fwps, sessions, handle, calloutId, filterId, dir, found>>
  BY DEF DropProvider, Goto, globals
<1>3. /\ engine' \subseteq Objects /\ stuck' \in BOOLEAN /\ Closed'
      /\ engine' = engine \/ engine' = engine \ {"provider"}
      /\ stuck => stuck'
      /\ ~ stuck' => "provider" \notin engine' \/ InUse("provider")
  BY <1>1, Deletion, Names DEF DropProvider
<1>4. WfpTypeOK'
  BY <1>1, <1>2, <1>3 DEF WfpInv, WfpTypeOK, Calls
<1>5. KernelKnown'
  BY <1>1, <1>2, <1>3, Names DEF WfpInv, KernelKnown, WfpTypeOK
<1>6. Built'
  BY <1>1, <1>2, <1>3, Names DEF WfpInv, Built, WfpTypeOK
<1>7. Leftovers'
  BY <1>1, <1>2, <1>3, Names DEF WfpInv, Leftovers, Built
<1>8. Clean'
  <2>1. ~ stuck' => ~ InUse("provider")
    <3>1. ASSUME InUse("provider"), ~ stuck' PROVE FALSE
      <4>1. ~ stuck
        BY <1>3, <3>1
      <4>2. "filter out" \in engine \/ "filter in" \in engine \/ "sublayer" \in engine
        BY <1>1, <3>1, UsedOnlyBy, Names
      <4> QED
        BY <1>1, <1>2, <4>1, <4>2, Names, ClosedFacts DEF WfpInv, Clean, KernelKnown
    <3> QED
      BY <3>1
  <2>2. ~ stuck' => ~ stuck /\ "provider" \notin engine'
    BY <1>3, <2>1
  <2> QED
    BY <1>1, <1>2, <1>3, <2>2, Names DEF WfpInv, Clean, KernelKnown
<1>9. SessionOpen'
  BY <1>1, <1>2, <1>3 DEF WfpInv, SessionOpen
<1> QED
  BY <1>3, <1>4, <1>5, <1>6, <1>7, <1>8, <1>9 DEF WfpInv

LEMMA DropEngineInv == WfpInv /\ DropEngine => WfpInv'
<1> SUFFICES ASSUME WfpInv, DropEngine PROVE WfpInv'
  OBVIOUS
<1> USE DEF PerDirection, Unbuilding
<1>1. /\ engine \subseteq Objects /\ Closed /\ dir \in {"out", "in"} /\ stuck \in BOOLEAN
      /\ Directions = {"out", "in"}
  BY DEF WfpInv, WfpTypeOK, Directions
<1>2. /\ at = "drop engine" /\ at' = "unloaded"
      /\ handle' = FALSE
      /\ UNCHANGED <<engine, fwps, calloutId, filterId, dir, found>>
  BY DEF DropEngine, Goto, globals
<1>3. /\ sessions' \in 0 .. MaxOpen /\ stuck' \in BOOLEAN
      /\ (stuck => stuck') /\ sessions' < MaxOpen
      /\ ~ stuck' => sessions' = sessions - 1
  BY <1>2, Closing DEF DropEngine, WfpInv, WfpTypeOK, SessionOpen
<1>4. engine' \subseteq Objects /\ Closed'
  BY <1>1, <1>2 DEF Closed
<1>5. WfpTypeOK'
  BY <1>1, <1>2, <1>3, <1>4 DEF WfpInv, WfpTypeOK, Calls
<1>6. KernelKnown'
  BY <1>1, <1>2, <1>3, Names DEF WfpInv, KernelKnown, WfpTypeOK
<1>7. Built'
  BY <1>1, <1>2, <1>3, Names DEF WfpInv, Built, WfpTypeOK
<1>8. Leftovers'
  BY <1>1, <1>2, <1>3, Names DEF WfpInv, Leftovers, Built
<1>9. Clean'
  BY <1>1, <1>2, <1>3, Names DEF WfpInv, Clean, KernelKnown, WfpTypeOK
<1>10. SessionOpen'
  <2>1. sessions > 0 /\ sessions \in 0 .. MaxOpen /\ (~ stuck => sessions <= 1)
    BY <1>2 DEF WfpInv, WfpTypeOK, SessionOpen
  <2>2. sessions <= 1 => sessions - 1 = 0
    BY <2>1
  <2>3. ~ stuck' => sessions' = 0
    BY <1>3, <2>1, <2>2, Zenon
  <2>4. ~ stuck' => sessions' <= 1
    <3>1. sessions' = 0 => sessions' <= 1
      OBVIOUS
    <3> QED
      BY <2>3, <3>1, Zenon
  <2>5. at' \in {"unloaded", "open"} /\ ~ handle'
    BY <1>2
  <2>6. sessions' < MaxOpen
    BY <1>3
  <2> QED
    BY <2>3, <2>4, <2>5, <2>6, Zenon DEF SessionOpen
<1> QED
  BY <1>3, <1>4, <1>5, <1>6, <1>7, <1>8, <1>9, <1>10 DEF WfpInv

LEMMA RegisterCalloutInv == WfpInv /\ RegisterCallout => WfpInv'
<1> SUFFICES ASSUME WfpInv, RegisterCallout PROVE WfpInv'
  OBVIOUS
<1> USE DEF PerDirection, Unbuilding
<1>1. /\ engine \subseteq Objects /\ Closed /\ dir \in {"out", "in"} /\ stuck \in BOOLEAN
      /\ Directions = {"out", "in"}
  BY DEF WfpInv, WfpTypeOK, Directions
<1>2. /\ at = "register" /\ at' = "callout"
      /\ fwps' = fwps \cup {dir}
      /\ calloutId' = [calloutId EXCEPT ![dir] = TRUE]
      /\ UNCHANGED <<engine, sessions, handle, filterId, dir, found, stuck>>
  BY DEF RegisterCallout, Goto, globals
<1>3. engine' \subseteq Objects /\ stuck' \in BOOLEAN /\ Closed'
  BY <1>1, <1>2 DEF Closed
<1>4. WfpTypeOK'
  BY <1>1, <1>2, <1>3 DEF WfpInv, WfpTypeOK, Calls
<1>5. KernelKnown'
  BY <1>1, <1>2, <1>3, Names DEF WfpInv, KernelKnown, WfpTypeOK
<1>6. Built'
  BY <1>1, <1>2, <1>3, Names DEF WfpInv, Built, WfpTypeOK
<1>7. Leftovers'
  BY <1>1, <1>2, <1>3, Names DEF WfpInv, Leftovers, Built
<1>8. Clean'
  BY <1>1, <1>2, <1>3, Names DEF WfpInv, Clean, KernelKnown, WfpTypeOK
<1>9. SessionOpen'
  BY <1>1, <1>2, <1>3 DEF WfpInv, SessionOpen
<1> QED
  BY <1>3, <1>4, <1>5, <1>6, <1>7, <1>8, <1>9 DEF WfpInv

LEMMA RegisterCalloutFailsInv == WfpInv /\ RegisterCalloutFails => WfpInv'
<1> SUFFICES ASSUME WfpInv, RegisterCalloutFails PROVE WfpInv'
  OBVIOUS
<1> USE DEF PerDirection, Unbuilding
<1>1. /\ engine \subseteq Objects /\ Closed /\ dir \in {"out", "in"} /\ stuck \in BOOLEAN
      /\ Directions = {"out", "in"}
  BY DEF WfpInv, WfpTypeOK, Directions
<1>2. /\ at = "register"
      /\ \/ dir = "out" /\ at' = "unsublayer"
         \/ dir = "in" /\ at' = "unfilter"
      /\ UNCHANGED engine
      /\ UNCHANGED <<fwps, sessions, handle, calloutId, filterId, dir, found, stuck>>
  BY <1>1 DEF RegisterCalloutFails, Goto, globals, CannotAdd
<1>3. engine' \subseteq Objects /\ stuck' \in BOOLEAN /\ Closed'
  BY <1>1, <1>2 DEF Closed
<1>4. WfpTypeOK'
  BY <1>1, <1>2, <1>3 DEF WfpInv, WfpTypeOK, Calls
<1>5. KernelKnown'
  BY <1>1, <1>2, <1>3, Names DEF WfpInv, KernelKnown, WfpTypeOK
<1>6. Built'
  BY <1>1, <1>2, <1>3, Names DEF WfpInv, Built, WfpTypeOK
<1>7. Leftovers'
  BY <1>1, <1>2, <1>3, Names DEF WfpInv, Leftovers, Built
<1>8. Clean'
  BY <1>1, <1>2, <1>3, Names DEF WfpInv, Clean, KernelKnown, WfpTypeOK
<1>9. SessionOpen'
  BY <1>1, <1>2, <1>3 DEF WfpInv, SessionOpen
<1> QED
  BY <1>3, <1>4, <1>5, <1>6, <1>7, <1>8, <1>9 DEF WfpInv

LEMMA AddCalloutInv == WfpInv /\ AddCallout => WfpInv'
<1> SUFFICES ASSUME WfpInv, AddCallout PROVE WfpInv'
  OBVIOUS
<1> USE DEF PerDirection, Unbuilding
<1>1. /\ engine \subseteq Objects /\ Closed /\ dir \in {"out", "in"} /\ stuck \in BOOLEAN
      /\ Directions = {"out", "in"}
  BY DEF WfpInv, WfpTypeOK, Directions
<1>2. /\ at = "callout" /\ at' = "filter"
      /\ UNCHANGED <<fwps, sessions, handle, calloutId, filterId, dir, found, stuck>>
  BY DEF AddCallout, Goto, globals
<1>3. /\ engine' \subseteq Objects /\ Closed' /\ engine' = engine \cup {CalloutOf[dir]}
      /\ CalloutOf[dir] \notin engine
  BY <1>1, Addition, Names DEF AddCallout
<1>4. WfpTypeOK'
  BY <1>1, <1>2, <1>3 DEF WfpInv, WfpTypeOK, Calls
<1>5. KernelKnown'
  BY <1>1, <1>2, <1>3, Names DEF WfpInv, KernelKnown, WfpTypeOK
<1>6. Built'
  BY <1>1, <1>2, <1>3, Names DEF WfpInv, Built, WfpTypeOK
<1>7. Leftovers'
  BY <1>1, <1>2, <1>3, Names DEF WfpInv, Leftovers, Built
<1>8. Clean'
  BY <1>1, <1>2, <1>3, Names DEF WfpInv, Clean, KernelKnown, WfpTypeOK
<1>9. SessionOpen'
  BY <1>1, <1>2, <1>3 DEF WfpInv, SessionOpen
<1> QED
  BY <1>3, <1>4, <1>5, <1>6, <1>7, <1>8, <1>9 DEF WfpInv

LEMMA AddCalloutFailsInv == WfpInv /\ AddCalloutFails => WfpInv'
<1> SUFFICES ASSUME WfpInv, AddCalloutFails PROVE WfpInv'
  OBVIOUS
<1> USE DEF PerDirection, Unbuilding
<1>1. /\ engine \subseteq Objects /\ Closed /\ dir \in {"out", "in"} /\ stuck \in BOOLEAN
      /\ Directions = {"out", "in"}
  BY DEF WfpInv, WfpTypeOK, Directions
<1>2. /\ at = "callout" /\ at' = "unfilter" /\ dir' = "in"
      /\ UNCHANGED <<engine, fwps, sessions, handle, calloutId, filterId, found, stuck>>
  BY DEF AddCalloutFails, Goto, globals, CannotAdd
<1>3. engine' \subseteq Objects /\ stuck' \in BOOLEAN /\ Closed'
  BY <1>1, <1>2 DEF Closed
<1>4. WfpTypeOK'
  BY <1>1, <1>2, <1>3 DEF WfpInv, WfpTypeOK, Calls
<1>5. KernelKnown'
  BY <1>1, <1>2, <1>3, Names DEF WfpInv, KernelKnown, WfpTypeOK
<1>6. Built'
  BY <1>1, <1>2, <1>3, Names DEF WfpInv, Built, WfpTypeOK
<1>7. Leftovers'
  BY <1>1, <1>2, <1>3, Names DEF WfpInv, Leftovers, Built
<1>8. Clean'
  BY <1>1, <1>2, <1>3, Names DEF WfpInv, Clean, KernelKnown, WfpTypeOK
<1>9. SessionOpen'
  BY <1>1, <1>2, <1>3 DEF WfpInv, SessionOpen
<1> QED
  BY <1>3, <1>4, <1>5, <1>6, <1>7, <1>8, <1>9 DEF WfpInv

LEMMA AddFilterInv == WfpInv /\ AddFilter => WfpInv'
<1> SUFFICES ASSUME WfpInv, AddFilter PROVE WfpInv'
  OBVIOUS
<1> USE DEF PerDirection, Unbuilding
<1>1. /\ engine \subseteq Objects /\ Closed /\ dir \in {"out", "in"} /\ stuck \in BOOLEAN
      /\ Directions = {"out", "in"}
  BY DEF WfpInv, WfpTypeOK, Directions
<1>2. /\ at = "filter" /\ dir' = "in"
      /\ \/ dir = "out" /\ at' = "register"
         \/ dir = "in" /\ at' = "loaded"
      /\ filterId' = [filterId EXCEPT ![dir] = TRUE]
      /\ UNCHANGED <<fwps, sessions, handle, calloutId, found, stuck>>
  BY <1>1 DEF AddFilter, Goto, globals
<1>3. /\ engine' \subseteq Objects /\ Closed' /\ engine' = engine \cup {FilterOf[dir]}
  BY <1>1, Addition, Names DEF AddFilter
<1>4. WfpTypeOK'
  BY <1>1, <1>2, <1>3 DEF WfpInv, WfpTypeOK, Calls
<1>5. KernelKnown'
  BY <1>1, <1>2, <1>3, Names DEF WfpInv, KernelKnown, WfpTypeOK
<1>6. Built'
  BY <1>1, <1>2, <1>3, Names DEF WfpInv, Built, WfpTypeOK
<1>7. Leftovers'
  BY <1>1, <1>2, <1>3, Names DEF WfpInv, Leftovers, Built
<1>8. Clean'
  BY <1>1, <1>2, <1>3, Names DEF WfpInv, Clean, KernelKnown, WfpTypeOK
<1>9. SessionOpen'
  BY <1>1, <1>2, <1>3 DEF WfpInv, SessionOpen
<1> QED
  BY <1>3, <1>4, <1>5, <1>6, <1>7, <1>8, <1>9 DEF WfpInv

LEMMA AddFilterFailsInv == WfpInv /\ AddFilterFails => WfpInv'
<1> SUFFICES ASSUME WfpInv, AddFilterFails PROVE WfpInv'
  OBVIOUS
<1> USE DEF PerDirection, Unbuilding
<1>1. /\ engine \subseteq Objects /\ Closed /\ dir \in {"out", "in"} /\ stuck \in BOOLEAN
      /\ Directions = {"out", "in"}
  BY DEF WfpInv, WfpTypeOK, Directions
<1>2. /\ at = "filter" /\ at' = "unfilter" /\ dir' = "in"
      /\ UNCHANGED <<engine, fwps, sessions, handle, calloutId, filterId, found, stuck>>
  BY DEF AddFilterFails, Goto, globals, CannotAdd
<1>3. engine' \subseteq Objects /\ stuck' \in BOOLEAN /\ Closed'
  BY <1>1, <1>2 DEF Closed
<1>4. WfpTypeOK'
  BY <1>1, <1>2, <1>3 DEF WfpInv, WfpTypeOK, Calls
<1>5. KernelKnown'
  BY <1>1, <1>2, <1>3, Names DEF WfpInv, KernelKnown, WfpTypeOK
<1>6. Built'
  BY <1>1, <1>2, <1>3, Names DEF WfpInv, Built, WfpTypeOK
<1>7. Leftovers'
  BY <1>1, <1>2, <1>3, Names DEF WfpInv, Leftovers, Built
<1>8. Clean'
  BY <1>1, <1>2, <1>3, Names DEF WfpInv, Clean, KernelKnown, WfpTypeOK
<1>9. SessionOpen'
  BY <1>1, <1>2, <1>3 DEF WfpInv, SessionOpen
<1> QED
  BY <1>3, <1>4, <1>5, <1>6, <1>7, <1>8, <1>9 DEF WfpInv

LEMMA BeginUnloadInv == WfpInv /\ BeginUnload => WfpInv'
<1> SUFFICES ASSUME WfpInv, BeginUnload PROVE WfpInv'
  OBVIOUS
<1> USE DEF PerDirection, Unbuilding
<1>1. /\ engine \subseteq Objects /\ Closed /\ dir \in {"out", "in"} /\ stuck \in BOOLEAN
      /\ Directions = {"out", "in"}
  BY DEF WfpInv, WfpTypeOK, Directions
<1>2. /\ at = "loaded" /\ at' = "unfilter" /\ dir' = "in"
      /\ UNCHANGED <<engine, fwps, sessions, handle, calloutId, filterId, found, stuck>>
  BY DEF BeginUnload, Goto, globals
<1>3. engine' \subseteq Objects /\ stuck' \in BOOLEAN /\ Closed'
  BY <1>1, <1>2 DEF Closed
<1>4. WfpTypeOK'
  BY <1>1, <1>2, <1>3 DEF WfpInv, WfpTypeOK, Calls
<1>5. KernelKnown'
  BY <1>1, <1>2, <1>3, Names DEF WfpInv, KernelKnown, WfpTypeOK
<1>6. Built'
  BY <1>1, <1>2, <1>3, Names DEF WfpInv, Built, WfpTypeOK
<1>7. Leftovers'
  BY <1>1, <1>2, <1>3, Names DEF WfpInv, Leftovers, Built
<1>8. Clean'
  BY <1>1, <1>2, <1>3, Names DEF WfpInv, Clean, KernelKnown, WfpTypeOK
<1>9. SessionOpen'
  BY <1>1, <1>2, <1>3 DEF WfpInv, SessionOpen
<1> QED
  BY <1>3, <1>4, <1>5, <1>6, <1>7, <1>8, <1>9 DEF WfpInv

LEMMA DeleteFilterInv == WfpInv /\ DeleteFilter => WfpInv'
<1> SUFFICES ASSUME WfpInv, DeleteFilter PROVE WfpInv'
  OBVIOUS
<1> USE DEF PerDirection, Unbuilding
<1>1. /\ engine \subseteq Objects /\ Closed /\ dir \in {"out", "in"} /\ stuck \in BOOLEAN
      /\ Directions = {"out", "in"}
  BY DEF WfpInv, WfpTypeOK, Directions
<1>2. /\ at = "unfilter"
      /\ \/ dir = "in" /\ at' = "unfilter" /\ dir' = "out"
         \/ dir = "out" /\ at' = "uncallout" /\ dir' = "in"
      /\ filterId' = [filterId EXCEPT ![dir] = FALSE]
      /\ UNCHANGED <<fwps, sessions, handle, calloutId, found>>
  BY <1>1 DEF DeleteFilter, Goto, globals
<1>3. /\ engine' \subseteq Objects /\ stuck' \in BOOLEAN /\ Closed'
      /\ engine' = engine \/ engine' = engine \ {FilterOf[dir]}
      /\ stuck => stuck'
      /\ ~ stuck' => FilterOf[dir] \notin engine' \/ InUse(FilterOf[dir])
  <2>1. CASE filterId[dir]
    BY <1>1, <2>1, Deletion, Names DEF DeleteFilter
  <2>2. CASE ~ filterId[dir]
    <3>1. UNCHANGED <<engine, stuck>>
      BY <2>2 DEF DeleteFilter
    <3>2. ~ stuck => FilterOf[dir] \notin engine
      BY <1>1, <2>2 DEF WfpInv, Clean
    <3> QED
      BY <1>1, <3>1, <3>2 DEF Closed
  <2> QED
    BY <2>1, <2>2
<1>4. WfpTypeOK'
  BY <1>1, <1>2, <1>3 DEF WfpInv, WfpTypeOK, Calls
<1>5. KernelKnown'
  BY <1>1, <1>2, <1>3, Names DEF WfpInv, KernelKnown, WfpTypeOK
<1>6. Built'
  BY <1>1, <1>2, <1>3, Names DEF WfpInv, Built, WfpTypeOK
<1>7. Leftovers'
  BY <1>1, <1>2, <1>3, Names DEF WfpInv, Leftovers, Built
<1>8. Clean'
  <2>1. CASE stuck'
    BY <2>1 DEF Clean
  <2>2. CASE ~ stuck'
    <3>1. Clean /\ ~ stuck
      BY <1>1, <1>3, <2>2 DEF WfpInv
    <3>2. FilterOf[dir] \notin engine'
      <4>1. SUFFICES ~ InUse(FilterOf[dir])
        BY <1>3, <2>2
      <4>2. FilterOf[dir] \in {"filter out", "filter in"} /\ FilterOf[dir] \in Objects
        BY <1>1, Names
      <4>3. ASSUME InUse(FilterOf[dir]) PROVE FALSE
        BY <1>1, <4>2, <4>3, UsedOnlyBy
      <4> QED
        BY <4>3
    <3>3. \A d \in Directions : FilterOf[d] \in engine' => filterId'[d]
      <4>1. SUFFICES ASSUME NEW d \in Directions, FilterOf[d] \in engine'
                     PROVE  filterId'[d]
        OBVIOUS
      <4>2. d # dir /\ FilterOf[d] \in engine
        BY <1>3, <3>2, <4>1
      <4>3. filterId[d]
        BY <3>1, <4>2 DEF Clean
      <4>4. filterId'[d] = filterId[d]
        BY <1>1, <1>2, <4>2 DEF WfpInv, WfpTypeOK
      <4> QED
        BY <4>3, <4>4
    <3>4. \A d \in Directions : CalloutOf[d] \in engine' => calloutId'[d]
      BY <1>2, <1>3, <3>1 DEF Clean
    <3> QED
      BY <1>2, <3>3, <3>4 DEF Clean
  <2> QED
    BY <1>3, <2>1, <2>2
<1>9. SessionOpen'
  BY <1>1, <1>2, <1>3 DEF WfpInv, SessionOpen
<1> QED
  BY <1>3, <1>4, <1>5, <1>6, <1>7, <1>8, <1>9 DEF WfpInv

LEMMA DeleteCalloutInv == WfpInv /\ DeleteCallout => WfpInv'
<1> SUFFICES ASSUME WfpInv, DeleteCallout PROVE WfpInv'
  OBVIOUS
<1> USE DEF PerDirection, Unbuilding
<1>1. /\ engine \subseteq Objects /\ Closed /\ dir \in {"out", "in"} /\ stuck \in BOOLEAN
      /\ Directions = {"out", "in"}
  BY DEF WfpInv, WfpTypeOK, Directions
<1>2. /\ at = "uncallout" /\ at' = "unregister" /\ calloutId[dir]
      /\ UNCHANGED <<fwps, sessions, handle, calloutId, filterId, dir, found>>
  BY DEF DeleteCallout, Goto, globals
<1>3. /\ engine' \subseteq Objects /\ stuck' \in BOOLEAN /\ Closed'
      /\ engine' = engine \/ engine' = engine \ {CalloutOf[dir]}
      /\ stuck => stuck'
      /\ ~ stuck' => CalloutOf[dir] \notin engine' \/ InUse(CalloutOf[dir])
  BY <1>1, Deletion, Names DEF DeleteCallout
<1>4. WfpTypeOK'
  BY <1>1, <1>2, <1>3 DEF WfpInv, WfpTypeOK, Calls
<1>5. KernelKnown'
  BY <1>1, <1>2, <1>3, Names DEF WfpInv, KernelKnown, WfpTypeOK
<1>6. Built'
  BY <1>1, <1>2, <1>3, Names DEF WfpInv, Built, WfpTypeOK
<1>7. Leftovers'
  BY <1>1, <1>2, <1>3, Names DEF WfpInv, Leftovers, Built
<1>8. Clean'
  <2>1. CASE stuck'
    BY <2>1 DEF Clean
  <2>2. CASE ~ stuck'
    <3>1. Clean /\ ~ stuck
      BY <1>1, <1>3, <2>2 DEF WfpInv
    <3>2. FilterOf[dir] \notin engine
      BY <1>1, <1>2, <3>1, Names DEF WfpInv, Clean, KernelKnown, Built
    <3>3. CalloutOf[dir] \notin engine'
      <4>1. SUFFICES ~ InUse(CalloutOf[dir])
        BY <1>3, <2>2
      <4>2. ASSUME InUse(CalloutOf[dir]) PROVE FilterOf[dir] \in engine
        <5>1. CalloutOf[dir] \in Objects
          BY <1>1, Names
        <5> QED
          BY <1>1, <4>2, <5>1, UsedOnlyBy, Names
      <4> QED
        BY <3>2, <4>2
    <3>4. /\ \A d \in Directions : FilterOf[d] \in engine' => filterId'[d]
          /\ \A d \in Directions : CalloutOf[d] \in engine' => calloutId'[d]
      BY <1>2, <1>3, <3>1 DEF Clean
    <3> QED
      BY <1>2, <3>3, <3>4 DEF Clean
  <2> QED
    BY <1>3, <2>1, <2>2
<1>9. SessionOpen'
  BY <1>1, <1>2, <1>3 DEF WfpInv, SessionOpen
<1> QED
  BY <1>3, <1>4, <1>5, <1>6, <1>7, <1>8, <1>9 DEF WfpInv

LEMMA UnregisterCalloutInv == WfpInv /\ UnregisterCallout => WfpInv'
<1> SUFFICES ASSUME WfpInv, UnregisterCallout PROVE WfpInv'
  OBVIOUS
<1> USE DEF PerDirection, Unbuilding
<1>1. /\ engine \subseteq Objects /\ Closed /\ dir \in {"out", "in"} /\ stuck \in BOOLEAN
      /\ Directions = {"out", "in"}
  BY DEF WfpInv, WfpTypeOK, Directions
<1>2. /\ at = "unregister" /\ dir' = "out"
      /\ \/ dir = "in" /\ at' = "uncallout"
         \/ dir = "out" /\ at' = "unsublayer"
      /\ fwps' = fwps \ {dir}
      /\ calloutId' = [calloutId EXCEPT ![dir] = FALSE]
      /\ UNCHANGED <<engine, sessions, handle, filterId, found, stuck>>
  BY <1>1 DEF UnregisterCallout, Goto, globals
<1>3. engine' \subseteq Objects /\ stuck' \in BOOLEAN /\ Closed'
  BY <1>1, <1>2 DEF Closed
<1>4. WfpTypeOK'
  BY <1>1, <1>2, <1>3 DEF WfpInv, WfpTypeOK, Calls
<1>5. KernelKnown'
  BY <1>1, <1>2, <1>3, Names DEF WfpInv, KernelKnown, WfpTypeOK
<1>6. Built'
  BY <1>1, <1>2, <1>3, Names DEF WfpInv, Built, WfpTypeOK
<1>7. Leftovers'
  BY <1>1, <1>2, <1>3, Names DEF WfpInv, Leftovers, Built
<1>8. Clean'
  BY <1>1, <1>2, <1>3, Names DEF WfpInv, Clean, KernelKnown, WfpTypeOK
<1>9. SessionOpen'
  BY <1>1, <1>2, <1>3 DEF WfpInv, SessionOpen
<1> QED
  BY <1>3, <1>4, <1>5, <1>6, <1>7, <1>8, <1>9 DEF WfpInv

LEMMA SkipCalloutInv == WfpInv /\ SkipCallout => WfpInv'
<1> SUFFICES ASSUME WfpInv, SkipCallout PROVE WfpInv'
  OBVIOUS
<1> USE DEF PerDirection, Unbuilding
<1>1. /\ engine \subseteq Objects /\ Closed /\ dir \in {"out", "in"} /\ stuck \in BOOLEAN
      /\ Directions = {"out", "in"}
  BY DEF WfpInv, WfpTypeOK, Directions
<1>2. /\ at = "uncallout" /\ dir' = "out" /\ ~ calloutId[dir]
      /\ \/ dir = "in" /\ at' = "uncallout"
         \/ dir = "out" /\ at' = "unsublayer"
      /\ UNCHANGED <<engine, fwps, sessions, handle, calloutId, filterId, found, stuck>>
  BY <1>1 DEF SkipCallout, Goto, globals
<1>3. engine' \subseteq Objects /\ stuck' \in BOOLEAN /\ Closed'
  BY <1>1, <1>2 DEF Closed
<1>4. WfpTypeOK'
  BY <1>1, <1>2, <1>3 DEF WfpInv, WfpTypeOK, Calls
<1>5. KernelKnown'
  BY <1>1, <1>2, <1>3, Names DEF WfpInv, KernelKnown, WfpTypeOK
<1>6. Built'
  BY <1>1, <1>2, <1>3, Names DEF WfpInv, Built, WfpTypeOK
<1>7. Leftovers'
  BY <1>1, <1>2, <1>3, Names DEF WfpInv, Leftovers, Built
<1>8. Clean'
  BY <1>1, <1>2, <1>3, Names DEF WfpInv, Clean, KernelKnown, WfpTypeOK
<1>9. SessionOpen'
  BY <1>1, <1>2, <1>3 DEF WfpInv, SessionOpen
<1> QED
  BY <1>3, <1>4, <1>5, <1>6, <1>7, <1>8, <1>9 DEF WfpInv

LEMMA DeleteSubLayerInv == WfpInv /\ DeleteSubLayer => WfpInv'
<1> SUFFICES ASSUME WfpInv, DeleteSubLayer PROVE WfpInv'
  OBVIOUS
<1> USE DEF PerDirection, Unbuilding
<1>1. /\ engine \subseteq Objects /\ Closed /\ dir \in {"out", "in"} /\ stuck \in BOOLEAN
      /\ Directions = {"out", "in"}
  BY DEF WfpInv, WfpTypeOK, Directions
<1>2. /\ at = "unsublayer" /\ at' = "unprovider"
      /\ UNCHANGED <<fwps, sessions, handle, calloutId, filterId, dir, found>>
  BY DEF DeleteSubLayer, Goto, globals
<1>3. /\ engine' \subseteq Objects /\ stuck' \in BOOLEAN /\ Closed'
      /\ engine' = engine \/ engine' = engine \ {"sublayer"}
      /\ stuck => stuck'
      /\ ~ stuck' => "sublayer" \notin engine' \/ InUse("sublayer")
  BY <1>1, Deletion, Names DEF DeleteSubLayer
<1>4. WfpTypeOK'
  BY <1>1, <1>2, <1>3 DEF WfpInv, WfpTypeOK, Calls
<1>5. KernelKnown'
  BY <1>1, <1>2, <1>3, Names DEF WfpInv, KernelKnown, WfpTypeOK
<1>6. Built'
  BY <1>1, <1>2, <1>3, Names DEF WfpInv, Built, WfpTypeOK
<1>7. Leftovers'
  BY <1>1, <1>2, <1>3, Names DEF WfpInv, Leftovers, Built
<1>8. Clean'
  <2>1. ~ stuck' => ~ InUse("sublayer")
    <3>1. ASSUME InUse("sublayer"), ~ stuck' PROVE FALSE
      <4>1. ~ stuck
        BY <1>3, <3>1
      <4>2. "filter out" \in engine \/ "filter in" \in engine
        BY <1>1, <3>1, UsedOnlyBy, Names
      <4> QED
        BY <1>1, <1>2, <4>1, <4>2, Names, ClosedFacts DEF WfpInv, Clean, KernelKnown
    <3> QED
      BY <3>1
  <2>2. ~ stuck' => ~ stuck /\ "sublayer" \notin engine'
    BY <1>3, <2>1
  <2> QED
    BY <1>1, <1>2, <1>3, <2>2, Names DEF WfpInv, Clean, KernelKnown
<1>9. SessionOpen'
  BY <1>1, <1>2, <1>3 DEF WfpInv, SessionOpen
<1> QED
  BY <1>3, <1>4, <1>5, <1>6, <1>7, <1>8, <1>9 DEF WfpInv

LEMMA DeleteProviderInv == WfpInv /\ DeleteProvider => WfpInv'
<1> SUFFICES ASSUME WfpInv, DeleteProvider PROVE WfpInv'
  OBVIOUS
<1> USE DEF PerDirection, Unbuilding
<1>1. /\ engine \subseteq Objects /\ Closed /\ dir \in {"out", "in"} /\ stuck \in BOOLEAN
      /\ Directions = {"out", "in"}
  BY DEF WfpInv, WfpTypeOK, Directions
<1>2. /\ at = "unprovider" /\ at' = "close"
      /\ UNCHANGED <<fwps, sessions, handle, calloutId, filterId, dir, found>>
  BY DEF DeleteProvider, Goto, globals
<1>3. /\ engine' \subseteq Objects /\ stuck' \in BOOLEAN /\ Closed'
      /\ engine' = engine \/ engine' = engine \ {"provider"}
      /\ stuck => stuck'
      /\ ~ stuck' => "provider" \notin engine' \/ InUse("provider")
  BY <1>1, Deletion, Names DEF DeleteProvider
<1>4. WfpTypeOK'
  BY <1>1, <1>2, <1>3 DEF WfpInv, WfpTypeOK, Calls
<1>5. KernelKnown'
  BY <1>1, <1>2, <1>3, Names DEF WfpInv, KernelKnown, WfpTypeOK
<1>6. Built'
  BY <1>1, <1>2, <1>3, Names DEF WfpInv, Built, WfpTypeOK
<1>7. Leftovers'
  BY <1>1, <1>2, <1>3, Names DEF WfpInv, Leftovers, Built
<1>8. Clean'
  <2>1. ~ stuck' => ~ InUse("provider")
    <3>1. ASSUME InUse("provider"), ~ stuck' PROVE FALSE
      <4>1. ~ stuck
        BY <1>3, <3>1
      <4>2. "filter out" \in engine \/ "filter in" \in engine \/ "sublayer" \in engine
        BY <1>1, <3>1, UsedOnlyBy, Names
      <4> QED
        BY <1>1, <1>2, <4>1, <4>2, Names, ClosedFacts DEF WfpInv, Clean, KernelKnown
    <3> QED
      BY <3>1
  <2>2. ~ stuck' => ~ stuck /\ "provider" \notin engine'
    BY <1>3, <2>1
  <2> QED
    BY <1>1, <1>2, <1>3, <2>2, Names DEF WfpInv, Clean, KernelKnown
<1>9. SessionOpen'
  BY <1>1, <1>2, <1>3 DEF WfpInv, SessionOpen
<1> QED
  BY <1>3, <1>4, <1>5, <1>6, <1>7, <1>8, <1>9 DEF WfpInv

LEMMA CloseEngineInv == WfpInv /\ CloseEngine => WfpInv'
<1> SUFFICES ASSUME WfpInv, CloseEngine PROVE WfpInv'
  OBVIOUS
<1> USE DEF PerDirection, Unbuilding
<1>1. /\ engine \subseteq Objects /\ Closed /\ dir \in {"out", "in"} /\ stuck \in BOOLEAN
      /\ Directions = {"out", "in"}
  BY DEF WfpInv, WfpTypeOK, Directions
<1>2. /\ at = "close" /\ at' = "unloaded"
      /\ handle' = FALSE
      /\ UNCHANGED <<engine, fwps, calloutId, filterId, dir, found>>
  BY DEF CloseEngine, Goto, globals
<1>3. /\ sessions' \in 0 .. MaxOpen /\ stuck' \in BOOLEAN
      /\ (stuck => stuck') /\ sessions' < MaxOpen
      /\ ~ stuck' => sessions' = sessions - 1
  BY <1>2, Closing DEF CloseEngine, WfpInv, WfpTypeOK, SessionOpen
<1>4. engine' \subseteq Objects /\ Closed'
  BY <1>1, <1>2 DEF Closed
<1>5. WfpTypeOK'
  BY <1>1, <1>2, <1>3, <1>4 DEF WfpInv, WfpTypeOK, Calls
<1>6. KernelKnown'
  BY <1>1, <1>2, <1>3, Names DEF WfpInv, KernelKnown, WfpTypeOK
<1>7. Built'
  BY <1>1, <1>2, <1>3, Names DEF WfpInv, Built, WfpTypeOK
<1>8. Leftovers'
  BY <1>1, <1>2, <1>3, Names DEF WfpInv, Leftovers, Built
<1>9. Clean'
  BY <1>1, <1>2, <1>3, Names DEF WfpInv, Clean, KernelKnown, WfpTypeOK
<1>10. SessionOpen'
  <2>1. sessions > 0 /\ sessions \in 0 .. MaxOpen /\ (~ stuck => sessions <= 1)
    BY <1>2 DEF WfpInv, WfpTypeOK, SessionOpen
  <2>2. sessions <= 1 => sessions - 1 = 0
    BY <2>1
  <2>3. ~ stuck' => sessions' = 0
    BY <1>3, <2>1, <2>2, Zenon
  <2>4. ~ stuck' => sessions' <= 1
    <3>1. sessions' = 0 => sessions' <= 1
      OBVIOUS
    <3> QED
      BY <2>3, <3>1, Zenon
  <2>5. at' \in {"unloaded", "open"} /\ ~ handle'
    BY <1>2
  <2>6. sessions' < MaxOpen
    BY <1>3
  <2> QED
    BY <2>3, <2>4, <2>5, <2>6, Zenon DEF SessionOpen
<1> QED
  BY <1>3, <1>4, <1>5, <1>6, <1>7, <1>8, <1>9, <1>10 DEF WfpInv

LEMMA WfpUnchangedInv == WfpInv /\ UNCHANGED wfpVars => WfpInv'
<1> SUFFICES ASSUME WfpInv, UNCHANGED wfpVars PROVE WfpInv'
  OBVIOUS
<1>1. UNCHANGED <<engine, fwps, sessions, handle, calloutId, filterId, at, dir, found, stuck>>
  BY DEF wfpVars, globals
<1>2. WfpTypeOK' /\ Closed' /\ KernelKnown'
  BY <1>1 DEF WfpInv, WfpTypeOK, Closed, KernelKnown
<1>3. Built' /\ Leftovers' /\ Clean' /\ SessionOpen'
  BY <1>1, ZenonT(40) DEF WfpInv, Built, Leftovers, Clean, SessionOpen
<1> QED
  BY <1>2, <1>3 DEF WfpInv

LEMMA InitWfpInv == WfpInit => WfpInv
<1> SUFFICES ASSUME WfpInit PROVE WfpInv
  OBVIOUS
<1>1. WfpTypeOK
  <2>1. 0 \in 0 .. MaxOpen
    BY WfpAssumption
  <2> QED
    BY <2>1 DEF WfpInit, WfpTypeOK, Off, Calls, Directions
<1>2. Closed /\ Built /\ Leftovers /\ Clean
  BY Names DEF WfpInit, Closed, Built, Leftovers, Clean, PerDirection
<1>3. KernelKnown
  BY Names DEF WfpInit, KernelKnown, PerDirection, Unbuilding, Off
<1>4. SessionOpen
  <2>1. 0 < MaxOpen /\ 0 <= 1
    BY WfpAssumption
  <2>2. sessions = 0 /\ ~ handle /\ at \in {"unloaded", "open"}
    BY DEF WfpInit
  <2> QED
    BY <2>1, <2>2, Zenon DEF SessionOpen
<1> QED
  BY <1>1, <1>2, <1>3, <1>4 DEF WfpInv

LEMMA WfpInvAlways == WfpSpec => []WfpInv
<1>1. ASSUME WfpInv, [WfpNext]_wfpVars PROVE WfpInv'
  <2>1. ASSUME SessionInit PROVE WfpInv'
    BY <1>1, <2>1, OpenEngineInv, OpenEngineFailsInv, AddProviderInv, AddProviderFailsInv,
       AddSubLayerInv, AddSubLayerFailsInv, DropProviderInv, DropEngineInv DEF SessionInit
  <2>2. ASSUME CalloutRegister PROVE WfpInv'
    BY <1>1, <2>2, RegisterCalloutInv, RegisterCalloutFailsInv, AddCalloutInv,
       AddCalloutFailsInv, AddFilterInv, AddFilterFailsInv DEF CalloutRegister
  <2>3. ASSUME CalloutUnregister PROVE WfpInv'
    BY <1>1, <2>3, DeleteFilterInv, DeleteCalloutInv, UnregisterCalloutInv, SkipCalloutInv
       DEF CalloutUnregister
  <2>4. ASSUME SessionCleanup PROVE WfpInv'
    BY <1>1, <2>4, DeleteSubLayerInv, DeleteProviderInv, CloseEngineInv DEF SessionCleanup
  <2> QED
    BY <1>1, <2>1, <2>2, <2>3, <2>4, LoadInv, BeginUnloadInv, WfpUnchangedInv DEF WfpNext
<1> QED
  BY <1>1, InitWfpInv, PTL DEF WfpSpec

-----------------------------------------------------------------------------
(* The bookkeeping of the session is well typed; in particular a load      *)
(* never opens a session beyond the bound, as each one closes its own.     *)
THEOREM WfpTypeCorrect == WfpSpec => []WfpTypeOK
<1>1. WfpInv => WfpTypeOK
  BY DEF WfpInv
<1> QED
  BY <1>1, WfpInvAlways, PTL

(* Whatever failed on the way, an unloaded driver has nothing in the       *)
(* engine, as long as the engine itself did what it was asked.             *)
THEOREM UnloadedIsAbsent == WfpSpec => []AbsentOnUnload
<1>1. ASSUME WfpInv, at = "unloaded", ~ stuck
      PROVE  engine = {} /\ sessions = 0 /\ ~ handle
  <2>1. fwps = {}
    BY <1>1 DEF WfpInv, KernelKnown, PerDirection, Unbuilding
  <2>2. \A d \in Directions : FilterOf[d] \notin engine /\ CalloutOf[d] \notin engine
    BY <1>1, <2>1 DEF WfpInv, Clean, KernelKnown
  <2>3. "provider" \notin engine /\ "sublayer" \notin engine
    BY <1>1 DEF WfpInv, Clean, Closed
  <2>4. engine = {}
    <3>1. /\ "callout out" \notin engine /\ "callout in" \notin engine
          /\ "filter out" \notin engine /\ "filter in" \notin engine
      BY <2>2, Names
    <3>2. engine \subseteq Objects
      BY <1>1 DEF WfpInv, WfpTypeOK
    <3> QED
      BY <2>3, <3>1, <3>2, Names
  <2> QED
    BY <1>1, <2>4 DEF WfpInv, SessionOpen
<1>2. WfpInv => AbsentOnUnload
  BY <1>1 DEF AbsentOnUnload
<1> QED
  BY <1>2, WfpInvAlways, PTL

(* No failure of any call leaves a classify function registered.           *)
THEOREM ClassifyNeverDangles == WfpSpec => []NoDanglingClassify
<1>1. WfpInv => NoDanglingClassify
  BY DEF WfpInv, KernelKnown, NoDanglingClassify, PerDirection, Unbuilding
<1> QED
  BY <1>1, WfpInvAlways, PTL

(* A load that succeeds has built all of it itself.                        *)
THEOREM LoadsAreComplete == WfpSpec => []LoadedIsComplete
<1>1. ASSUME WfpInv, at = "loaded" PROVE engine = Objects /\ fwps = Directions /\ ~ found
  <2>1. fwps = Directions /\ ~ found
    BY <1>1 DEF WfpInv, KernelKnown, Leftovers
  <2>2. engine = Objects
    <3>1. /\ "callout out" \in engine /\ "callout in" \in engine
          /\ "filter out" \in engine /\ "filter in" \in engine
          /\ "provider" \in engine /\ "sublayer" \in engine
      BY <1>1, Names DEF WfpInv, Built
    <3>2. engine \subseteq Objects
      BY <1>1 DEF WfpInv, WfpTypeOK
    <3> QED
      BY <3>1, <3>2, Names
  <2> QED
    BY <2>1, <2>2
<1>2. WfpInv => LoadedIsComplete
  BY <1>1 DEF LoadedIsComplete
<1> QED
  BY <1>2, WfpInvAlways, PTL

-----------------------------------------------------------------------------
(* A provider that was left behind stays, and no load gets past it.        *)

Blocked == "provider" \in engine /\ at \in {"unloaded", "open", "provider", "drop engine"}

LEMMA StaysBlocked ==
  ASSUME WfpInv, Blocked, [WfpNext]_wfpVars
  PROVE  Blocked'
<1>1. CASE UNCHANGED wfpVars
  BY <1>1 DEF Blocked, wfpVars
<1>2. CASE Load \/ SessionInit
  BY <1>2 DEF Blocked, Load, SessionInit, OpenEngine, OpenEngineFails, AddProvider,
              AddProviderFails, AddSubLayer, AddSubLayerFails, DropProvider, DropEngine,
              Goto, Add, Addable, CannotAdd
<1>3. CASE CalloutRegister \/ BeginUnload
  BY <1>3 DEF Blocked, CalloutRegister, RegisterCallout, RegisterCalloutFails, AddCallout,
              AddCalloutFails, AddFilter, AddFilterFails, BeginUnload, Goto
<1>4. CASE CalloutUnregister \/ SessionCleanup
  BY <1>4 DEF Blocked, CalloutUnregister, DeleteFilter, DeleteCallout, UnregisterCallout,
              SkipCallout, SessionCleanup, DeleteSubLayer, DeleteProvider, CloseEngine, Goto
<1> QED
  BY <1>1, <1>2, <1>3, <1>4 DEF WfpNext

(* One unload whose deletion of the provider fails is the end of the       *)
(* driver's use until the engine is restarted.                             *)
THEOREM LeftProviderIsFinal == WfpSpec => LeftProviderBlocksLoads
<1>1. at = "unloaded" /\ "provider" \in engine => Blocked
  BY DEF Blocked
<1>2. Blocked => at # "loaded"
  BY DEF Blocked
<1>3. WfpInv /\ Blocked /\ [WfpNext]_wfpVars => Blocked'
  BY StaysBlocked
<1> QED
  BY <1>1, <1>2, <1>3, WfpInvAlways, PTL DEF WfpSpec, LeftProviderBlocksLoads

-----------------------------------------------------------------------------
(* The refinement.                                                         *)

Absent == {"unloaded", "open"}

LEMMA Phases ==
  /\ at \in Absent => NetPhase = "absent"
  /\ at \in Starting => NetPhase = "starting"
  /\ at = "loaded" => NetPhase = "present"
  /\ at \notin Absent \cup Starting \cup {"loaded"} => NetPhase = "stopping"
  BY DEF NetPhase, Absent, Starting

LEMMA PhasesNext ==
  /\ at' \in Absent => NetPhase' = "absent"
  /\ at' \in Starting => NetPhase' = "starting"
  /\ at' = "loaded" => NetPhase' = "present"
  /\ at' \notin Absent \cup Starting \cup {"loaded"} => NetPhase' = "stopping"
  BY DEF NetPhase, Absent, Starting

(* While nothing is registered nothing is observed.                        *)
LEMMA UnregisteredSteps ==
  ASSUME WfpInv, Load \/ SessionInit \/ SessionCleanup
  PROVE  [Sensor!NetNext]_(Sensor!netVars)
<1>1. /\ fwps = {} /\ fwps' = fwps
      /\ at \in {"unloaded", "open", "provider", "sublayer", "drop provider", "drop engine",
                 "unsublayer", "unprovider", "close"}
  BY DEF Load, SessionInit, OpenEngine, OpenEngineFails, AddProvider, AddProviderFails,
         AddSubLayer, AddSubLayerFails, DropProvider, DropEngine, SessionCleanup,
         DeleteSubLayer, DeleteProvider, CloseEngine, Goto, WfpInv, KernelKnown,
         PerDirection, Unbuilding
<1>2. Observing = {} /\ Observing' = {}
  BY <1>1 DEF Observing
<1>3. \/ at = "unloaded" /\ at' = "open"
      \/ at = "open" /\ at' \in {"provider", "unloaded"}
      \/ at = "provider" /\ at' \in {"sublayer", "drop engine"}
      \/ at = "sublayer" /\ at' \in {"register", "drop provider"}
      \/ at = "drop provider" /\ at' = "drop engine"
      \/ at = "drop engine" /\ at' = "unloaded"
      \/ at = "unsublayer" /\ at' = "unprovider"
      \/ at = "unprovider" /\ at' = "close"
      \/ at = "close" /\ at' = "unloaded"
  BY DEF Load, SessionInit, OpenEngine, OpenEngineFails, AddProvider, AddProviderFails,
         AddSubLayer, AddSubLayerFails, DropProvider, DropEngine, SessionCleanup,
         DeleteSubLayer, DeleteProvider, CloseEngine, Goto
<1>4. \/ NetPhase' = NetPhase
      \/ NetPhase = "absent" /\ NetPhase' = "starting"
      \/ NetPhase = "starting" /\ NetPhase' = "stopping"
      \/ NetPhase = "stopping" /\ NetPhase' = "absent"
  BY <1>3, Phases, PhasesNext DEF Absent, Starting
<1> QED
  BY <1>2, <1>4 DEF Sensor!NetNext, Sensor!netVars, Sensor!Begin, Sensor!Fail, Sensor!End

LEMMA SameObserving ==
  ASSUME WfpTypeOK, WfpTypeOK',
         \A d \in Directions :
           d \in fwps' /\ FilterOf[d] \in engine' <=> d \in fwps /\ FilterOf[d] \in engine
  PROVE  Observing' = Observing
  BY DEF Observing, WfpTypeOK

LEMMA RegisterSteps ==
  ASSUME WfpInv, WfpInv', CalloutRegister
  PROVE  [Sensor!NetNext]_(Sensor!netVars)
<1>1. at \in PerDirection /\ dir \in {"out", "in"} /\ engine \subseteq Objects
  BY DEF CalloutRegister, RegisterCallout, RegisterCalloutFails, AddCallout, AddCalloutFails,
         AddFilter, AddFilterFails, Goto, PerDirection, WfpInv, WfpTypeOK, Directions
<1>2. NetPhase = "starting"
  BY <1>1, Phases DEF PerDirection, Starting
<1>3. ASSUME RegisterCallout \/ AddCallout PROVE UNCHANGED <<NetPhase, Observing>>
  <2>1. at' \in {"callout", "filter"}
    BY <1>3 DEF RegisterCallout, AddCallout, Goto
  <2>2. /\ \/ engine' = engine /\ fwps' = fwps \cup {dir}
           \/ engine' = engine \cup {CalloutOf[dir]} /\ fwps' = fwps
        /\ FilterOf[dir] \notin engine
    BY <1>1, <1>3 DEF RegisterCallout, AddCallout, Add, WfpInv, Built
  <2>3. \A d \in Directions :
          d \in fwps' /\ FilterOf[d] \in engine' <=> d \in fwps /\ FilterOf[d] \in engine
    BY <1>1, <2>2, Names
  <2>4. Observing' = Observing
    BY <2>3, SameObserving DEF WfpInv
  <2> QED
    BY <1>2, <2>1, <2>4, PhasesNext DEF Starting
<1>4. ASSUME RegisterCalloutFails \/ AddCalloutFails \/ AddFilterFails PROVE Sensor!Fail
  <2>1. at' \in {"unsublayer", "unfilter"} /\ UNCHANGED <<engine, fwps>>
    BY <1>4 DEF RegisterCalloutFails, AddCalloutFails, AddFilterFails, CannotAdd, Goto
  <2>2. NetPhase' = "stopping" /\ Observing' = Observing
    BY <2>1, PhasesNext DEF Absent, Starting, Observing
  <2> QED
    BY <1>2, <2>2 DEF Sensor!Fail
<1>5. ASSUME AddFilter PROVE Sensor!Observe(dir)
  <2>1. /\ at = "filter" /\ at' = IF dir = "out" THEN "register" ELSE "loaded"
        /\ engine' = engine \cup {FilterOf[dir]} /\ UNCHANGED fwps
    BY <1>5 DEF AddFilter, Add, Goto
  <2>2. dir \in fwps /\ FilterOf[dir] \notin engine
    BY <1>1, <2>1 DEF WfpInv, KernelKnown, Built
  <2>3. Observing' = Observing \cup {dir} /\ dir \notin Observing
    <3>1. \A d \in Directions : FilterOf[d] \in engine' <=> FilterOf[d] \in engine \/ d = dir
      BY <1>1, <2>1, Names
    <3>2. fwps' = fwps /\ fwps \subseteq Directions
      BY <2>1 DEF WfpInv, WfpTypeOK
    <3>3. \A d : d \in Observing' <=> d \in Observing \/ d = dir
      BY <2>2, <3>1, <3>2 DEF Observing
    <3>4. dir \notin Observing
      BY <2>2 DEF Observing
    <3> QED
      BY <3>3, <3>4
  <2>4. CASE dir = "out"
    <3>1. "in" \notin Observing'
      <4>1. FilterOf["in"] \notin engine
        BY <1>1, <2>1, <2>4, Names DEF WfpInv, Built, PerDirection
      <4>2. "in" \notin Observing
        BY <4>1 DEF Observing
      <4> QED
        BY <2>3, <2>4, <4>2
    <3>2. Observing' # Directions
      BY <3>1, Names
    <3>3. NetPhase' = "starting"
      BY <2>1, <2>4, PhasesNext DEF Starting
    <3> QED
      BY <1>2, <2>3, <3>2, <3>3 DEF Sensor!Observe
  <2>5. CASE dir = "in"
    <3>1. "out" \in Observing
      BY <1>1, <2>5, Names DEF WfpInv, Built, KernelKnown, Observing
    <3>2. Observing' = Directions
      BY <2>3, <2>5, <3>1, Names, ZenonT(40) DEF WfpInv, WfpTypeOK, Observing
    <3>3. NetPhase' = "present"
      BY <2>1, <2>5, PhasesNext
    <3> QED
      BY <1>2, <2>3, <3>2, <3>3 DEF Sensor!Observe
  <2> QED
    BY <1>1, <2>4, <2>5
<1>6. Sensor!Observe(dir) => Sensor!NetNext
  BY <1>1, Names DEF Sensor!NetNext
<1> QED
  BY <1>3, <1>4, <1>5, <1>6
     DEF CalloutRegister, Sensor!NetNext, Sensor!netVars

LEMMA UnregisterSteps ==
  ASSUME WfpInv, WfpInv', BeginUnload \/ CalloutUnregister
  PROVE  [Sensor!NetNext]_(Sensor!netVars)
<1>1. dir \in Directions /\ engine \subseteq Objects /\ Closed /\ stuck \in BOOLEAN
  BY DEF WfpInv, WfpTypeOK
<1>2. ASSUME BeginUnload PROVE Sensor!Withdraw
  <2>1. at = "loaded" /\ at' = "unfilter" /\ UNCHANGED <<engine, fwps>>
    BY <1>2 DEF BeginUnload, Goto
  <2>2. NetPhase = "present" /\ NetPhase' = "stopping" /\ Observing' = Observing
    BY <2>1, Phases, PhasesNext DEF Absent, Starting, Observing
  <2> QED
    BY <2>2 DEF Sensor!Withdraw
<1>3. ASSUME CalloutUnregister
      PROVE  NetPhase = "stopping" /\ NetPhase' = "stopping"
  <2>1. at \in Unbuilding /\ at' \in Unbuilding \cup {"unsublayer"}
    BY <1>3 DEF CalloutUnregister, DeleteFilter, DeleteCallout, UnregisterCallout, SkipCallout,
                Goto, Unbuilding
  <2> QED
    BY <2>1, Phases, PhasesNext DEF Absent, Starting, Unbuilding
<1>4. ASSUME CalloutUnregister
      PROVE  Observing' = Observing \/ (dir \in Observing /\ Observing' = Observing \ {dir})
  <2>1. CASE DeleteFilter
    <3>1. /\ UNCHANGED fwps
          /\ engine' = engine \/ engine' = engine \ {FilterOf[dir]}
      BY <1>1, <2>1, Deletion, Names DEF DeleteFilter
    <3>2. CASE engine' = engine
      BY <3>1, <3>2 DEF Observing
    <3>3. CASE engine' = engine \ {FilterOf[dir]}
      <4>1. \A d \in Directions : FilterOf[d] \in engine' <=> FilterOf[d] \in engine /\ d # dir
        BY <1>1, <3>3, Names
      <4>2. fwps' = fwps /\ fwps \subseteq Directions
        BY <3>1 DEF WfpInv, WfpTypeOK
      <4>3. \A d : d \in Observing' <=> d \in Observing /\ d # dir
        BY <4>1, <4>2 DEF Observing
      <4>4. Observing' = Observing \ {dir}
        BY <4>3
      <4>5. CASE dir \in Observing
        BY <4>4, <4>5
      <4>6. CASE dir \notin Observing
        <5>1. Observing' = Observing
          BY <4>3, <4>6
        <5> QED
          BY <5>1
      <4> QED
        BY <4>5, <4>6
    <3> QED
      BY <3>1, <3>2, <3>3
  <2>2. CASE DeleteCallout
    <3>1. /\ UNCHANGED fwps
          /\ engine' = engine \/ engine' = engine \ {CalloutOf[dir]}
      BY <1>1, <2>2, Deletion, Names DEF DeleteCallout
    <3>2. \A d \in Directions : FilterOf[d] \in engine' <=> FilterOf[d] \in engine
      BY <1>1, <3>1, Names
    <3> QED
      BY <3>1, <3>2, SameObserving DEF WfpInv
  <2>3. CASE UnregisterCallout
    <3>1. UNCHANGED engine /\ fwps' = fwps \ {dir}
      BY <2>3 DEF UnregisterCallout
    <3> QED
      BY <3>1 DEF Observing
  <2>4. CASE SkipCallout
    BY <2>4 DEF SkipCallout, Observing
  <2> QED
    BY <1>4, <2>1, <2>2, <2>3, <2>4 DEF CalloutUnregister
<1>5. ASSUME CalloutUnregister PROVE [Sensor!NetNext]_(Sensor!netVars)
  BY <1>1, <1>3, <1>4, <1>5 DEF Sensor!NetNext, Sensor!netVars, Sensor!Forget
<1> QED
  BY <1>2, <1>5 DEF Sensor!NetNext

(* The session and its callouts implement the sensor that the driver is    *)
(* built on, whatever fails: no direction is observed outside its phases.  *)
THEOREM SessionImplementsSensor == WfpSpec => ImplementsNetwork
<1>1. WfpInit => Sensor!NetInit
  BY Phases DEF WfpInit, Sensor!NetInit, Observing, Absent
<1>2. ASSUME WfpInv, WfpInv', [WfpNext]_wfpVars
      PROVE  [Sensor!NetNext]_(Sensor!netVars)
  <2>1. CASE UNCHANGED wfpVars
    BY <2>1 DEF wfpVars, Sensor!netVars, NetPhase, Observing
  <2> QED
    BY <1>2, <2>1, UnregisteredSteps, RegisterSteps, UnregisterSteps DEF WfpNext
<1> QED
  BY <1>1, <1>2, WfpInvAlways, PTL DEF WfpSpec, ImplementsNetwork, Sensor!NetSpec

-----------------------------------------------------------------------------
(* What the ids in the globals are good for.                               *)

(* The globals are all that Unregister has to go by.  A callout id is not  *)
(* zero exactly while the kernel has the classify function of its          *)
(* direction, and a filter id is not zero only while the engine has that   *)
(* filter, whatever has failed.                                            *)
IdsAreTrue ==
  \A d \in Directions :
    (calloutId[d] <=> d \in fwps) /\ (filterId[d] => FilterOf[d] \in engine)

FilterIdsAreTrue == \A d \in Directions : filterId[d] => FilterOf[d] \in engine

\* Only DeleteFilter removes a filter, and it forgets the id of that one.
LEMMA NextFilterIds ==
  ASSUME WfpInv, FilterIdsAreTrue, [WfpNext]_wfpVars
  PROVE  FilterIdsAreTrue'
<1>1. dir \in Directions /\ engine \subseteq Objects /\ Closed /\ stuck \in BOOLEAN
      /\ filterId \in [Directions -> BOOLEAN]
  BY DEF WfpInv, WfpTypeOK
<1>2. ASSUME Load PROVE FilterIdsAreTrue'
  BY <1>2 DEF Load, Off, FilterIdsAreTrue
<1>3. ASSUME UNCHANGED filterId, engine \subseteq engine' PROVE FilterIdsAreTrue'
  BY <1>3 DEF FilterIdsAreTrue
<1>4. ASSUME UNCHANGED filterId,
             NEW o \in {"provider", "sublayer", "callout out", "callout in"}, Delete(o)
      PROVE  FilterIdsAreTrue'
  <2>1. engine' = engine \/ engine' = engine \ {o}
    BY <1>1, <1>4, Deletion, Names
  <2>2. \A d \in Directions : FilterOf[d] # o
    BY <1>4, Names
  <2> QED
    BY <1>4, <2>1, <2>2 DEF FilterIdsAreTrue
<1>5. ASSUME DeleteFilter PROVE FilterIdsAreTrue'
  <2>1. filterId' = [filterId EXCEPT ![dir] = FALSE]
    BY <1>5 DEF DeleteFilter
  <2>2. engine' = engine \/ engine' = engine \ {FilterOf[dir]}
    BY <1>1, <1>5, Deletion, Names DEF DeleteFilter
  <2>3. \A d \in Directions : d # dir => FilterOf[d] # FilterOf[dir]
    BY <1>1, Names
  <2> QED
    BY <1>1, <2>1, <2>2, <2>3 DEF FilterIdsAreTrue
<1>6. ASSUME AddFilter PROVE FilterIdsAreTrue'
  <2>1. /\ filterId' = [filterId EXCEPT ![dir] = TRUE]
        /\ engine' = engine \cup {FilterOf[dir]}
    BY <1>6 DEF AddFilter, Add
  <2> QED
    BY <1>1, <2>1 DEF FilterIdsAreTrue
<1>7. ASSUME OpenEngine \/ OpenEngineFails \/ AddProvider \/ AddProviderFails
               \/ AddSubLayer \/ AddSubLayerFails \/ DropEngine
               \/ RegisterCallout \/ RegisterCalloutFails \/ AddCallout \/ AddCalloutFails
               \/ AddFilterFails \/ BeginUnload \/ UnregisterCallout \/ SkipCallout
               \/ CloseEngine \/ UNCHANGED wfpVars
      PROVE  UNCHANGED filterId /\ engine \subseteq engine'
  BY <1>7
     DEF OpenEngine, OpenEngineFails, AddProvider, AddProviderFails, AddSubLayer,
         AddSubLayerFails, DropEngine, RegisterCallout, RegisterCalloutFails, AddCallout,
         AddCalloutFails, AddFilterFails, BeginUnload, UnregisterCallout, SkipCallout,
         CloseEngine, Add, CannotAdd, wfpVars, globals
<1>8. ASSUME DropProvider \/ DeleteCallout \/ DeleteSubLayer \/ DeleteProvider
      PROVE  FilterIdsAreTrue'
  <2>1. UNCHANGED filterId
    BY <1>8 DEF DropProvider, DeleteCallout, DeleteSubLayer, DeleteProvider, globals
  <2>2. Delete("provider") \/ Delete("sublayer") \/ Delete(CalloutOf[dir])
    BY <1>8 DEF DropProvider, DeleteCallout, DeleteSubLayer, DeleteProvider
  <2>3. CalloutOf[dir] \in {"callout out", "callout in"}
    BY <1>1, Names
  <2> QED
    BY <1>4, <2>1, <2>2, <2>3
<1> QED
  BY <1>2, <1>3, <1>5, <1>6, <1>7, <1>8
     DEF WfpNext, SessionInit, CalloutRegister, CalloutUnregister, SessionCleanup

(* What the driver takes back it has, and what it has it takes back.       *)
THEOREM IdsTellTheTruth == WfpSpec => []IdsAreTrue
<1>1. WfpInit => FilterIdsAreTrue
  BY DEF WfpInit, Off, FilterIdsAreTrue
<1>2. WfpInv /\ FilterIdsAreTrue /\ [WfpNext]_wfpVars => FilterIdsAreTrue'
  BY NextFilterIds
<1>3. WfpInv /\ FilterIdsAreTrue => IdsAreTrue
  BY DEF WfpInv, KernelKnown, FilterIdsAreTrue, IdsAreTrue
<1> QED
  BY <1>1, <1>2, <1>3, WfpInvAlways, PTL DEF WfpSpec

-----------------------------------------------------------------------------
(* The cascades end.                                                       *)

(* How many calls of the session and the callouts are left at most until   *)
(* the driver is gone, if it is unloaded as soon as it is loaded.          *)
CallsLeft ==
  CASE at = "open"          -> 20
    [] at = "provider"      -> 19
    [] at = "sublayer"      -> 18
    [] at = "register"      -> IF dir = "out" THEN 17 ELSE 14
    [] at = "callout"       -> IF dir = "out" THEN 16 ELSE 13
    [] at = "filter"        -> IF dir = "out" THEN 15 ELSE 12
    [] at = "loaded"        -> 11
    [] at = "unfilter"      -> IF dir = "in" THEN 10 ELSE 9
    [] at = "uncallout"     -> IF dir = "in" THEN 8 ELSE 6
    [] at = "unregister"    -> IF dir = "in" THEN 7 ELSE 5
    [] at = "unsublayer"    -> 4
    [] at = "unprovider"    -> 3
    [] at = "drop provider" -> 2
    [] at = "close"         -> 1
    [] at = "drop engine"   -> 1
    [] OTHER                -> 0

\* The number read off the place, before a step
LEMMA LeftAt ==
  /\ at = "open" => CallsLeft = 20
  /\ at = "provider" => CallsLeft = 19
  /\ at = "sublayer" => CallsLeft = 18
  /\ at = "register" /\ dir = "out" => CallsLeft = 17
  /\ at = "callout" /\ dir = "out" => CallsLeft = 16
  /\ at = "filter" /\ dir = "out" => CallsLeft = 15
  /\ at = "register" /\ dir = "in" => CallsLeft = 14
  /\ at = "callout" /\ dir = "in" => CallsLeft = 13
  /\ at = "filter" /\ dir = "in" => CallsLeft = 12
  /\ at = "loaded" => CallsLeft = 11
  /\ at = "unfilter" /\ dir = "in" => CallsLeft = 10
  /\ at = "unfilter" /\ dir = "out" => CallsLeft = 9
  /\ at = "uncallout" /\ dir = "in" => CallsLeft = 8
  /\ at = "unregister" /\ dir = "in" => CallsLeft = 7
  /\ at = "uncallout" /\ dir = "out" => CallsLeft = 6
  /\ at = "unregister" /\ dir = "out" => CallsLeft = 5
  /\ at = "unsublayer" => CallsLeft = 4
  /\ at = "unprovider" => CallsLeft = 3
  /\ at = "drop provider" => CallsLeft = 2
  /\ at = "close" => CallsLeft = 1
  /\ at = "drop engine" => CallsLeft = 1
  /\ at = "unloaded" => CallsLeft = 0
  BY DEF CallsLeft

\* and after it.
LEMMA LeftNext ==
  /\ at' = "open" => CallsLeft' = 20
  /\ at' = "provider" => CallsLeft' = 19
  /\ at' = "sublayer" => CallsLeft' = 18
  /\ at' = "register" /\ dir' = "out" => CallsLeft' = 17
  /\ at' = "callout" /\ dir' = "out" => CallsLeft' = 16
  /\ at' = "filter" /\ dir' = "out" => CallsLeft' = 15
  /\ at' = "register" /\ dir' = "in" => CallsLeft' = 14
  /\ at' = "callout" /\ dir' = "in" => CallsLeft' = 13
  /\ at' = "filter" /\ dir' = "in" => CallsLeft' = 12
  /\ at' = "loaded" => CallsLeft' = 11
  /\ at' = "unfilter" /\ dir' = "in" => CallsLeft' = 10
  /\ at' = "unfilter" /\ dir' = "out" => CallsLeft' = 9
  /\ at' = "uncallout" /\ dir' = "in" => CallsLeft' = 8
  /\ at' = "unregister" /\ dir' = "in" => CallsLeft' = 7
  /\ at' = "uncallout" /\ dir' = "out" => CallsLeft' = 6
  /\ at' = "unregister" /\ dir' = "out" => CallsLeft' = 5
  /\ at' = "unsublayer" => CallsLeft' = 4
  /\ at' = "unprovider" => CallsLeft' = 3
  /\ at' = "drop provider" => CallsLeft' = 2
  /\ at' = "close" => CallsLeft' = 1
  /\ at' = "drop engine" => CallsLeft' = 1
  /\ at' = "unloaded" => CallsLeft' = 0
  BY DEF CallsLeft

\* Where the call for one direction is made decides where the next one is.
LEMMA NextCall ==
  ASSUME WfpTypeOK, WfpNext, at # "unloaded"
  PROVE  CallsLeft' < CallsLeft
<1>1. dir = "out" \/ dir = "in"
  BY DEF WfpTypeOK, Directions
<1>2. ASSUME SessionInit PROVE CallsLeft' < CallsLeft
  <2>1. CASE OpenEngine \/ OpenEngineFails
    <3>1. CallsLeft = 20 /\ CallsLeft' \in {19, 0}
      BY <2>1, LeftAt, LeftNext DEF OpenEngine, OpenEngineFails, Goto
    <3> QED
      BY <3>1
  <2>2. CASE AddProvider \/ AddProviderFails
    <3>1. CallsLeft = 19 /\ CallsLeft' \in {18, 1}
      BY <2>2, LeftAt, LeftNext DEF AddProvider, AddProviderFails, Goto
    <3> QED
      BY <3>1
  <2>3. CASE AddSubLayer \/ AddSubLayerFails
    <3>1. CallsLeft = 18 /\ (at' = "register" \/ CallsLeft' = 2)
      BY <2>3, LeftAt, LeftNext DEF AddSubLayer, AddSubLayerFails, Goto
    <3>2. dir' = dir
      BY <2>3 DEF AddSubLayer, AddSubLayerFails
    <3>3. at' = "register" => CallsLeft' \in {17, 14}
      BY <1>1, <3>2, LeftNext
    <3> QED
      BY <3>1, <3>3
  <2>4. CASE DropProvider \/ DropEngine
    <3>1. (CallsLeft = 2 /\ CallsLeft' = 1) \/ (CallsLeft = 1 /\ CallsLeft' = 0)
      BY <2>4, LeftAt, LeftNext DEF DropProvider, DropEngine, Goto
    <3> QED
      BY <3>1
  <2> QED
    BY <1>2, <2>1, <2>2, <2>3, <2>4 DEF SessionInit
<1>3. ASSUME CalloutRegister PROVE CallsLeft' < CallsLeft
  <2>1. CASE RegisterCallout
    <3>1. at = "register" /\ at' = "callout" /\ dir' = dir
      BY <2>1 DEF RegisterCallout, Goto
    <3>2. (CallsLeft = 17 /\ CallsLeft' = 16) \/ (CallsLeft = 14 /\ CallsLeft' = 13)
      BY <1>1, <3>1, LeftAt, LeftNext
    <3> QED
      BY <3>2
  <2>2. CASE AddCallout
    <3>1. at = "callout" /\ at' = "filter" /\ dir' = dir
      BY <2>2 DEF AddCallout, Goto
    <3>2. (CallsLeft = 16 /\ CallsLeft' = 15) \/ (CallsLeft = 13 /\ CallsLeft' = 12)
      BY <1>1, <3>1, LeftAt, LeftNext
    <3> QED
      BY <3>2
  <2>3. CASE AddFilter
    <3>1. at = "filter" /\ at' = (IF dir = "out" THEN "register" ELSE "loaded") /\ dir' = "in"
      BY <2>3 DEF AddFilter, Goto
    <3>2. (CallsLeft = 15 /\ CallsLeft' = 14) \/ (CallsLeft = 12 /\ CallsLeft' = 11)
      BY <1>1, <3>1, LeftAt, LeftNext
    <3> QED
      BY <3>2
  <2>4. CASE RegisterCalloutFails
    <3>1. at = "register" /\ at' = (IF dir = "out" THEN "unsublayer" ELSE "unfilter") /\ dir' = dir
      BY <2>4 DEF RegisterCalloutFails, Goto
    <3>2. (CallsLeft = 17 /\ CallsLeft' = 4) \/ (CallsLeft = 14 /\ CallsLeft' = 10)
      BY <1>1, <3>1, LeftAt, LeftNext
    <3> QED
      BY <3>2
  <2>5. CASE AddCalloutFails \/ AddFilterFails
    <3>1. at \in {"callout", "filter"} /\ at' = "unfilter" /\ dir' = "in"
      BY <2>5 DEF AddCalloutFails, AddFilterFails, Goto
    <3>2. CallsLeft \in {16, 15, 13, 12} /\ CallsLeft' = 10
      BY <1>1, <3>1, LeftAt, LeftNext
    <3> QED
      BY <3>2
  <2> QED
    BY <1>3, <2>1, <2>2, <2>3, <2>4, <2>5 DEF CalloutRegister
<1>4. ASSUME BeginUnload PROVE CallsLeft' < CallsLeft
  <2>1. CallsLeft = 11 /\ CallsLeft' = 10
    BY <1>4, LeftAt, LeftNext DEF BeginUnload, Goto
  <2> QED
    BY <2>1
<1>5. ASSUME CalloutUnregister PROVE CallsLeft' < CallsLeft
  <2>1. CASE DeleteFilter
    <3>1. /\ at = "unfilter" /\ at' = (IF dir = "in" THEN "unfilter" ELSE "uncallout")
          /\ dir' = (IF dir = "in" THEN "out" ELSE "in")
      BY <2>1 DEF DeleteFilter, Goto
    <3>2. (CallsLeft = 10 /\ CallsLeft' = 9) \/ (CallsLeft = 9 /\ CallsLeft' = 8)
      BY <1>1, <3>1, LeftAt, LeftNext
    <3> QED
      BY <3>2
  <2>2. CASE DeleteCallout
    <3>1. at = "uncallout" /\ at' = "unregister" /\ dir' = dir
      BY <2>2 DEF DeleteCallout, Goto
    <3>2. (CallsLeft = 8 /\ CallsLeft' = 7) \/ (CallsLeft = 6 /\ CallsLeft' = 5)
      BY <1>1, <3>1, LeftAt, LeftNext
    <3> QED
      BY <3>2
  <2>3. CASE UnregisterCallout \/ SkipCallout
    <3>1. /\ at \in {"uncallout", "unregister"} /\ dir' = "out"
          /\ at' = (IF dir = "in" THEN "uncallout" ELSE "unsublayer")
      BY <2>3 DEF UnregisterCallout, SkipCallout, Goto
    <3>2. (CallsLeft \in {8, 7} /\ CallsLeft' = 6) \/ (CallsLeft \in {6, 5} /\ CallsLeft' = 4)
      BY <1>1, <3>1, LeftAt, LeftNext
    <3> QED
      BY <3>2
  <2> QED
    BY <1>5, <2>1, <2>2, <2>3 DEF CalloutUnregister
<1>6. ASSUME SessionCleanup PROVE CallsLeft' < CallsLeft
  <2>1. \/ CallsLeft = 4 /\ CallsLeft' = 3
        \/ CallsLeft = 3 /\ CallsLeft' = 1
        \/ CallsLeft = 1 /\ CallsLeft' = 0
    BY <1>6, LeftAt, LeftNext DEF SessionCleanup, DeleteSubLayer, DeleteProvider, CloseEngine, Goto
  <2> QED
    BY <2>1
<1>7. ~ Load
  BY DEF Load, Goto
<1> QED
  BY <1>2, <1>3, <1>4, <1>5, <1>6, <1>7 DEF WfpNext

(* A load that fails, wherever it fails, is undone in a bounded number of  *)
(* calls, and so is an unload, however many of its calls fail: no cascade  *)
(* of gotos leads back to where it has been.                               *)
THEOREM CascadesEnd ==
  WfpSpec => [](CallsLeft \in Nat) /\ [][at # "unloaded" => CallsLeft' < CallsLeft]_wfpVars
<1>1. CallsLeft \in Nat
  BY DEF CallsLeft
<1>2. WfpInv /\ [WfpNext]_wfpVars => [at # "unloaded" => CallsLeft' < CallsLeft]_wfpVars
  BY NextCall DEF WfpInv
<1> QED
  BY <1>1, <1>2, WfpInvAlways, PTL DEF WfpSpec
=============================================================================
