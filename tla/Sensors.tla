------------------------------ MODULE Sensors ------------------------------
(***************************************************************************)
(* The callbacks of the sensors, running on any number of threads at once, *)
(* from the moment the kernel calls one until its event has an id: each    *)
(* takes the time of its event first, a registry callback then resolves    *)
(* the path of its key, for which it needs g_RegistryCookie, and pushes.   *)
(* Meanwhile the driver registers and unregisters its registry callback.   *)
(*                                                                         *)
(* What the kernel does is modelled as follows.  CmRegisterCallbackEx may  *)
(* let a first callback in before it stores the cookie.  A cookie is good  *)
(* until CmUnRegisterCallback has waited for the callbacks in progress.    *)
(* The system time does not go back.                                       *)
(***************************************************************************)
EXTENDS Naturals, Sequences

CONSTANTS
  Threads,      \* that callbacks run on
  Active,       \* the sensors that observe something in a run
  MaxTime,      \* bound on the clock
  MaxEvents     \* bound on the callbacks

ASSUME ActiveAssumption == Active \subseteq {"process", "image", "network", "registry"}
ASSUME BoundsAssumption == MaxTime \in Nat /\ MaxEvents \in Nat

VARIABLES
  clock,      \* the system time
  phase,      \* of the registry callback's registration, as the driver sees it
  live,       \* the kernel calls the registry callback
  cookie,     \* g_RegistryCookie is set
  calls,      \* per thread, the callback it is in
  events      \* those accepted; the index is the order of the ids

sensorVars == <<clock, phase, live, cookie, calls, events>>
registration == <<phase, live, cookie>>

Idle == [at |-> "idle"]

(* known: how many events were accepted when the callback was entered.     *)
(* early: it is of the registry and was entered before                     *)
(*   KdaMonRegistryCallbackRegister returned.                              *)
(* missing: for lack of the cookie, the path of the key was not resolved.  *)
Call(at, sensor, time, known, early, missing) ==
  [at |-> at, sensor |-> sensor, time |-> time, known |-> known,
   early |-> early, missing |-> missing]

SensorsInit ==
  /\ clock = 1
  /\ phase = "absent" /\ live = FALSE /\ cookie = FALSE
  /\ calls = [t \in Threads |-> Idle]
  /\ events = <<>>

InRegistry(t) == calls[t] # Idle /\ calls[t].sensor = "registry"

Tick ==
  /\ clock < MaxTime
  /\ clock' = clock + 1
  /\ UNCHANGED <<registration, calls, events>>

-----------------------------------------------------------------------------
(* KdaMonRegistryCallbackRegister and Unregister.                          *)

StartRegister ==
  /\ phase = "absent"
  /\ phase' = "registering"
  /\ UNCHANGED <<live, cookie, clock, calls, events>>

\* The two effects of CmRegisterCallbackEx, in either order.
GoLive ==
  /\ phase = "registering" /\ ~ live
  /\ live' = TRUE
  /\ UNCHANGED <<phase, cookie, clock, calls, events>>

StoreCookie ==
  /\ phase = "registering" /\ ~ cookie
  /\ cookie' = TRUE
  /\ UNCHANGED <<phase, live, clock, calls, events>>

RegisterFails ==
  /\ phase = "registering" /\ ~ live /\ ~ cookie
  /\ phase' = "absent"
  /\ UNCHANGED <<live, cookie, clock, calls, events>>

RegisterReturns ==
  /\ phase = "registering" /\ live /\ cookie
  /\ phase' = "registered"
  /\ UNCHANGED <<live, cookie, clock, calls, events>>

\* Faulty: the cookie is cleared and a copy of it unregistered.
UnregisterCopy ==
  /\ phase = "registered" /\ cookie
  /\ phase' = "unregistering"
  /\ live' = FALSE
  /\ cookie' = FALSE
  /\ UNCHANGED <<clock, calls, events>>

\* CmUnRegisterCallback: no callback is entered any more,
Unregister ==
  /\ phase = "registered" /\ cookie
  /\ phase' = "unregistering"
  /\ live' = FALSE
  /\ UNCHANGED <<cookie, clock, calls, events>>

\* Faulty: the cookie is left as it was.
UnregisterReturnsOnly ==
  /\ phase = "unregistering"
  /\ \A t \in Threads : ~ InRegistry(t)
  /\ phase' = "absent"
  /\ UNCHANGED <<cookie, live, clock, calls, events>>

\* and those in progress are waited for.
UnregisterReturns ==
  /\ phase = "unregistering"
  /\ \A t \in Threads : ~ InRegistry(t)
  /\ phase' = "absent"
  /\ cookie' = FALSE
  /\ UNCHANGED <<live, clock, calls, events>>

-----------------------------------------------------------------------------
(* The callbacks.                                                          *)

Enter(t, s) ==
  /\ calls[t] = Idle
  /\ s = "registry" => live
  /\ Len(events) < MaxEvents
  /\ calls' = [calls EXCEPT ![t] =
                 Call("stamp", s, 0, Len(events), s = "registry" /\ phase = "registering", FALSE)]
  /\ UNCHANGED <<registration, clock, events>>

AfterStamp(s) == IF s = "registry" THEN "resolve" ELSE "push"

\* Faulty: the handlers of the registry leave the time of their events zero.
StampNotInRegistry(t) ==
  /\ calls[t].at = "stamp"
  /\ calls' = [calls EXCEPT ![t].at = AfterStamp(calls[t].sensor),
                            ![t].time = IF InRegistry(t) THEN 0 ELSE clock]
  /\ UNCHANGED <<registration, clock, events>>

\* KeQuerySystemTimePrecise(&Event.Timestamp)
Stamp(t) ==
  /\ calls[t].at = "stamp"
  /\ calls' = [calls EXCEPT ![t].at = AfterStamp(calls[t].sensor), ![t].time = clock]
  /\ UNCHANGED <<registration, clock, events>>

\* KdaMonRegistryResolveKeyPath, as far as it depends on the cookie.
ResolveKeyPath(t) ==
  /\ calls[t].at = "resolve"
  /\ calls' = [calls EXCEPT ![t].at = "push", ![t].missing = ~ cookie]
  /\ UNCHANGED <<registration, clock, events>>

PushAccepted(t) ==
  /\ calls[t].at = "push"
  /\ Len(events) < MaxEvents
  /\ events' = Append(events, calls[t])
  /\ calls' = [calls EXCEPT ![t] = Idle]
  /\ UNCHANGED <<registration, clock>>

\* The queue may be full.
PushDropped(t) ==
  /\ calls[t].at = "push"
  /\ calls' = [calls EXCEPT ![t] = Idle]
  /\ UNCHANGED <<registration, clock, events>>

Registration ==
  \/ StartRegister \/ GoLive \/ StoreCookie \/ RegisterFails \/ RegisterReturns
  \/ Unregister \/ UnregisterReturns

Callback(t) ==
  \/ \E s \in Active : Enter(t, s)
  \/ Stamp(t) \/ ResolveKeyPath(t) \/ PushAccepted(t) \/ PushDropped(t)

SensorsNext == Tick \/ Registration \/ \E t \in Threads : Callback(t)

SensorsSpec == SensorsInit /\ [][SensorsNext]_sensorVars

-----------------------------------------------------------------------------
(* Correctness.                                                            *)

Stages == {"stamp", "resolve", "push"}

CallRecords ==
  [at : Stages, sensor : Active, time : Nat, known : Nat,
   early : BOOLEAN, missing : BOOLEAN]

(* Types; and g_RegistryCookie, by which KdaMonRegistryCallbackUnregister  *)
(* knows whether there is anything to unregister, is zero exactly when     *)
(* there is not.                                                           *)
SensorsTypeOK ==
  /\ clock \in Nat
  /\ phase \in {"absent", "registering", "registered", "unregistering"}
  /\ live \in BOOLEAN /\ cookie \in BOOLEAN
  /\ phase # "registering" => (cookie <=> phase # "absent")
  /\ calls \in [Threads -> CallRecords \cup {Idle}]
  /\ events \in Seq(CallRecords)

(* The time of an event is taken before the lock of the queue, under which *)
(* the event gets its id, so the ids, which are the order of the log, need *)
(* not be in the order of the timestamps.  They are, though, unless the    *)
(* later event's callback had been entered when the earlier event was      *)
(* accepted: what happened after a line was queued is never dated before   *)
(* it.                                                                     *)
InOrderUnlessConcurrent ==
  \A i, j \in 1 .. Len(events) :
    i < j /\ i <= events[j].known => events[i].time <= events[j].time

(* A registry callback fails to resolve a key for lack of the cookie only  *)
(* if the kernel called it while KdaMonRegistryCallbackRegister had not    *)
(* returned; never because the callback is being unregistered.             *)
KeyPathKnown ==
  \A i \in 1 .. Len(events) : events[i].missing => events[i].early
=============================================================================
