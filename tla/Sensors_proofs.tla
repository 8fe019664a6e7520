--------------------------- MODULE Sensors_proofs ---------------------------
(***************************************************************************)
(* The order of timestamps and the registry cookie, for any number of      *)
(* threads, events and ticks of the clock.                                 *)
(***************************************************************************)
EXTENDS Sensors, TLAPS

Phases == {"absent", "registering", "registered", "unregistering"}

Types ==
  /\ clock \in Nat
  /\ phase \in Phases
  /\ live \in BOOLEAN /\ cookie \in BOOLEAN
  /\ calls \in [Threads -> CallRecords \cup {Idle}]
  /\ events \in Seq(CallRecords)

\* What the kernel has of the registration in each phase of the driver's.
CookieSet == phase # "registering" => (cookie <=> phase # "absent")
LiveWhile ==
  /\ phase \in {"absent", "unregistering"} => ~ live
  /\ phase = "registered" => live

\* A registry callback in progress keeps the registration from ending.
CallsHold ==
  \A t \in Threads :
    InRegistry(t) =>
      /\ phase = "unregistering" \/ live
      /\ ~ calls[t].early => phase \in {"registered", "unregistering"}

\* Only early calls miss the path of their key.
CallsKnow == \A t \in Threads : InRegistry(t) => (calls[t].missing => calls[t].early)
OthersKnow ==
  \A t \in Threads :
    calls[t] # Idle /\ calls[t].sensor # "registry" => ~ calls[t].missing /\ calls[t].at # "resolve"

\* No event is dated later than now, and what was accepted before a callback
\* was entered is not dated later than that callback's event.
Past == \A i \in 1 .. Len(events) : events[i].time <= clock
Stamped(t) == calls[t] # Idle /\ calls[t].at # "stamp"
CallsPast ==
  \A t \in Threads :
    Stamped(t) =>
      /\ calls[t].time <= clock
      /\ \A i \in 1 .. Len(events) : i <= calls[t].known => events[i].time <= calls[t].time
CallsCount == \A t \in Threads : calls[t] # Idle => calls[t].known <= Len(events)

SInv ==
  /\ Types /\ CookieSet /\ LiveWhile /\ CallsHold /\ CallsKnow /\ OthersKnow
  /\ Past /\ CallsPast /\ CallsCount
  /\ InOrderUnlessConcurrent /\ KeyPathKnown

LEMMA InitSInv == SensorsInit => SInv
  <1> SUFFICES ASSUME SensorsInit PROVE SInv
    OBVIOUS
  <1> USE DEF SensorsInit
  <1>1. Types /\ CookieSet /\ LiveWhile
    <2>1. calls \in [Threads -> CallRecords \cup {Idle}] /\ events \in Seq(CallRecords)
      OBVIOUS
    <2>2. clock \in Nat /\ phase \in Phases /\ live \in BOOLEAN /\ cookie \in BOOLEAN
      BY DEF Phases
    <2>3. CookieSet
      BY DEF CookieSet
    <2>4. LiveWhile
      BY DEF LiveWhile
    <2> QED
      BY <2>1, <2>2, <2>3, <2>4 DEF Types
  <1>2. CallsHold /\ CallsKnow /\ OthersKnow
    BY DEF CallsHold, CallsKnow, OthersKnow, InRegistry
  <1>3. Past /\ CallsPast /\ CallsCount
    BY DEF Past, CallsPast, CallsCount, Stamped
  <1>4. InOrderUnlessConcurrent /\ KeyPathKnown
    BY DEF InOrderUnlessConcurrent, KeyPathKnown
  <1> QED
    BY <1>1, <1>2, <1>3, <1>4 DEF SInv

\* A callback in progress is a call record.
LEMMA CallType ==
  ASSUME Types, NEW t \in Threads
  PROVE  /\ calls[t] # Idle => calls[t] \in CallRecords
         /\ calls[t].at \in Stages => calls[t] # Idle
         /\ Idle \notin CallRecords
  <1>1. Idle.at = "idle"
    BY DEF Idle
  <1>2. \A r \in CallRecords : r.at # "idle"
    BY DEF CallRecords, Stages
  <1>3. calls[t] \in CallRecords \cup {Idle}
    BY DEF Types
  <1> QED
    BY <1>1, <1>2, <1>3 DEF Stages

-----------------------------------------------------------------------------
(* The registration leaves calls and events alone.                         *)

LEMMA RegistrationKeeps ==
  ASSUME SInv, UNCHANGED <<clock, calls, events>>, Types', CookieSet', LiveWhile', CallsHold'
  PROVE  SInv'
  <1>1. CallsKnow' /\ OthersKnow'
    BY DEF SInv, CallsKnow, OthersKnow, InRegistry
  <1>2. Past' /\ CallsPast' /\ CallsCount'
    BY DEF SInv, Past, CallsPast, CallsCount, Stamped
  <1>3. InOrderUnlessConcurrent' /\ KeyPathKnown'
    BY DEF SInv, InOrderUnlessConcurrent, KeyPathKnown
  <1> QED
    BY <1>1, <1>2, <1>3 DEF SInv

LEMMA RegistrationSInv == SInv /\ Registration => SInv'
  <1> SUFFICES ASSUME SInv, Registration PROVE SInv'
    OBVIOUS
  <1> USE DEF Phases
  <1>1. UNCHANGED <<clock, calls, events>>
    BY DEF Registration, StartRegister, GoLive, StoreCookie, RegisterFails,
       RegisterReturns, Unregister, UnregisterReturns
  <1>2. Types'
    BY <1>1 DEF SInv, Types, Registration, StartRegister, GoLive, StoreCookie, RegisterFails,
       RegisterReturns, Unregister, UnregisterReturns
  <1>3. CookieSet' /\ LiveWhile'
    BY DEF SInv, Types, CookieSet, LiveWhile, Registration, StartRegister, GoLive, StoreCookie,
       RegisterFails, RegisterReturns, Unregister, UnregisterReturns
  <1>4. CallsHold'
    <2> SUFFICES ASSUME NEW t \in Threads, InRegistry(t)
                 PROVE  /\ phase' = "unregistering" \/ live'
                        /\ ~ calls[t].early => phase' \in {"registered", "unregistering"}
      BY <1>1 DEF CallsHold, InRegistry
    <2>1. /\ phase = "unregistering" \/ live
          /\ ~ calls[t].early => phase \in {"registered", "unregistering"}
      BY DEF SInv, CallsHold
    <2> QED
      BY <2>1 DEF SInv, Types, LiveWhile, Registration, StartRegister, GoLive, StoreCookie,
         RegisterFails, RegisterReturns, Unregister, UnregisterReturns
  <1> QED
    BY <1>1, <1>2, <1>3, <1>4, RegistrationKeeps

LEMMA TickSInv == SInv /\ Tick => SInv'
  <1> SUFFICES ASSUME SInv, Tick PROVE SInv'
    OBVIOUS
  <1>1. clock' = clock + 1 /\ UNCHANGED <<phase, live, cookie, calls, events>>
    BY DEF Tick, registration
  <1>2. Types' /\ CookieSet' /\ LiveWhile'
    BY <1>1 DEF SInv, Types, CookieSet, LiveWhile
  <1>3. CallsHold' /\ CallsKnow' /\ OthersKnow' /\ CallsCount'
    BY <1>1 DEF SInv, CallsHold, CallsKnow, OthersKnow, CallsCount, InRegistry
  <1>4. Past'
    <2>1. \A i \in 1 .. Len(events) : events[i].time \in Nat
      <3>1. \A i \in 1 .. Len(events) : events[i] \in CallRecords
        BY DEF SInv, Types
      <3> QED
        BY <3>1 DEF CallRecords
    <2> QED
      BY <1>1, <2>1 DEF SInv, Types, Past
  <1>5. CallsPast'
    <2>1. \A t \in Threads : Stamped(t) => calls[t].time \in Nat
      BY CallType DEF SInv, CallRecords, Stamped
    <2>2. \A t \in Threads : Stamped(t) => calls[t].time <= clock'
      BY <1>1, <2>1 DEF SInv, Types, CallsPast
    <2> QED
      BY <1>1, <2>2 DEF SInv, CallsPast, Stamped
  <1>6. InOrderUnlessConcurrent' /\ KeyPathKnown'
    BY <1>1 DEF SInv, InOrderUnlessConcurrent, KeyPathKnown
  <1> QED
    BY <1>2, <1>3, <1>4, <1>5, <1>6 DEF SInv

-----------------------------------------------------------------------------
(* A step of one callback.                                                 *)

\* What a call needs for the invariant.
CallOK(c) ==
  /\ c.sensor = "registry" =>
       /\ phase = "unregistering" \/ live
       /\ ~ c.early => phase \in {"registered", "unregistering"}
       /\ c.missing => c.early
  /\ c.sensor # "registry" => ~ c.missing /\ c.at # "resolve"
  /\ c.at # "stamp" =>
       /\ c.time <= clock
       /\ \A i \in 1 .. Len(events) : i <= c.known => events[i].time <= c.time
  /\ c.known <= Len(events)

LEMMA CallIsOK ==
  ASSUME SInv, NEW t \in Threads, calls[t] # Idle
  PROVE  calls[t] \in CallRecords /\ CallOK(calls[t])
  BY CallType DEF SInv, CallsHold, CallsKnow, OthersKnow, CallsPast, CallsCount,
     CallOK, InRegistry, Stamped

\* A callback that moves on, or is entered.
LEMMA CallStep ==
  ASSUME SInv, NEW t \in Threads, NEW c \in CallRecords, CallOK(c),
         calls' = [calls EXCEPT ![t] = c],
         UNCHANGED <<phase, live, cookie, clock, events>>
  PROVE  SInv'
  <1>0. calls \in [Threads -> CallRecords \cup {Idle}]
    BY DEF SInv, Types
  <1>1. calls'[t] = c /\ \A u \in Threads : u # t => calls'[u] = calls[u]
    BY <1>0
  <1>2. Types'
    BY <1>0 DEF SInv, Types
  <1>3. CallsHold' /\ CallsKnow' /\ OthersKnow'
    BY <1>1 DEF SInv, CallsHold, CallsKnow, OthersKnow, InRegistry, CallOK
  <1>4. CallsPast' /\ CallsCount'
    BY <1>1 DEF SInv, CallsPast, CallsCount, Stamped, CallOK
  <1>5. CookieSet' /\ LiveWhile' /\ Past' /\ InOrderUnlessConcurrent' /\ KeyPathKnown'
    BY DEF SInv, CookieSet, LiveWhile, Past, InOrderUnlessConcurrent, KeyPathKnown
  <1> QED
    BY <1>2, <1>3, <1>4, <1>5 DEF SInv

\* A callback that returns without an event.
LEMMA CallEnds ==
  ASSUME SInv, NEW t \in Threads, calls' = [calls EXCEPT ![t] = Idle],
         UNCHANGED <<phase, live, cookie, clock, events>>
  PROVE  SInv'
  <1>0. calls \in [Threads -> CallRecords \cup {Idle}]
    BY DEF SInv, Types
  <1>1. calls'[t] = Idle /\ \A u \in Threads : u # t => calls'[u] = calls[u]
    BY <1>0
  <1>2. Types'
    BY <1>0 DEF SInv, Types
  <1>3. CallsHold' /\ CallsKnow' /\ OthersKnow'
    BY <1>1 DEF SInv, CallsHold, CallsKnow, OthersKnow, InRegistry
  <1>4. CallsPast' /\ CallsCount'
    BY <1>1 DEF SInv, CallsPast, CallsCount, Stamped
  <1>5. CookieSet' /\ LiveWhile' /\ Past' /\ InOrderUnlessConcurrent' /\ KeyPathKnown'
    BY DEF SInv, CookieSet, LiveWhile, Past, InOrderUnlessConcurrent, KeyPathKnown
  <1> QED
    BY <1>2, <1>3, <1>4, <1>5 DEF SInv

\* A callback whose event is accepted.
LEMMA AcceptSInv ==
  ASSUME SInv, NEW t \in Threads, PushAccepted(t)
  PROVE  SInv'
  <1>1. /\ calls[t].at = "push" /\ events' = Append(events, calls[t])
        /\ calls' = [calls EXCEPT ![t] = Idle]
        /\ UNCHANGED <<phase, live, cookie, clock>>
    BY DEF PushAccepted, registration
  <1> DEFINE c == calls[t]
             n == Len(events)
  <1>2. calls[t] # Idle /\ c \in CallRecords /\ CallOK(c)
    BY <1>1, CallType, CallIsOK DEF SInv, Stages
  <1>3. /\ events \in Seq(CallRecords) /\ n \in Nat
        /\ calls \in [Threads -> CallRecords \cup {Idle}]
    BY DEF SInv, Types
  <1>4. /\ events' \in Seq(CallRecords) /\ Len(events') = n + 1
        /\ \A i \in 1 .. n : events'[i] = events[i]
        /\ events'[n + 1] = c
    BY <1>1, <1>2, <1>3
  <1>5. calls'[t] = Idle /\ \A u \in Threads : u # t => calls'[u] = calls[u]
    BY <1>1, <1>3
  <1>6. /\ c.time <= clock /\ c.known <= n /\ c.known \in Nat
        /\ \A i \in 1 .. n : i <= c.known => events[i].time <= c.time
        /\ c.missing => c.early
    <2>1. c.at # "stamp"
      BY <1>1
    <2>2. c.missing => c.early
      BY <1>2 DEF CallOK
    <2> QED
      BY <1>2, <2>1, <2>2 DEF CallOK, CallRecords
  <1>7. Types'
    BY <1>1, <1>3, <1>4 DEF SInv, Types
  <1>8. CookieSet' /\ LiveWhile'
    BY <1>1 DEF SInv, CookieSet, LiveWhile
  <1>9. CallsHold' /\ CallsKnow' /\ OthersKnow'
    BY <1>1, <1>5 DEF SInv, CallsHold, CallsKnow, OthersKnow, InRegistry
  <1>10. Past'
    BY <1>1, <1>3, <1>4, <1>6 DEF SInv, Past
  <1>11. CallsCount'
    <2>1. \A u \in Threads : calls[u] # Idle => calls[u].known \in Nat
      BY CallType DEF SInv, CallRecords
    <2> QED
      BY <1>3, <1>4, <1>5, <2>1 DEF SInv, CallsCount
  <1>12. CallsPast'
    <2> SUFFICES ASSUME NEW u \in Threads, Stamped(u)'
                 PROVE  /\ calls'[u].time <= clock'
                        /\ \A i \in 1 .. Len(events') :
                             i <= calls'[u].known => events'[i].time <= calls'[u].time
      BY DEF CallsPast
    <2>1. u # t /\ calls'[u] = calls[u] /\ Stamped(u)
      BY <1>5 DEF Stamped
    <2>2. /\ calls[u].time <= clock
          /\ \A i \in 1 .. n : i <= calls[u].known => events[i].time <= calls[u].time
          /\ calls[u].known <= n /\ calls[u].known \in Nat
      BY <2>1, CallType DEF SInv, CallsPast, CallsCount, CallRecords, Stamped
    <2> QED
      BY <1>1, <1>3, <1>4, <2>1, <2>2
  <1>13. InOrderUnlessConcurrent'
    <2> SUFFICES ASSUME NEW i \in 1 .. n + 1, NEW j \in 1 .. n + 1,
                        i < j, i <= events'[j].known
                 PROVE  events'[i].time <= events'[j].time
      BY <1>4 DEF InOrderUnlessConcurrent
    <2>1. i \in 1 .. n /\ events'[i] = events[i]
      BY <1>3, <1>4
    <2>2. CASE j \in 1 .. n
      BY <1>3, <1>4, <2>1, <2>2 DEF SInv, InOrderUnlessConcurrent
    <2>3. CASE j = n + 1
      BY <1>4, <1>6, <2>1, <2>3
    <2> QED
      BY <1>3, <2>2, <2>3
  <1>14. KeyPathKnown'
    <2>1. \A i \in 1 .. n + 1 : i \in 1 .. n \/ i = n + 1
      BY <1>3
    <2> QED
      BY <1>4, <1>6, <2>1 DEF SInv, KeyPathKnown
  <1> QED
    BY <1>7, <1>8, <1>9, <1>10, <1>11, <1>12, <1>13, <1>14 DEF SInv

LEMMA CallbackSInv ==
  ASSUME SInv, NEW t \in Threads, Callback(t)
  PROVE  SInv'
  <1>1. CASE \E s \in Active : Enter(t, s)
    <2>1. PICK s \in Active : Enter(t, s)
      BY <1>1
    <2> DEFINE c == Call("stamp", s, 0, Len(events),
                         s = "registry" /\ phase = "registering", FALSE)
    <2>2. /\ s = "registry" => live
          /\ calls' = [calls EXCEPT ![t] = c]
          /\ UNCHANGED <<phase, live, cookie, clock, events>>
      BY <2>1 DEF Enter, registration
    <2>3. c \in CallRecords
      BY DEF SInv, Types, Call, CallRecords, Stages
    <2>4. Len(events) <= Len(events)
      BY DEF SInv, Types
    <2>5. s = "registry" /\ phase # "registering" => phase = "registered"
      BY <2>2 DEF SInv, Types, LiveWhile, Phases
    <2>6. CallOK(c)
      BY <2>2, <2>4, <2>5 DEF CallOK, Call
    <2> QED
      BY <2>2, <2>3, <2>6, CallStep
  <1>2. CASE Stamp(t)
    <2>1. /\ calls[t].at = "stamp"
          /\ calls' = [calls EXCEPT ![t].at = AfterStamp(calls[t].sensor), ![t].time = clock]
          /\ UNCHANGED <<phase, live, cookie, clock, events>>
      BY <1>2 DEF Stamp, registration
    <2>2. calls[t] # Idle /\ calls[t] \in CallRecords /\ CallOK(calls[t])
      BY <2>1, CallType, CallIsOK DEF SInv, Stages
    <2> DEFINE c == [calls[t] EXCEPT !.at = AfterStamp(calls[t].sensor), !.time = clock]
    <2>3. calls' = [calls EXCEPT ![t] = c]
      BY <2>1 DEF SInv, Types
    <2>4. /\ c \in CallRecords /\ c.time = clock
          /\ c.at = AfterStamp(calls[t].sensor)
          /\ c.sensor = calls[t].sensor /\ c.known = calls[t].known
          /\ c.early = calls[t].early /\ c.missing = calls[t].missing
      BY <2>2 DEF SInv, Types, CallRecords, Stages, AfterStamp
    <2>5. clock <= clock /\ \A i \in 1 .. Len(events) : events[i].time <= clock
      BY DEF SInv, Types, Past
    <2>6. CallOK(c)
      BY <2>2, <2>4, <2>5 DEF CallOK, AfterStamp
    <2> QED
      BY <2>1, <2>3, <2>4, <2>6, CallStep
  <1>3. CASE ResolveKeyPath(t)
    <2>1. /\ calls[t].at = "resolve"
          /\ calls' = [calls EXCEPT ![t].at = "push", ![t].missing = ~ cookie]
          /\ UNCHANGED <<phase, live, cookie, clock, events>>
      BY <1>3 DEF ResolveKeyPath, registration
    <2>2. calls[t] # Idle /\ calls[t] \in CallRecords /\ CallOK(calls[t])
      BY <2>1, CallType, CallIsOK DEF SInv, Stages
    <2> DEFINE c == [calls[t] EXCEPT !.at = "push", !.missing = ~ cookie]
    <2>3. calls' = [calls EXCEPT ![t] = c]
      BY <2>1 DEF SInv, Types
    <2>4. /\ c.time = calls[t].time /\ c.at = "push"
          /\ c.sensor = calls[t].sensor /\ c.known = calls[t].known
          /\ c.early = calls[t].early /\ c.missing = ~ cookie
      BY <2>2 DEF CallRecords
    <2>5. c \in CallRecords
      <3>1. (~ cookie) \in BOOLEAN
        OBVIOUS
      <3> QED
        BY <2>2, <3>1 DEF CallRecords, Stages
    <2>6. calls[t].sensor = "registry"
      BY <2>1, <2>2 DEF CallOK
    <2>7. c.missing => c.early
      <3>1. ~ c.early => cookie
        BY <2>2, <2>4, <2>6 DEF CallOK, SInv, CookieSet
      <3> QED
        BY <2>4, <3>1
    <2>8. CallOK(c)
      BY <2>1, <2>2, <2>4, <2>6, <2>7 DEF CallOK
    <2> QED
      BY <2>1, <2>3, <2>5, <2>8, CallStep
  <1>4. CASE PushAccepted(t)
    BY <1>4, AcceptSInv
  <1>5. CASE PushDropped(t)
    BY <1>5, CallEnds DEF PushDropped, registration
  <1> QED
    BY <1>1, <1>2, <1>3, <1>4, <1>5 DEF Callback

LEMMA StutterSInv == SInv /\ UNCHANGED sensorVars => SInv'
  <1> SUFFICES ASSUME SInv, UNCHANGED sensorVars PROVE SInv'
    OBVIOUS
  <1>1. UNCHANGED <<clock, phase, live, cookie, calls, events>>
    BY DEF sensorVars
  <1>2. Types' /\ CookieSet' /\ LiveWhile'
    BY <1>1 DEF SInv, Types, CookieSet, LiveWhile
  <1>3. CallsHold'
    BY <1>1 DEF SInv, CallsHold, InRegistry
  <1> QED
    BY <1>1, <1>2, <1>3, RegistrationKeeps

LEMMA SInvAlways == SensorsSpec => []SInv
  <1>1. SInv /\ [SensorsNext]_sensorVars => SInv'
    BY TickSInv, RegistrationSInv, CallbackSInv, StutterSInv DEF SensorsNext
  <1> QED
    BY <1>1, InitSInv, PTL DEF SensorsSpec

-----------------------------------------------------------------------------
(* The state stays typed, and the cookie tells whether the registry        *)
(* callback is registered.                                                 *)
THEOREM SensorsTypeCorrect == SensorsSpec => []SensorsTypeOK
  <1>1. SInv => SensorsTypeOK
    BY DEF SInv, Types, CookieSet, SensorsTypeOK, Phases
  <1> QED
    BY <1>1, SInvAlways, PTL

(* The log dates no event before one accepted before it happened.          *)
THEOREM LogInOrderOfTime == SensorsSpec => []InOrderUnlessConcurrent
  BY SInvAlways, PTL DEF SInv

(* The registry cookie is there for every callback that starts after its   *)
(* registration, to the last.                                              *)
THEOREM CookieKnown == SensorsSpec => []KeyPathKnown
  BY SInvAlways, PTL DEF SInv
=============================================================================
