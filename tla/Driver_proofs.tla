--------------------------- MODULE Driver_proofs ---------------------------
(***************************************************************************)
(* Proofs about the driver: what exists at each place of DriverEntry and   *)
(* DriverUnload, however callbacks and the writer thread interleave with   *)
(* them and wherever a load fails.                                         *)
(***************************************************************************)
EXTENDS Driver, LogWriter_proofs

\* The components that are being set up, set up or taken down.
UpTo(n) == {Components[i] : i \in 1 .. n}
Up == UpTo(up)

\* What stands on what.
Chained(cs) ==
  /\ "link" \in cs => "device" \in cs
  /\ "network" \in cs => "link" \in cs
  /\ "event queue" \in cs => "network" \in cs
  /\ "log writer" \in cs => "event queue" \in cs
  /\ "process" \in cs => "log writer" \in cs
  /\ "image" \in cs => "process" \in cs
  /\ "registry" \in cs => "image" \in cs

\* An object exists while it is up; only the queue outlives its teardown.
Placed ==
  /\ "device" \in present <=> "device" \in Up
  /\ "link" \in present <=> "link" \in Up
  /\ "event queue" \in Up => "event queue" \in present
  /\ mode = "loading" /\ "event queue" \in present => "event queue" \in Up
  /\ mode = "unloaded" => Up = {} /\ "event queue" \notin present

\* A sensor of the host is up while it is registered, and until its calls end.
Awaited == \A c \in HostSensors : c \in present \cup calling => c \in Up

\* The network sensor starts and stops at its place, and is present above it.
NetworkPlaced ==
  /\ "network" \in Up <=> network # "absent"
  /\ "event queue" \in Up => network = "present"
  /\ network = "starting" => mode = "loading"
  /\ network = "stopping" => mode = "unloading"
  /\ network = "absent" => observing = {} /\ calling \cap NetworkSensors = {}

\* Where Start and Stop are, by how far DriverEntry or DriverUnload has got.
WriterPlaced ==
  /\ "process" \in Up => caller = "running"
  /\ "log writer" \in Up =>
       caller = "running" \/ (mode = "unloading" /\ caller \in {"join", "stopped"})
  /\ "log writer" \notin Up =>
       /\ caller # "join"
       /\ caller \in {"create", "reference", "running"} => mode = "loading"
  /\ "event queue" \notin Up /\ mode = "loading" => caller = "unstarted"
  /\ caller \in {"unstarted", "create", "reference", "failed"} => ~ threadObject
  /\ caller \in {"unstarted", "failed"} => ~ logFile

DriverInv ==
  /\ DriverTypeOK /\ Control
  /\ Placed /\ Awaited /\ NetworkPlaced /\ WriterPlaced

-----------------------------------------------------------------------------
(* The components that are up.                                             *)

LEMMA Places ==
  /\ Len(Components) = 8
  /\ Components[1] = "device" /\ Components[2] = "link"
  /\ Components[3] = "network" /\ Components[4] = "event queue"
  /\ Components[5] = "log writer" /\ Components[6] = "process"
  /\ Components[7] = "image" /\ Components[8] = "registry"
  BY DEF Components

LEMMA EightComponents == Len(Components) = 8
  BY Places, Zenon

LEMMA OnePlaceEach ==
  ASSUME NEW i \in 1 .. 8, NEW j \in 1 .. 8, Components[i] = Components[j]
  PROVE  i = j
<1>1. \A k \in 1 .. 8 : k = 1 \/ k = 2 \/ k = 3 \/ k = 4 \/ k = 5 \/ k = 6 \/ k = 7 \/ k = 8
  OBVIOUS
<1>2. CASE i = 1
  BY <1>1, <1>2, Places, Zenon
<1>3. CASE i = 2
  BY <1>1, <1>3, Places, Zenon
<1>4. CASE i = 3
  BY <1>1, <1>4, Places, Zenon
<1>5. CASE i = 4
  BY <1>1, <1>5, Places, Zenon
<1>6. CASE i = 5
  BY <1>1, <1>6, Places, Zenon
<1>7. CASE i = 6
  BY <1>1, <1>7, Places, Zenon
<1>8. CASE i = 7
  BY <1>1, <1>8, Places, Zenon
<1>9. CASE i = 8
  BY <1>1, <1>9, Places, Zenon
<1> QED
  BY <1>1, <1>2, <1>3, <1>4, <1>5, <1>6, <1>7, <1>8, <1>9, Zenon

LEMMA OneMoreUp ==
  ASSUME NEW n \in 0 .. 7
  PROVE  /\ UpTo(n + 1) = UpTo(n) \cup {Components[n + 1]}
         /\ Components[n + 1] \notin UpTo(n)
<1>1. 1 .. n + 1 = (1 .. n) \cup {n + 1}
  OBVIOUS
<1>2. UpTo(n + 1) = UpTo(n) \cup {Components[n + 1]}
  BY <1>1, Zenon DEF UpTo
<1>3. ASSUME NEW i \in 1 .. n PROVE Components[n + 1] # Components[i]
  <2>1. i \in 1 .. 8 /\ n + 1 \in 1 .. 8 /\ i # n + 1
    OBVIOUS
  <2> QED
    BY <2>1, OnePlaceEach, Zenon
<1> QED
  BY <1>2, <1>3 DEF UpTo

LEMMA UpIsChained ==
  ASSUME NEW n \in 0 .. 8
  PROVE  Chained(UpTo(n)) /\ (n = 0 <=> UpTo(n) = {}) /\ (n = 8 => "registry" \in UpTo(n))
<1>1. ASSUME NEW k \in 1 .. 8 PROVE Components[k] \in UpTo(n) <=> k <= n
  <2>1. ASSUME NEW i \in 1 .. n, Components[i] = Components[k] PROVE i = k
    <3>1. i \in 1 .. 8
      OBVIOUS
    <3> QED
      BY <2>1, <3>1, OnePlaceEach, Zenon
  <2>2. k <= n => k \in 1 .. n
    OBVIOUS
  <2>3. \A i \in 1 .. n : i = k => k <= n
    OBVIOUS
  <2> QED
    BY <2>1, <2>2, <2>3, Zenon DEF UpTo
<1> DEFINE In(k) == Components[k] \in UpTo(n)
<1>3. /\ In(2) => In(1)
      /\ In(3) => In(2)
      /\ In(4) => In(3)
      /\ In(5) => In(4)
      /\ In(6) => In(5)
      /\ In(7) => In(6)
      /\ In(8) => In(7)
  BY <1>1
<1>4. Chained(UpTo(n))
  BY <1>3, Places, Zenon DEF Chained
<1>5. n = 0 <=> UpTo(n) = {}
  BY DEF UpTo
<1>6. n = 8 => Components[8] \in UpTo(n)
  BY DEF UpTo
<1> QED
  BY <1>4, <1>5, <1>6, Places

LEMMA UpChained == DriverTypeOK => Chained(Up)
  BY UpIsChained, Places DEF Up, DriverTypeOK

LEMMA NextUp ==
  ASSUME DriverTypeOK, NEW c, SettingUp(c)
  PROVE  /\ mode = "loading" /\ network # "starting" /\ c \notin Up
         /\ Chained(Up) /\ Chained(Up \cup {c})
         /\ up + 1 \in 0 .. 8 /\ UpTo(up + 1) = Up \cup {c}
<1>1. up \in 0 .. 8 /\ up < 8 /\ Components[up + 1] = c
  BY EightComponents, Zenon DEF SettingUp, DriverTypeOK
<1>2. up \in 0 .. 7 /\ up + 1 \in 0 .. 8
  BY <1>1
<1>3. UpTo(up + 1) = Up \cup {c} /\ c \notin Up
  BY <1>1, <1>2, OneMoreUp DEF Up
<1>4. Chained(UpTo(up + 1)) /\ Chained(Up)
  BY <1>2, UpIsChained, UpChained
<1> QED
  BY <1>2, <1>3, <1>4 DEF SettingUp

LEMMA LastUp ==
  ASSUME DriverTypeOK, NEW c, TakingDown(c)
  PROVE  /\ mode = "unloading" /\ c \in Up
         /\ Chained(Up) /\ Chained(Up \ {c})
         /\ up - 1 \in 0 .. 8 /\ UpTo(up - 1) = Up \ {c}
<1>1. up \in 0 .. 8 /\ up > 0 /\ Components[up] = c
  BY EightComponents, Zenon DEF TakingDown, DriverTypeOK
<1>2. up - 1 \in 0 .. 7 /\ up - 1 \in 0 .. 8 /\ up = (up - 1) + 1
  BY <1>1
<1>3. Up = UpTo(up - 1) \cup {c} /\ c \notin UpTo(up - 1)
  BY <1>1, <1>2, OneMoreUp DEF Up
<1>4. Chained(UpTo(up - 1)) /\ UpTo(up - 1) = Up \ {c}
  BY <1>2, <1>3, UpIsChained
<1> QED
  BY <1>2, <1>3, <1>4, UpChained DEF TakingDown

LEMMA SetUpOneMore ==
  ASSUME DriverTypeOK, NEW c, SettingUp(c), up' = up + 1
  PROVE  /\ up' \in 0 .. 8
         /\ c \notin Up /\ Up' = Up \cup {c}
         /\ Chained(Up) /\ Chained(Up')
<1>1. Up' = UpTo(up + 1)
  BY DEF Up
<1> QED
  BY <1>1, NextUp

LEMMA TakenDownOne ==
  ASSUME DriverTypeOK, NEW c, TakingDown(c), up' = up - 1
  PROVE  /\ up' \in 0 .. 8
         /\ c \in Up /\ Up' = Up \ {c}
         /\ Chained(Up) /\ Chained(Up')
<1>1. Up' = UpTo(up - 1)
  BY DEF Up
<1> QED
  BY <1>1, LastUp

LEMMA WriterUnchanged == Control /\ UNCHANGED writerVars => Control'
  BY NextControl
-----------------------------------------------------------------------------
(* Loading.                                                                *)

LEMMA InitDriver == DriverInit => DriverInv
<1> SUFFICES ASSUME DriverInit PROVE DriverInv
  OBVIOUS
<1>1. Control
  BY InitControl DEF DriverInit
<1>2. caller = "unstarted" /\ ~ threadObject /\ ~ logFile
  BY DEF DriverInit, WriterInit
<1>3. up \in 0 .. Len(Components)
  BY EightComponents DEF DriverInit
<1>4. DriverTypeOK
  BY <1>1, <1>3 DEF DriverInit, DriverTypeOK, Control, Net!NetInit
<1>5. Up = {}
  BY UpIsChained DEF DriverInit, Up
<1>6. Placed /\ Awaited /\ NetworkPlaced
  BY <1>5 DEF DriverInit, Placed, Awaited, NetworkPlaced, Net!NetInit
<1>7. WriterPlaced
  BY <1>2, <1>5 DEF DriverInit, WriterPlaced
<1> QED
  BY <1>1, <1>4, <1>6, <1>7 DEF DriverInv

LEMMA LoadInv == DriverInv /\ Load => DriverInv'
<1> SUFFICES ASSUME DriverInv, Load PROVE DriverInv'
  OBVIOUS
<1>1. WriterInit'
  BY DEF Load, WriterInit, ThreadInit, FifoInit
<1>2. Control'
  BY <1>1, InitControl, PTL
<1>3. caller' = "unstarted" /\ ~ threadObject' /\ ~ logFile'
  BY DEF Load
<1>4. DriverTypeOK'
  BY <1>2 DEF DriverInv, DriverTypeOK, Control, Load, netVars
<1>5. Up' = {} /\ Up = {}
  BY DEF Load, DriverInv, Placed, Up
<1>6. Placed' /\ Awaited' /\ NetworkPlaced'
  BY <1>5 DEF DriverInv, Load, Placed, Awaited, NetworkPlaced, netVars
<1>7. WriterPlaced'
  BY <1>3, <1>5 DEF Load, WriterPlaced
<1> QED
  BY <1>2, <1>4, <1>6, <1>7 DEF DriverInv

LEMMA SetUpInv ==
  ASSUME DriverInv, NEW c \in Objects, SetUp(c)
  PROVE  DriverInv'
<1>1. /\ SettingUp(c) /\ up' = up + 1
      /\ present' = present \cup {c}
      /\ UNCHANGED <<mode, network, observing, calling, bugcheck>>
      /\ UNCHANGED <<caller, threadObject, logFile>>
  BY DEF SetUp, netVars, writerVars, handles
<1>2. Control'
  BY WriterUnchanged DEF DriverInv, SetUp
<1>3. /\ up' \in 0 .. 8
      /\ c \notin Up /\ Up' = Up \cup {c}
      /\ Chained(Up) /\ Chained(Up')
  BY <1>1, SetUpOneMore DEF DriverInv
<1>4. mode = "loading" /\ network # "starting"
  BY <1>1 DEF SettingUp
<1>5. DriverTypeOK'
  BY <1>1, <1>2, <1>3, EightComponents DEF DriverInv, DriverTypeOK, Control
<1>6. Placed'
  BY <1>1, <1>3, <1>4 DEF DriverInv, Placed
<1>7. Awaited'
  BY <1>1, <1>3 DEF DriverInv, Awaited
<1>8. NetworkPlaced'
  BY <1>1, <1>3, <1>4 DEF DriverInv, DriverTypeOK, NetworkPlaced, Chained, Objects, HostSensors
<1>9. WriterPlaced'
  BY <1>1, <1>3, <1>4 DEF DriverInv, WriterPlaced, Chained, Objects, HostSensors
<1> QED
  BY <1>2, <1>5, <1>6, <1>7, <1>8, <1>9 DEF DriverInv

\* The queue is emptied, whatever there was in it, and what callbacks there are
\* may lose their pushes.
LEMMA SetUpQueueInv == DriverInv /\ SetUpQueue => DriverInv'
<1> SUFFICES ASSUME DriverInv, SetUpQueue PROVE DriverInv'
  OBVIOUS
<1>1. /\ SettingUp("event queue") /\ up' = up + 1
      /\ present' = present \cup {"event queue"}
      /\ calling' \subseteq calling /\ wake' \in BOOLEAN
      /\ fifo' = <<>> /\ nextId' = 0 /\ dropped' = 0
      /\ UNCHANGED <<out, stopEvent, thread, caller, handles, history>>
      /\ UNCHANGED <<mode, network, observing, bugcheck>>
  BY DEF SetUpQueue, netVars
<1>2. Control'
  <2>1. fifo' \in Seq(EventType) /\ Len(fifo') <= Size /\ 0 \in Ulong
    <3>1. fifo' = <<>>
      BY <1>1
    <3>2. Len(fifo') = 0 /\ fifo' \in Seq(EventType)
      BY <3>1, EmptySeq
    <3> QED
      BY <3>2, SizeAssumption, UlongAssumption DEF Ulong
  <2>2. WriterTypeOK'
    BY <1>1, <2>1 DEF DriverInv, Control, WriterTypeOK, ThreadTypeOK, FifoTypeOK, handles, history
  <2>3. UNCHANGED <<out, thread, caller, threadObject, logFile, threadHandle>>
    BY <1>1 DEF handles
  <2>4. Lifecycle' /\ HandHoldsEvent'
    BY <2>3 DEF DriverInv, Control, Lifecycle, HandHoldsEvent
  <2> QED
    BY <2>2, <2>4 DEF Control
<1>3. /\ up' \in 0 .. 8
      /\ "event queue" \notin Up /\ Up' = Up \cup {"event queue"}
      /\ Chained(Up) /\ Chained(Up')
  BY <1>1, SetUpOneMore DEF DriverInv
<1>4. mode = "loading" /\ network # "starting"
  BY <1>1 DEF SettingUp
<1>5. DriverTypeOK'
  BY <1>1, <1>2, <1>3, EightComponents DEF DriverInv, DriverTypeOK, Control, Objects
<1>6. Placed' /\ Awaited'
  BY <1>1, <1>3, <1>4 DEF DriverInv, Placed, Awaited, HostSensors
<1>7. NetworkPlaced'
  BY <1>1, <1>3, <1>4 DEF DriverInv, DriverTypeOK, NetworkPlaced, Chained
<1>8. WriterPlaced'
  BY <1>1, <1>3, <1>4 DEF DriverInv, WriterPlaced, Chained, handles
<1> QED
  BY <1>2, <1>5, <1>6, <1>7, <1>8 DEF DriverInv

(* A step that changes neither the writer nor what is up.                  *)
LEMMA Standing ==
  ASSUME DriverInv, UNCHANGED <<writerVars, up>>
  PROVE  /\ Control' /\ WriterTypeOK' /\ Up' = Up /\ Chained(Up)
         /\ UNCHANGED <<caller, threadObject, logFile>>
<1>1. Control'
  BY WriterUnchanged DEF DriverInv
<1>2. Chained(Up)
  BY UpChained DEF DriverInv
<1> QED
  BY <1>1, <1>2 DEF Control, Up, writerVars, handles

LEMMA ModeInv ==
  ASSUME DriverInv,
         \/ \E c \in Objects : SetUpFails(c)
         \/ StartNetworkFails \/ EntryReturns \/ BeginUnload
  PROVE  DriverInv'
<1>1. /\ UNCHANGED <<writerVars, up, present, observing, calling, bugcheck>>
      /\ \/ mode = "loading" /\ network # "starting" /\ UNCHANGED network /\ mode' = "unloading"
         \/ mode = "loading" /\ network = "starting" /\ network' = "stopping" /\ mode' = "unloading"
         \/ mode = "loading" /\ up = Len(Components) /\ UNCHANGED network /\ mode' = "loaded"
         \/ mode = "loaded" /\ UNCHANGED network /\ mode' = "unloading"
  BY DEF SetUpFails, SettingUp, StartNetworkFails, Net!Fail, EntryReturns, BeginUnload, netVars
<1>2. /\ Control' /\ WriterTypeOK' /\ Up' = Up /\ Chained(Up)
      /\ UNCHANGED <<caller, threadObject, logFile>>
  BY <1>1, Standing
<1>3. up = Len(Components) => "registry" \in Up
  BY EightComponents, UpIsChained DEF Up
<1>4. DriverTypeOK'
  BY <1>1, <1>2 DEF DriverInv, DriverTypeOK
<1>5. Placed' /\ Awaited'
  BY <1>1, <1>2 DEF DriverInv, Placed, Awaited
<1>6. NetworkPlaced'
  BY <1>1, <1>2, <1>3 DEF DriverInv, NetworkPlaced, Chained
<1>7. mode = "loading" => "event queue" \notin Up \/ "log writer" \in Up
  <2>1. ASSUME NEW c \in Objects, SetUpFails(c) PROVE <1>7
    <3>1. c \in Objects \ {"event queue"} /\ c \notin Up /\ Chained(Up) /\ Chained(Up \cup {c})
      BY <2>1, NextUp DEF SetUpFails, DriverInv
    <3> QED
      BY <3>1 DEF Objects, HostSensors, Chained
  <2>2. ASSUME StartNetworkFails PROVE <1>7
    BY <2>2 DEF StartNetworkFails, Net!Fail, DriverInv, NetworkPlaced
  <2>3. ASSUME EntryReturns PROVE <1>7
    BY <1>2, <1>3, <2>3 DEF EntryReturns, Chained
  <2>4. ASSUME BeginUnload PROVE <1>7
    BY <2>4 DEF BeginUnload
  <2> QED
    BY <2>1, <2>2, <2>3, <2>4
<1>8. WriterPlaced'
  BY <1>1, <1>2, <1>7 DEF DriverInv, WriterPlaced, Chained
<1> QED
  BY <1>2, <1>4, <1>5, <1>6, <1>8 DEF DriverInv

LEMMA StartNetworkInv == DriverInv /\ StartNetwork => DriverInv'
<1> SUFFICES ASSUME DriverInv, StartNetwork PROVE DriverInv'
  OBVIOUS
<1>1. /\ SettingUp("network") /\ up' = up + 1
      /\ network = "absent" /\ network' = "starting"
      /\ UNCHANGED <<mode, present, observing, calling, bugcheck>>
      /\ UNCHANGED <<caller, threadObject, logFile>>
  BY DEF StartNetwork, Net!Begin, writerVars, handles
<1>2. Control'
  BY WriterUnchanged DEF DriverInv, StartNetwork
<1>3. /\ up' \in 0 .. 8
      /\ Up' = Up \cup {"network"}
      /\ Chained(Up) /\ Chained(Up') /\ "network" \notin Up
  BY <1>1, SetUpOneMore DEF DriverInv
<1>4. mode = "loading"
  BY <1>1 DEF SettingUp
<1>5. DriverTypeOK'
  BY <1>1, <1>2, <1>3, EightComponents DEF DriverInv, DriverTypeOK, Control
<1>6. Placed' /\ Awaited'
  BY <1>1, <1>3, <1>4 DEF DriverInv, Placed, Awaited
<1>7. NetworkPlaced'
  BY <1>1, <1>3, <1>4 DEF DriverInv, NetworkPlaced, Chained
<1>8. WriterPlaced'
  BY <1>1, <1>3, <1>4 DEF DriverInv, WriterPlaced, Chained
<1> QED
  BY <1>2, <1>5, <1>6, <1>7, <1>8 DEF DriverInv

(* Directions come and go while the network sensor is there.               *)
LEMMA ObservingInv ==
  ASSUME DriverInv, StopObserving \/ \E d \in NetworkSensors : StartObserving(d)
  PROVE  DriverInv'
<1>1. UNCHANGED <<writerVars, up, mode, present, calling, bugcheck>>
  BY DEF StopObserving, StartObserving
<1>2. /\ observing' \subseteq NetworkSensors
      /\ network # "absent" /\ network' # "absent"
      /\ \/ mode = "loading" /\ network = "starting" /\ network' \in {"starting", "present"}
         \/ mode = "unloading" /\ "event queue" \notin Up /\ network' = "stopping"
  <2>1. ASSUME NEW d \in NetworkSensors, StartObserving(d) PROVE <1>2
    BY <2>1 DEF StartObserving, Net!Observe, DriverInv, DriverTypeOK
  <2>2. ASSUME StopObserving PROVE <1>2
    <3>1. /\ mode = "unloading" /\ network \in {"present", "stopping"}
          /\ network' = "stopping" /\ observing' \subseteq NetworkSensors
      BY <2>2 DEF StopObserving, TakingDown, Net!Withdraw, Net!Forget, DriverInv, DriverTypeOK
    <3>2. "event queue" \notin Up
      BY <2>2, LastUp DEF StopObserving, DriverInv, Chained
    <3> QED
      BY <3>1, <3>2
  <2> QED
    BY <2>1, <2>2
<1>3. /\ Control' /\ WriterTypeOK' /\ Up' = Up /\ Chained(Up)
      /\ UNCHANGED <<caller, threadObject, logFile>>
  BY <1>1, Standing
<1>4. DriverTypeOK'
  BY <1>1, <1>2, <1>3 DEF DriverInv, DriverTypeOK
<1>5. Placed' /\ Awaited' /\ WriterPlaced'
  BY <1>1, <1>3 DEF DriverInv, Placed, Awaited, WriterPlaced
<1>6. NetworkPlaced'
  BY <1>1, <1>2, <1>3 DEF DriverInv, NetworkPlaced, Chained
<1> QED
  BY <1>3, <1>4, <1>5, <1>6 DEF DriverInv

LEMMA StartWriterInv == DriverInv /\ StartWriter => DriverInv'
<1> SUFFICES ASSUME DriverInv, StartWriter PROVE DriverInv'
  OBVIOUS
<1>1. SettingUp("log writer") /\ Start /\ UNCHANGED driverVars
  BY DEF StartWriter
<1>2. Control'
  BY <1>1, StartControl DEF DriverInv
<1>3. mode = "loading" /\ "log writer" \notin Up /\ "event queue" \in Up
  BY <1>1, NextUp DEF DriverInv, Chained
<1>4. UNCHANGED <<mode, up, present, network, observing, calling, bugcheck>> /\ Up' = Up
  BY <1>1 DEF driverVars, netVars, Up
<1>5. DriverTypeOK'
  BY <1>2, <1>4 DEF DriverInv, DriverTypeOK, Control
<1>6. Placed' /\ Awaited' /\ NetworkPlaced'
  BY <1>4 DEF DriverInv, Placed, Awaited, NetworkPlaced
<1>7. Chained(Up)
  BY UpChained DEF DriverInv
<1>8. WriterPlaced'
  <2>1. /\ caller = "unstarted" => ~ logFile
        /\ caller \in {"unstarted", "create", "reference"} => ~ threadObject
    BY DEF DriverInv, WriterPlaced
  <2>2. /\ caller' \in {"create", "reference", "running", "failed"}
        /\ caller' # "running" => ~ threadObject'
        /\ caller' = "failed" => ~ logFile'
    <3> USE <2>1 DEF CallerGoto, handles
    <3>1. CASE OpenFile
      BY <3>1 DEF OpenFile
    <3>2. CASE OpenFileFails
      BY <3>2 DEF OpenFileFails
    <3>3. CASE StartThread
      BY <3>3 DEF StartThread
    <3>4. CASE StartThreadFails
      BY <3>4 DEF StartThreadFails
    <3>5. CASE ReferenceThread
      BY <3>5 DEF ReferenceThread
    <3>6. CASE ReferenceThreadFails
      BY <3>6 DEF ReferenceThreadFails
    <3> QED
      BY <1>1, <3>1, <3>2, <3>3, <3>4, <3>5, <3>6 DEF Start
  <2>3. "process" \notin Up
    BY <1>3, <1>7 DEF Chained
  <2> QED
    BY <1>3, <1>4, <2>2, <2>3 DEF WriterPlaced
<1> QED
  BY <1>2, <1>5, <1>6, <1>8 DEF DriverInv

LEMMA WriterStartedInv == DriverInv /\ WriterStarted => DriverInv'
<1> SUFFICES ASSUME DriverInv, WriterStarted PROVE DriverInv'
  OBVIOUS
<1>1. /\ SettingUp("log writer")
      /\ UNCHANGED <<writerVars, present, network, observing, calling, bugcheck>>
  BY DEF WriterStarted, netVars
<1>2. /\ mode = "loading" /\ "log writer" \notin Up /\ "event queue" \in Up
      /\ Chained(Up)
  BY <1>1, NextUp DEF DriverInv, Chained
<1>3. Control' /\ UNCHANGED <<caller, threadObject, logFile>>
  BY <1>1, WriterUnchanged DEF DriverInv, writerVars, handles
<1>4. network = "present"
  BY <1>2 DEF DriverInv, NetworkPlaced
<1>5. CASE caller = "running" /\ up' = up + 1 /\ UNCHANGED mode
  <2>1. up' \in 0 .. 8 /\ Up' = Up \cup {"log writer"} /\ Chained(Up')
    BY <1>1, <1>5, SetUpOneMore DEF DriverInv
  <2>2. DriverTypeOK'
    BY <1>1, <1>3, <1>5, <2>1, EightComponents DEF DriverInv, DriverTypeOK, Control
  <2>3. Placed' /\ Awaited'
    BY <1>1, <1>2, <1>5, <2>1 DEF DriverInv, Placed, Awaited
  <2>4. NetworkPlaced'
    BY <1>1, <1>4, <1>5, <2>1 DEF DriverInv, NetworkPlaced
  <2>5. WriterPlaced'
    BY <1>2, <1>3, <1>5, <2>1 DEF DriverInv, WriterPlaced, Chained
  <2> QED
    BY <1>3, <2>2, <2>3, <2>4, <2>5 DEF DriverInv
<1>6. CASE caller = "failed" /\ mode' = "unloading" /\ UNCHANGED up
  <2>1. Up' = Up
    BY <1>6 DEF Up
  <2>2. DriverTypeOK'
    BY <1>1, <1>3, <1>6 DEF DriverInv, DriverTypeOK, Control
  <2>3. Placed' /\ Awaited' /\ NetworkPlaced'
    BY <1>1, <1>2, <1>4, <1>6, <2>1 DEF DriverInv, Placed, Awaited, NetworkPlaced
  <2>4. WriterPlaced'
    BY <1>2, <1>3, <1>6, <2>1 DEF DriverInv, WriterPlaced, Chained
  <2> QED
    BY <1>3, <2>2, <2>3, <2>4 DEF DriverInv
<1> QED
  BY <1>5, <1>6 DEF WriterStarted

-----------------------------------------------------------------------------
(* Unloading.                                                              *)

(* One component less is up; the writer does not move.                     *)
LEMMA OneLess ==
  ASSUME DriverInv, NEW c, TakingDown(c), up' = up - 1, UNCHANGED <<writerVars, mode>>,
         present' \subseteq Objects, network' \in {"absent", "starting", "present", "stopping"},
         UNCHANGED <<observing, calling, bugcheck>>
  PROVE  /\ DriverTypeOK' /\ Control'
         /\ UNCHANGED <<caller, threadObject, logFile>> /\ mode' = "unloading"
         /\ c \in Up /\ Up' = Up \ {c} /\ Chained(Up) /\ Chained(Up')
<1>1. Control'
  BY WriterUnchanged DEF DriverInv
<1>2. /\ up' \in 0 .. 8 /\ mode' = "unloading"
      /\ c \in Up /\ Up' = Up \ {c} /\ Chained(Up) /\ Chained(Up')
  BY TakenDownOne, LastUp DEF DriverInv
<1>3. DriverTypeOK'
  BY <1>1, <1>2, EightComponents DEF DriverInv, DriverTypeOK, Control
<1> QED
  BY <1>1, <1>2, <1>3 DEF writerVars, handles

LEMMA TakeDownInv ==
  ASSUME DriverInv, NEW c, TakeDown(c)
  PROVE  DriverInv'
<1>1. /\ c \in {"device", "link"} /\ present' = present \ {c}
      /\ UNCHANGED <<network, observing, calling, bugcheck>>
  BY DEF TakeDown, netVars
<1>2. /\ DriverTypeOK' /\ Control'
      /\ UNCHANGED <<caller, threadObject, logFile>> /\ mode' = "unloading"
      /\ c \in Up /\ Up' = Up \ {c} /\ Chained(Up) /\ Chained(Up')
  BY <1>1, OneLess DEF TakeDown, DriverInv, DriverTypeOK
<1>3. mode = "unloading"
  BY DEF TakeDown, TakingDown
<1>4. Placed' /\ Awaited' /\ NetworkPlaced'
  BY <1>1, <1>2, <1>3 DEF DriverInv, Placed, Awaited, NetworkPlaced, Chained, HostSensors
<1>5. WriterPlaced'
  BY <1>1, <1>2, <1>3 DEF DriverInv, WriterPlaced, Chained
<1> QED
  BY <1>2, <1>4, <1>5 DEF DriverInv

LEMMA DestroyQueueInv == DriverInv /\ DestroyQueue => DriverInv'
<1> SUFFICES ASSUME DriverInv, DestroyQueue PROVE DriverInv'
  OBVIOUS
<1>1. UNCHANGED <<present, network, observing, calling, bugcheck>>
  BY DEF DestroyQueue, netVars
<1>2. /\ DriverTypeOK' /\ Control'
      /\ UNCHANGED <<caller, threadObject, logFile>> /\ mode' = "unloading"
      /\ Up' = Up \ {"event queue"} /\ Chained(Up) /\ Chained(Up')
  BY <1>1, OneLess DEF DestroyQueue, DriverInv, DriverTypeOK
<1>3. mode = "unloading"
  BY DEF DestroyQueue, TakingDown
<1>4. Placed' /\ Awaited' /\ NetworkPlaced'
  BY <1>1, <1>2, <1>3 DEF DriverInv, Placed, Awaited, NetworkPlaced, Chained, HostSensors
<1>5. WriterPlaced'
  BY <1>1, <1>2, <1>3 DEF DriverInv, WriterPlaced, Chained
<1> QED
  BY <1>2, <1>4, <1>5 DEF DriverInv

LEMMA UnregisterInv ==
  ASSUME DriverInv, NEW c \in Objects, Unregister(c)
  PROVE  DriverInv'
<1>1. /\ c \in HostSensors /\ present' = present \ {c} /\ mode = "unloading"
      /\ UNCHANGED <<writerVars, up, mode, network, observing, calling, bugcheck>>
  BY DEF Unregister, TakingDown, netVars
<1>2. /\ Control' /\ WriterTypeOK' /\ Up' = Up /\ Chained(Up)
      /\ UNCHANGED <<caller, threadObject, logFile>>
  BY <1>1, Standing
<1>3. DriverTypeOK'
  BY <1>1, <1>2 DEF DriverInv, DriverTypeOK
<1>4. Placed' /\ Awaited' /\ NetworkPlaced'
  BY <1>1, <1>2 DEF DriverInv, Placed, Awaited, NetworkPlaced, HostSensors
<1>5. WriterPlaced'
  BY <1>1, <1>2 DEF DriverInv, WriterPlaced
<1> QED
  BY <1>2, <1>3, <1>4, <1>5 DEF DriverInv

LEMMA UnregisteredInv ==
  ASSUME DriverInv, NEW c \in Objects, Unregistered(c)
  PROVE  DriverInv'
<1>1. /\ c \in HostSensors /\ c \notin present \cup calling
      /\ UNCHANGED <<present, network, observing, calling, bugcheck>>
  BY DEF Unregistered, netVars
<1>2. /\ DriverTypeOK' /\ Control'
      /\ UNCHANGED <<caller, threadObject, logFile>> /\ mode' = "unloading"
      /\ c \in Up /\ Up' = Up \ {c} /\ Chained(Up) /\ Chained(Up')
  BY <1>1, OneLess DEF Unregistered, DriverInv, DriverTypeOK
<1>3. mode = "unloading"
  BY DEF Unregistered, TakingDown
<1>4. Placed' /\ Awaited' /\ NetworkPlaced'
  BY <1>1, <1>2, <1>3 DEF DriverInv, Placed, Awaited, NetworkPlaced, HostSensors
<1>5. WriterPlaced'
  BY <1>1, <1>2, <1>3 DEF DriverInv, WriterPlaced, HostSensors
<1> QED
  BY <1>2, <1>4, <1>5 DEF DriverInv

LEMMA StopWriterInv == DriverInv /\ StopWriter => DriverInv'
<1> SUFFICES ASSUME DriverInv, StopWriter PROVE DriverInv'
  OBVIOUS
<1>1. TakingDown("log writer") /\ Stop /\ UNCHANGED driverVars
  BY DEF StopWriter
<1>2. Control'
  BY <1>1, StopControl DEF DriverInv
<1>3. mode = "unloading" /\ "log writer" \in Up /\ "process" \notin Up /\ "event queue" \in Up
  BY <1>1, LastUp DEF DriverInv, Chained
<1>4. UNCHANGED <<mode, up, present, network, observing, calling, bugcheck>> /\ Up' = Up
  BY <1>1 DEF driverVars, netVars, Up
<1>5. DriverTypeOK'
  BY <1>2, <1>4 DEF DriverInv, DriverTypeOK, Control
<1>6. Placed' /\ Awaited' /\ NetworkPlaced'
  BY <1>4 DEF DriverInv, Placed, Awaited, NetworkPlaced
<1>7. caller' \in {"join", "stopped"}
  BY <1>1 DEF Stop, RequestStop, JoinThread, CallerGoto
<1>8. WriterPlaced'
  BY <1>3, <1>4, <1>7 DEF WriterPlaced
<1> QED
  BY <1>2, <1>5, <1>6, <1>8 DEF DriverInv

LEMMA WriterStoppedInv == DriverInv /\ WriterStopped => DriverInv'
<1> SUFFICES ASSUME DriverInv, WriterStopped PROVE DriverInv'
  OBVIOUS
<1>1. UNCHANGED <<present, network, observing, calling, bugcheck>> /\ caller = "stopped"
  BY DEF WriterStopped, netVars
<1>2. /\ DriverTypeOK' /\ Control'
      /\ UNCHANGED <<caller, threadObject, logFile>> /\ mode' = "unloading"
      /\ Up' = Up \ {"log writer"} /\ Chained(Up) /\ Chained(Up')
  BY <1>1, OneLess DEF WriterStopped, DriverInv, DriverTypeOK
<1>3. mode = "unloading"
  BY DEF WriterStopped, TakingDown
<1>4. Placed' /\ Awaited' /\ NetworkPlaced'
  BY <1>1, <1>2, <1>3 DEF DriverInv, Placed, Awaited, NetworkPlaced, HostSensors
<1>5. WriterPlaced'
  BY <1>1, <1>2, <1>3 DEF DriverInv, WriterPlaced, Chained
<1> QED
  BY <1>2, <1>4, <1>5 DEF DriverInv

LEMMA StopNetworkInv == DriverInv /\ StopNetwork => DriverInv'
<1> SUFFICES ASSUME DriverInv, StopNetwork PROVE DriverInv'
  OBVIOUS
<1>1. /\ network' = "absent" /\ observing = {} /\ calling \cap NetworkSensors = {}
      /\ UNCHANGED <<present, observing, calling, bugcheck>>
  BY DEF StopNetwork, Net!End
<1>2. /\ DriverTypeOK' /\ Control'
      /\ UNCHANGED <<caller, threadObject, logFile>> /\ mode' = "unloading"
      /\ Up' = Up \ {"network"} /\ Chained(Up) /\ Chained(Up')
  BY <1>1, OneLess DEF StopNetwork, DriverInv, DriverTypeOK
<1>3. mode = "unloading"
  BY DEF StopNetwork, TakingDown
<1>4. Placed' /\ Awaited' /\ NetworkPlaced'
  BY <1>1, <1>2, <1>3 DEF DriverInv, Placed, Awaited, NetworkPlaced, Chained, HostSensors
<1>5. WriterPlaced'
  BY <1>1, <1>2, <1>3 DEF DriverInv, WriterPlaced, Chained
<1> QED
  BY <1>2, <1>4, <1>5 DEF DriverInv

LEMMA UnloadReturnsInv == DriverInv /\ UnloadReturns => DriverInv'
<1> SUFFICES ASSUME DriverInv, UnloadReturns PROVE DriverInv'
  OBVIOUS
<1>1. /\ mode = "unloading" /\ mode' = "unloaded"
      /\ present' = present \ {"event queue"}
      /\ UNCHANGED <<writerVars, up, network, observing, calling, bugcheck>>
  BY DEF UnloadReturns, netVars
<1>2. /\ Control' /\ WriterTypeOK' /\ Up' = Up /\ Chained(Up)
      /\ UNCHANGED <<caller, threadObject, logFile>>
  BY <1>1, Standing
<1>3. Up = {}
  <2>1. up = 0
    BY DEF UnloadReturns
  <2> QED
    BY <2>1, UpIsChained DEF Up
<1>4. DriverTypeOK'
  BY <1>1, <1>2 DEF DriverInv, DriverTypeOK
<1>5. Placed' /\ Awaited' /\ NetworkPlaced'
  BY <1>1, <1>2, <1>3 DEF DriverInv, Placed, Awaited, NetworkPlaced
<1>6. WriterPlaced'
  BY <1>1, <1>2, <1>3 DEF DriverInv, WriterPlaced
<1> QED
  BY <1>2, <1>4, <1>5, <1>6 DEF DriverInv

-----------------------------------------------------------------------------
(* The callbacks and the writer thread.                                    *)

LEMMA CallInv ==
  ASSUME DriverInv, NEW k \in Contents, BeginCall(k) \/ PushCrashes(k)
  PROVE  DriverInv'
<1>1. /\ UNCHANGED <<writerVars, mode, up, present, network, observing>>
      /\ bugcheck' \in BOOLEAN
      /\ calling' = calling \/ (k \in present \cup observing /\ calling' = calling \cup {k})
  BY DEF BeginCall, PushCrashes, netVars, DriverInv, DriverTypeOK
<1>2. /\ Control' /\ WriterTypeOK' /\ Up' = Up /\ Chained(Up)
      /\ UNCHANGED <<caller, threadObject, logFile>>
  BY <1>1, Standing
<1>3. DriverTypeOK'
  BY <1>1, <1>2 DEF DriverInv, DriverTypeOK
<1>4. Placed' /\ WriterPlaced'
  BY <1>1, <1>2 DEF DriverInv, Placed, WriterPlaced
<1>5. Awaited'
  BY <1>1, <1>2 DEF DriverInv, DriverTypeOK, Awaited, HostSensors, NetworkSensors
<1>6. NetworkPlaced'
  BY <1>1, <1>2 DEF DriverInv, DriverTypeOK, NetworkPlaced, Objects, HostSensors, NetworkSensors
<1> QED
  BY <1>2, <1>3, <1>4, <1>5, <1>6 DEF DriverInv

LEMMA MovesInv ==
  ASSUME DriverInv, WriterRuns \/ \E k \in Contents : EndCall(k)
  PROVE  DriverInv'
<1>1. /\ UNCHANGED <<mode, up, present, network, observing, bugcheck>>
      /\ calling' \subseteq calling
      /\ UNCHANGED <<caller, threadObject, logFile>>
      /\ WriterStep \/ WriterPush
  BY DEF WriterRuns, EndCall, driverVars, netVars, WriterStep, ThreadMoves, WriteLogged,
         WriteLost, WriterPush, AcceptEvent, DropEvent, handles
<1>2. Control' /\ Up' = Up
  BY <1>1, StepControl, PushControl DEF DriverInv, Up
<1>3. DriverTypeOK'
  BY <1>1, <1>2 DEF DriverInv, DriverTypeOK, Control
<1>4. Placed' /\ Awaited' /\ NetworkPlaced' /\ WriterPlaced'
  BY <1>1, <1>2 DEF DriverInv, Placed, Awaited, NetworkPlaced, WriterPlaced
<1> QED
  BY <1>2, <1>3, <1>4 DEF DriverInv

LEMMA DriverUnchangedInv == DriverInv /\ UNCHANGED allVars => DriverInv'
<1> SUFFICES ASSUME DriverInv, UNCHANGED allVars PROVE DriverInv'
  OBVIOUS
<1>1. UNCHANGED <<writerVars, mode, up, present, network, observing, calling, bugcheck>>
  BY DEF allVars, driverVars, netVars
<1>2. /\ Control' /\ WriterTypeOK' /\ Up' = Up
      /\ UNCHANGED <<caller, threadObject, logFile>>
  BY <1>1, Standing
<1> QED
  BY <1>1, <1>2
     DEF DriverInv, DriverTypeOK, Placed, Awaited, NetworkPlaced, WriterPlaced

LEMMA DriverInvAlways == DriverSpec => []DriverInv
<1>1. ASSUME DriverInv, [DriverNext]_allVars PROVE DriverInv'
  <2>1. ASSUME DriverEntry PROVE DriverInv'
    BY <1>1, <2>1, SetUpInv, SetUpQueueInv, ModeInv, StartNetworkInv, ObservingInv, StartWriterInv,
       WriterStartedInv DEF DriverEntry
  <2>2. ASSUME DriverUnload PROVE DriverInv'
    BY <1>1, <2>2, TakeDownInv, UnregisterInv, UnregisteredInv, StopWriterInv, WriterStoppedInv,
       DestroyQueueInv, ObservingInv, StopNetworkInv, UnloadReturnsInv DEF DriverUnload
  <2>3. ASSUME NEW k \in Contents, BeginCall(k) \/ CallEnds(k) PROVE DriverInv'
    BY <1>1, <2>3, CallInv, MovesInv DEF CallEnds
  <2> QED
    BY <1>1, <2>1, <2>2, <2>3, LoadInv, ModeInv, MovesInv, DriverUnchangedInv DEF DriverNext
<1> QED
  BY <1>1, InitDriver, PTL DEF DriverSpec

-----------------------------------------------------------------------------
(* The composition is well typed: setting up and taking down never leave   *)
(* the list of the components, whatever fails.                             *)
THEOREM DriverTypeCorrect == DriverSpec => []DriverTypeOK
<1>1. DriverInv => DriverTypeOK
  BY DEF DriverInv
<1> QED
  BY <1>1, DriverInvAlways, PTL

(* Every callback in progress has what it depends on, whatever it races    *)
(* with: teardown waits for it before it takes down what it stands on.     *)
THEOREM CallsAreSupported == DriverSpec => []CallsHaveTheirSupport
<1>1. ASSUME DriverInv PROVE CallsHaveTheirSupport
  <2>1. Chained(Up)
    BY <1>1, UpChained DEF DriverInv
  <2>2. ASSUME calling \cap HostSensors # {} PROVE "process" \in Up
    BY <1>1, <2>1, <2>2 DEF DriverInv, Awaited, Chained, HostSensors
  <2>3. calling \cap HostSensors # {} => caller = "running" /\ "event queue" \in present
    BY <1>1, <2>1, <2>2 DEF DriverInv, WriterPlaced, Placed, Chained
  <2>4. calling \cap NetworkSensors # {} => "device" \in present /\ network # "absent"
    BY <1>1, <2>1 DEF DriverInv, NetworkPlaced, Placed, Chained
  <2> QED
    BY <2>3, <2>4 DEF CallsHaveTheirSupport
<1> QED
  BY <1>1, DriverInvAlways, PTL

(* Wherever a load failed and whenever an unload began, nothing is left.   *)
THEOREM NothingIsLeft == DriverSpec => []NothingLeft
<1>1. ASSUME DriverInv, mode = "unloaded"
      PROVE  /\ present = {} /\ network = "absent" /\ observing = {} /\ calling = {}
             /\ ~ threadObject /\ ~ logFile
             /\ Running => caller = "failed"
  <2>1. Up = {} /\ "event queue" \notin present
    BY <1>1 DEF DriverInv, Placed
  <2>2. \A c \in HostSensors : c \notin present /\ c \notin calling
    BY <1>1, <2>1 DEF DriverInv, Awaited
  <2>3. present = {}
    BY <1>1, <2>1, <2>2 DEF DriverInv, DriverTypeOK, Placed, Objects
  <2>4. network = "absent" /\ observing = {} /\ calling \cap NetworkSensors = {}
    BY <1>1, <2>1 DEF DriverInv, NetworkPlaced
  <2>5. calling = {}
    BY <1>1, <2>2, <2>4, ContentsAssumption DEF DriverInv, DriverTypeOK, Sensors
  <2>6. caller \in {"unstarted", "failed", "stopped"}
    BY <1>1, <2>1 DEF DriverInv, WriterPlaced, Control, WriterTypeOK, CallerPoints
  <2>7. ~ threadObject /\ ~ logFile
    BY <1>1, <2>6 DEF DriverInv, WriterPlaced, Control, Lifecycle
  <2>8. Running => caller = "failed"
    BY <1>1, <2>6 DEF DriverInv, Control, Lifecycle, Running
  <2> QED
    BY <2>3, <2>4, <2>5, <2>7, <2>8
<1>2. DriverInv => NothingLeft
  BY <1>1 DEF NothingLeft
<1> QED
  BY <1>2, DriverInvAlways, PTL

-----------------------------------------------------------------------------
(* The log writer within the driver.                                       *)

\* Within a load the queue stays once it is there, a driver that is loaded has
\* it, and Start and Stop find it.
LEMMA QueueFirst ==
  ASSUME DriverInv, [DriverNext]_allVars, ~ Load
  PROVE  /\ "event queue" \in present => "event queue" \in present' \/ mode' = "unloaded"
         /\ mode' = "loaded" => mode = "loaded" \/ "event queue" \in present'
         /\ caller' # caller => "event queue" \in present'
         /\ mode' # "unloaded" => mode # "unloaded"
<1> DEFINE Q == /\ "event queue" \in present => "event queue" \in present' \/ mode' = "unloaded"
                /\ mode' = "loaded" => mode = "loaded" \/ "event queue" \in present'
                /\ caller' # caller => "event queue" \in present'
                /\ mode' # "unloaded" => mode # "unloaded"
<1>1. ASSUME SetUpQueue \/ \E c \in Objects : SetUp(c) \/ SetUpFails(c) PROVE Q
  BY <1>1 DEF SetUpQueue, SetUp, SetUpFails, SettingUp, writerVars
<1>2. ASSUME StartNetwork \/ StartNetworkFails \/ \E d \in NetworkSensors : StartObserving(d)
      PROVE  Q
  BY <1>2 DEF StartNetwork, StartNetworkFails, StartObserving, SettingUp, writerVars
<1>3. ASSUME StartWriter PROVE Q
  <2>1. "event queue" \in Up /\ mode = "loading"
    BY <1>3, NextUp DEF StartWriter, DriverInv, Chained
  <2>2. "event queue" \in present
    BY <2>1 DEF DriverInv, Placed
  <2> QED
    BY <1>3, <2>1, <2>2 DEF StartWriter, driverVars
<1>4. ASSUME WriterStarted PROVE Q
  BY <1>4 DEF WriterStarted, SettingUp, writerVars
<1>5. ASSUME EntryReturns PROVE Q
  <2>1. "registry" \in Up /\ Chained(Up)
    BY <1>5, EightComponents, UpIsChained, UpChained DEF EntryReturns, Up, DriverInv
  <2>2. "event queue" \in present
    BY <2>1 DEF Chained, DriverInv, Placed
  <2> QED
    BY <1>5, <2>2 DEF EntryReturns, writerVars
<1>6. ASSUME NEW c \in Objects, TakeDown(c) \/ Unregister(c) \/ Unregistered(c) PROVE Q
  BY <1>6 DEF TakeDown, Unregister, Unregistered, TakingDown, HostSensors, writerVars
<1>7. ASSUME StopWriter PROVE Q
  <2>1. "event queue" \in Up /\ mode = "unloading"
    BY <1>7, LastUp DEF StopWriter, DriverInv, Chained
  <2>2. "event queue" \in present
    BY <2>1 DEF DriverInv, Placed
  <2> QED
    BY <1>7, <2>1, <2>2 DEF StopWriter, driverVars
<1>8. ASSUME WriterStopped \/ DestroyQueue \/ StopObserving \/ StopNetwork \/ UnloadReturns
      PROVE  Q
  BY <1>8 DEF WriterStopped, DestroyQueue, StopObserving, StopNetwork, UnloadReturns,
              TakingDown, writerVars
<1>9. ASSUME BeginUnload PROVE Q
  BY <1>9 DEF BeginUnload, writerVars
<1>10. ASSUME NEW k \in Contents, BeginCall(k) \/ CallEnds(k) PROVE Q
  BY <1>10 DEF BeginCall, CallEnds, PushCrashes, EndCall, AcceptEvent, DropEvent, writerVars
<1>11. ASSUME WriterRuns PROVE Q
  BY <1>11 DEF WriterRuns, WriterStep, ThreadMoves, WriteLogged, WriteLost, driverVars
<1>12. ASSUME UNCHANGED allVars PROVE Q
  BY <1>12 DEF allVars, driverVars, writerVars
<1> HIDE DEF Q
<1>13. ASSUME DriverEntry PROVE Q
  BY <1>1, <1>2, <1>3, <1>4, <1>5, <1>13 DEF DriverEntry
<1>14. ASSUME DriverUnload PROVE Q
  BY <1>6, <1>7, <1>8, <1>14 DEF DriverUnload
<1>15. Q
  BY <1>9, <1>10, <1>11, <1>12, <1>13, <1>14 DEF DriverNext
<1> QED
  BY <1>15 DEF Q

\* A load starts with a writer as it is initially, and what happens then is
\* its work, or not its business, but for the initialisation of its queue.
LEMMA DriverStepOfWriter ==
  ASSUME [DriverNext]_allVars
  PROVE  (Load /\ WriterInit') \/ SetUpQueue \/ [WriterNext]_writerVars
<1>1. ASSUME Load PROVE WriterInit'
  BY <1>1 DEF Load, WriterInit, ThreadInit, FifoInit
<1>2. ASSUME DriverEntry PROVE SetUpQueue \/ [WriterNext]_writerVars
  BY <1>2
     DEF DriverEntry, SetUp, SetUpFails, StartNetwork, StartNetworkFails, StartObserving,
         StartWriter, WriterStarted, EntryReturns, WriterNext
<1>3. ASSUME DriverUnload PROVE [WriterNext]_writerVars
  BY <1>3
     DEF DriverUnload, TakeDown, Unregister, Unregistered, StopWriter, WriterStopped,
         DestroyQueue, StopObserving, StopNetwork, UnloadReturns, WriterNext
<1>4. ASSUME NEW k \in Contents, BeginCall(k) \/ CallEnds(k) PROVE [WriterNext]_writerVars
  BY <1>4 DEF BeginCall, CallEnds, PushCrashes, EndCall, WriterNext, WriterPush
<1>5. ASSUME BeginUnload \/ WriterRuns PROVE [WriterNext]_writerVars
  BY <1>5 DEF BeginUnload, WriterRuns, WriterNext
<1>6. ASSUME UNCHANGED allVars PROVE UNCHANGED writerVars
  BY <1>6 DEF allVars
<1> QED
  BY <1>1, <1>2, <1>3, <1>4, <1>5, <1>6 DEF DriverNext

\* Until its queue is set up, the writer of a load is as it was initially.
FreshWriter == "event queue" \notin present /\ mode # "unloaded" => WriterInit

LEMMA StaysFresh ==
  ASSUME DriverInv, FreshWriter, [DriverNext]_allVars
  PROVE  FreshWriter'
<1> SUFFICES ASSUME "event queue" \notin present', mode' # "unloaded", ~ Load
             PROVE  WriterInit'
  BY DEF FreshWriter, Load, WriterInit, ThreadInit, FifoInit
<1>1. /\ "event queue" \notin present /\ mode # "unloaded"
      /\ caller' = caller
  BY QueueFirst
<1>2. WriterInit /\ thread = "none" /\ caller = "unstarted"
  BY <1>1 DEF FreshWriter, WriterInit, ThreadInit
<1>3. ~ SetUpQueue /\ ~ WriterRuns /\ ~ \E k \in Contents : EndCall(k)
  <2>1. ~ SetUpQueue
    BY DEF SetUpQueue
  <2>2. ~ WriterRuns
    BY <1>2 DEF WriterRuns, WriterStep, ThreadMoves, WaitStep, SeeStop, SeeWake, Block,
                PopToWrite, PopToWait, WriteLogged, WriteLost, WriteReturns
  <2>3. ~ \E k \in Contents : EndCall(k)
    BY <1>1 DEF EndCall
  <2> QED
    BY <2>1, <2>2, <2>3
<1>4. ~ StartWriter /\ ~ StopWriter
  BY <1>1 DEF StartWriter, StopWriter, Start, Stop, OpenFile, OpenFileFails, StartThread,
       StartThreadFails, ReferenceThread, ReferenceThreadFails, RequestStop, JoinThread,
       CallerGoto
<1>5. UNCHANGED writerVars
  <2>1. ASSUME DriverEntry PROVE UNCHANGED writerVars
    BY <1>3, <1>4, <2>1
       DEF DriverEntry, SetUp, SetUpFails, StartNetwork, StartNetworkFails,
           StartObserving, WriterStarted, EntryReturns
  <2>2. ASSUME DriverUnload PROVE UNCHANGED writerVars
    BY <1>4, <2>2
       DEF DriverUnload, TakeDown, Unregister, Unregistered, WriterStopped,
           DestroyQueue, StopObserving, StopNetwork, UnloadReturns
  <2>3. ASSUME NEW k \in Contents, BeginCall(k) \/ PushCrashes(k) PROVE UNCHANGED writerVars
    BY <2>3 DEF BeginCall, PushCrashes
  <2>4. ASSUME BeginUnload PROVE UNCHANGED writerVars
    BY <2>4 DEF BeginUnload
  <2> QED
    BY <1>3, <2>1, <2>2, <2>3, <2>4 DEF DriverNext, CallEnds, allVars
<1> QED
  BY <1>2, <1>5
     DEF WriterInit, ThreadInit, FifoInit, writerVars, threadVars, handles, history

\* What a driver's writer keeps: the invariants of the writer and of its thread.
WriterInDriver == WriterInv /\ LinesAreSettled /\ ThreadInv

\* A fresh queue is initialised as it is: only a wakeup for nothing may be new.
LEMMA SetUpQueueFresh ==
  ASSUME DriverInv', WriterInit, WriterInDriver, SetUpQueue
  PROVE  WriterInDriver'
<1>1. /\ UNCHANGED <<fifo, nextId, accepted, log, lost, thread, out>>
      /\ fifo' = <<>>
  BY DEF WriterInit, ThreadInit, FifoInit, SetUpQueue, history
<1>2. History'
  BY <1>1, HistoryFrame DEF WriterInDriver, WriterInv
<1>3. LinesAreSettled'
  BY <1>1 DEF WriterInDriver, LinesAreSettled, Settled, Popped
<1>4. ThreadInv'
  BY <1>1 DEF DriverInv, Control, WriterTypeOK, ThreadInv, NoLostWakeup
<1> QED
  BY <1>2, <1>3, <1>4 DEF WriterInDriver, WriterInv, DriverInv

\* Every step of the driver sets the writer up, is a step of the writer or
\* leaves it alone.
LEMMA WriterInDriverAlways == DriverSpec => []WriterInDriver
<1>1. WriterInit => WriterInDriver
  BY InitControl, InitHistory, InitLines, InitThreadInv DEF WriterInDriver, WriterInv, WriterInit
<1>2. WriterInDriver /\ [WriterNext]_writerVars => WriterInDriver'
  <2> SUFFICES ASSUME WriterInDriver, [WriterNext]_writerVars PROVE WriterInDriver'
    OBVIOUS
  <2>1. [ThreadNext]_threadVars
    BY WriterStepOfThread DEF WriterInDriver, ThreadInv
  <2>2. ThreadInv'
    BY <2>1, NextThreadInv DEF WriterInDriver
  <2> QED
    BY <2>2, NextControl, NextHistory, NextLines DEF WriterInDriver, WriterInv
<1>3. WriterInit' => WriterInDriver'
  BY <1>1, PTL
<1>4. ASSUME DriverInv, DriverInv', FreshWriter, WriterInDriver, SetUpQueue
      PROVE  WriterInDriver'
  <2>1. mode = "loading" /\ "event queue" \notin Up
    BY <1>4, NextUp DEF SetUpQueue, DriverInv
  <2>2. WriterInit
    BY <1>4, <2>1 DEF DriverInv, Placed, FreshWriter
  <2> QED
    BY <1>4, <2>2, SetUpQueueFresh
<1>5. DriverInv /\ DriverInv' /\ FreshWriter /\ WriterInDriver /\ [DriverNext]_allVars
        => WriterInDriver'
  BY <1>2, <1>3, <1>4, DriverStepOfWriter
<1>6. DriverInit => FreshWriter
  BY DEF DriverInit, FreshWriter
<1>7. DriverInv /\ FreshWriter /\ [DriverNext]_allVars => FreshWriter'
  BY StaysFresh
<1> QED
  BY <1>1, <1>5, <1>6, <1>7, DriverInvAlways, PTL DEF DriverSpec, DriverInit

(* Of the events that the callbacks of one load push, whenever they start  *)
(* and stop and wherever the load fails, each is in one place, the log     *)
(* shows which are missing before its end, and what a log without failed   *)
(* writes lacks is its end.                                                *)
THEOREM TimelineOfLoad == DriverSpec => [](Accounting /\ GapsAreLosses /\ LogIsPrefix)
<1>1. WriterInDriver => Accounting /\ GapsAreLosses /\ LogIsPrefix
  BY InvAccounting, InvGaps, LinesPrefix DEF WriterInDriver, WriterInv
<1> QED
  BY <1>1, WriterInDriverAlways, PTL

(* No wakeup is lost between real callbacks and the writer thread, either, *)
(* although they push before the thread exists and after it has gone; and  *)
(* a stopped writer leaves nothing behind, in the driver too.              *)
THEOREM WriterOfLoad == DriverSpec => [](NoLostWakeup /\ CleanLifecycle)
<1>1. WriterInDriver => NoLostWakeup /\ CleanLifecycle
  BY DEF WriterInDriver, WriterInv, ThreadInv, Control, Lifecycle, CleanLifecycle, Running
<1> QED
  BY <1>1, WriterInDriverAlways, PTL

-----------------------------------------------------------------------------
(* The network sensor within the driver.                                   *)

(* The driver uses the network sensor as NetworkSensor allows: it starts   *)
(* it once and ends it once per load, after a failed start too.  Wfp.tla   *)
(* implements the same contract, which is what joins the two modules.      *)
THEOREM DriverUsesSensor == DriverSpec => Net!NetSpec
<1>1. DriverInit => Net!NetInit
  BY DEF DriverInit
<1>2. [DriverNext]_allVars => [Net!NetNext]_(Net!netVars)
  <2>1. ASSUME Load \/ BeginUnload \/ WriterRuns PROVE UNCHANGED netVars
    BY <2>1 DEF Load, BeginUnload, WriterRuns, driverVars, netVars
  <2>2. ASSUME DriverEntry PROVE [Net!NetNext]_(Net!netVars)
    BY <2>2
       DEF DriverEntry, SetUpQueue, SetUp, SetUpFails, StartNetwork, StartNetworkFails, StartObserving,
           StartWriter, WriterStarted, EntryReturns, driverVars, netVars,
           Net!NetNext, Net!netVars
  <2>3. ASSUME DriverUnload PROVE [Net!NetNext]_(Net!netVars)
    BY <2>3
       DEF DriverUnload, TakeDown, Unregister, Unregistered, StopWriter, WriterStopped,
           DestroyQueue, StopObserving, StopNetwork, UnloadReturns, driverVars, netVars,
           Net!NetNext, Net!netVars
  <2>4. ASSUME NEW k \in Contents, BeginCall(k) \/ CallEnds(k) PROVE UNCHANGED netVars
    BY <2>4 DEF BeginCall, CallEnds, PushCrashes, EndCall
  <2>5. ASSUME UNCHANGED allVars PROVE UNCHANGED netVars
    BY <2>5 DEF allVars, driverVars
  <2> QED
    BY <2>1, <2>2, <2>3, <2>4, <2>5 DEF DriverNext, netVars, Net!netVars
<1> QED
  BY <1>1, <1>2, PTL DEF DriverSpec, Net!NetSpec

-----------------------------------------------------------------------------
(* What remains of the claims that the code does not keep.                 *)

\* ProducersGoFirst, restricted to the sensors of which it is true.
HostProducersGoFirst ==
  mode = "unloading" /\ caller \in {"join", "stopped"} =>
    (present \cup calling) \cap HostSensors = {}

\* Where a crash finds the driver.
CrashesOnlyEarly ==
  bugcheck =>
    /\ mode \in {"loading", "unloading"}
    /\ "event queue" \notin present /\ caller = "unstarted" /\ thread = "none"
    /\ calling # {} /\ calling \subseteq NetworkSensors

(* Of the producers, those of the host do go first: no process, image or   *)
(* registry callback is registered or in progress once the writer is told  *)
(* to stop.                                                                *)
THEOREM HostGoesFirst == DriverSpec => []HostProducersGoFirst
<1>1. ASSUME DriverInv PROVE HostProducersGoFirst
  <2> SUFFICES ASSUME caller \in {"join", "stopped"}, NEW c \in HostSensors,
                      c \in present \cup calling
               PROVE  FALSE
    BY DEF HostProducersGoFirst
  <2>1. c \in Up /\ Chained(Up)
    BY <1>1, UpChained DEF DriverInv, Awaited
  <2>2. "process" \in Up
    BY <2>1 DEF Chained, HostSensors
  <2> QED
    BY <1>1, <2>2 DEF DriverInv, WriterPlaced
<1> QED
  BY <1>1, DriverInvAlways, PTL

\* Before its queue is set up, a load has not come to its writer.
EarlyInv ==
  /\ mode = "loaded" => "event queue" \in present
  /\ "event queue" \notin present /\ mode # "unloaded" => caller = "unstarted"
  /\ CrashesOnlyEarly

\* The callback whose push crashes is one of the network's.
LEMMA CrashEarly ==
  ASSUME DriverInv, EarlyInv, NEW k \in Contents, PushCrashes(k)
  PROVE  CrashesOnlyEarly'
<1>1. /\ "event queue" \notin present /\ k \in calling
      /\ UNCHANGED <<writerVars, mode, present, calling>>
  BY DEF PushCrashes
<1>2. "event queue" \notin Up /\ Chained(Up)
  BY <1>1, UpChained DEF DriverInv, Placed
<1>3. \A c \in HostSensors : c \notin calling
  BY <1>2 DEF DriverInv, Awaited, Chained, HostSensors
<1>4. calling \subseteq NetworkSensors /\ k \in NetworkSensors
  BY <1>1, <1>3, ContentsAssumption DEF DriverInv, DriverTypeOK, Sensors
<1>5. network # "absent"
  BY <1>1, <1>4 DEF DriverInv, NetworkPlaced
<1>6. mode # "unloaded" /\ mode # "loaded"
  BY <1>1, <1>5 DEF DriverInv, NetworkPlaced, Placed, EarlyInv
<1>7. caller = "unstarted" /\ thread = "none"
  BY <1>1, <1>6 DEF EarlyInv, DriverInv, Control, Lifecycle
<1>8. mode \in {"loading", "unloading"}
  BY <1>6 DEF DriverInv, DriverTypeOK
<1>9. UNCHANGED <<mode, present, calling, caller, thread>>
  BY <1>1 DEF writerVars, threadVars
<1> QED
  BY <1>1, <1>4, <1>7, <1>8, <1>9 DEF CrashesOnlyEarly

LEMMA EarlyInvAlways == DriverSpec => []EarlyInv
<1>1. DriverInit => EarlyInv
  BY DEF DriverInit, EarlyInv, CrashesOnlyEarly
<1>2. ASSUME DriverInv, EarlyInv, [DriverNext]_allVars PROVE EarlyInv'
  <2>1. CrashesOnlyEarly'
    <3>1. CASE UNCHANGED allVars
      BY <1>2, <3>1 DEF EarlyInv, CrashesOnlyEarly, allVars, driverVars, writerVars, threadVars
    <3>2. CASE DriverNext /\ \E k \in Contents : PushCrashes(k)
      BY <1>2, <3>2, CrashEarly
    <3>3. CASE DriverNext /\ ~ \E k \in Contents : PushCrashes(k)
      <4>1. ~ bugcheck
        BY <3>3 DEF DriverNext
      <4>2. bugcheck' = bugcheck
        <5>1. ASSUME DriverEntry PROVE bugcheck' = bugcheck
          BY <5>1
             DEF DriverEntry, SetUpQueue, SetUp, SetUpFails, StartNetwork, StartNetworkFails,
                 StartObserving, StartWriter, WriterStarted, EntryReturns, driverVars
        <5>2. ASSUME DriverUnload PROVE bugcheck' = bugcheck
          BY <5>2
             DEF DriverUnload, TakeDown, Unregister, Unregistered, StopWriter,
                 WriterStopped, DestroyQueue, StopObserving, StopNetwork, UnloadReturns,
                 driverVars
        <5>3. ASSUME Load \/ BeginUnload \/ WriterRuns PROVE bugcheck' = bugcheck
          BY <5>3 DEF Load, BeginUnload, WriterRuns, driverVars
        <5>4. ASSUME NEW k \in Contents, BeginCall(k) \/ EndCall(k)
              PROVE  bugcheck' = bugcheck
          BY <5>4 DEF BeginCall, EndCall
        <5> QED
          BY <3>3, <5>1, <5>2, <5>3, <5>4 DEF DriverNext, CallEnds
      <4> QED
        BY <4>1, <4>2 DEF CrashesOnlyEarly
    <3> QED
      BY <1>2, <3>1, <3>2, <3>3
  <2>2. CASE Load
    BY <2>1, <2>2 DEF Load, EarlyInv
  <2>3. CASE ~ Load
    BY <1>2, <2>1, <2>3, QueueFirst DEF EarlyInv
  <2> QED
    BY <2>2, <2>3
<1>3. DriverInv /\ EarlyInv /\ [DriverNext]_allVars => EarlyInv'
  BY <1>2
<1> QED
  BY <1>1, <1>3, DriverInvAlways, PTL DEF DriverSpec

(* A push crashes only in a network callback, and only in the part of a    *)
(* load, or of the way back from it, in which the queue and the writer     *)
(* have not been set up: never in a loaded driver or in a regular unload.  *)
THEOREM CrashIsEarly == DriverSpec => []CrashesOnlyEarly
<1>1. EarlyInv => CrashesOnlyEarly
  BY DEF EarlyInv
<1> QED
  BY <1>1, EarlyInvAlways, PTL
=============================================================================
