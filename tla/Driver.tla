------------------------------- MODULE Driver -------------------------------
(***************************************************************************)
(* driver/src/driver_entry.c and device.c: DriverEntry sets the components *)
(* of the driver up one after the other, DriverUnload and the failure      *)
(* cascade of DriverEntry take them down again, while the callbacks that   *)
(* are registered at that moment push into the queue and the log writer of *)
(* LogWriter.tla drains it.  The WFP session and its callouts are what     *)
(* NetworkSensor.tla promises and Wfp.tla implements.  Loading, unloading  *)
(* and failed loads repeat without end.                                    *)
(***************************************************************************)
EXTENDS LogWriter, FiniteSets

\* The order in which DriverEntry sets up; teardown goes the other way.  The
\* device object and its symbolic link are the work of KdaMonCreateDevice.
Components == <<"device", "link", "network", "event queue", "log writer",
                "process", "image", "registry">>

\* What observes activity; Contents are those that see some in a run.
NetworkSensors == {"outbound", "inbound"}
HostSensors == {"process", "image", "registry"}
Sensors == NetworkSensors \cup HostSensors

\* What exists from its own setup to its own teardown.
Objects == {"device", "link", "event queue"} \cup HostSensors

ASSUME ContentsAssumption == Contents \subseteq Sensors

VARIABLES
  mode,        \* "unloaded", "loading", "loaded" or "unloading"
  up,          \* how many components are being set up, set up or taken down
  present,     \* the objects and registrations that exist
  network,     \* the phase of the WFP session and its callouts
  observing,   \* the directions whose connections reach a classify function
  calling,     \* the sensors with a callback in progress
  bugcheck     \* the system has crashed, or a push has torn the ring

netVars == <<network, observing>>
driverVars == <<mode, up, present, netVars, calling, bugcheck>>
allVars == <<writerVars, driverVars>>

Net == INSTANCE NetworkSensor WITH Directions <- NetworkSensors, phase <- network

DriverInit ==
  /\ WriterInit
  /\ Net!NetInit
  /\ mode = "unloaded" /\ up = 0
  /\ present = {} /\ calling = {}
  /\ bugcheck = FALSE

-----------------------------------------------------------------------------
(* Loading.                                                                *)

(* A fresh image has all globals zero.  While a thread of a failed load    *)
(* runs, the image stays mapped and cannot be loaded again.                *)
Load ==
  /\ mode = "unloaded" /\ ~ Running
  /\ mode' = "loading"
  /\ fifo' = <<>> /\ nextId' = 0 /\ dropped' = 0 /\ wake' = FALSE
  /\ out' = NoEvent /\ stopEvent' = FALSE /\ thread' = "none"
  /\ caller' = "unstarted"
  /\ threadObject' = FALSE /\ logFile' = FALSE /\ threadHandle' = "none"
  /\ accepted' = <<>> /\ log' = <<>> /\ lost' = {}
  /\ UNCHANGED <<up, present, netVars, calling, bugcheck>>

\* Each step of DriverEntry needs the success of the one before it.
SettingUp(c) ==
  /\ mode = "loading" /\ network # "starting"
  /\ up < Len(Components) /\ Components[up + 1] = c

SetUp(c) ==
  /\ SettingUp(c) /\ c \in Objects \ {"event queue"}
  /\ present' = present \cup {c}
  /\ up' = up + 1
  /\ UNCHANGED <<writerVars, mode, netVars, calling, bugcheck>>

(* KdaMonEventQueueInitialize zeroes the queue and initialises its wake    *)
(* event and lock, which a push of the network can overlap.  One that had  *)
(* stored its event is wiped, and its KeSetEvent, if it finds the event    *)
(* initialised, leaves a wakeup for nothing; what else becomes of such a   *)
(* push is in PushCrashes, or is that of a push before or after.           *)
SetUpQueue ==
  /\ SettingUp("event queue")
  /\ \E wiped \in SUBSET calling :
       /\ calling' = calling \ wiped
       /\ wake' = (wiped # {})
  /\ fifo' = <<>> /\ nextId' = 0 /\ dropped' = 0
  /\ present' = present \cup {"event queue"}
  /\ up' = up + 1
  /\ UNCHANGED <<out, stopEvent, thread, caller, handles, history>>
  /\ UNCHANGED <<mode, netVars, bugcheck>>

\* Faulty: goto the label below the right one.
SetUpFailsSkipping(c) ==
  /\ MayFail
  /\ SettingUp(c) /\ c \in Objects \ {"event queue"}
  /\ mode' = "unloading"
  /\ up' = IF up = 0 THEN 0 ELSE up - 1
  /\ UNCHANGED <<writerVars, present, netVars, calling, bugcheck>>

\* goto the label that takes down what is up; without its link the device is
\* deleted again.  The queue's setup cannot fail.
SetUpFails(c) ==
  /\ MayFail
  /\ SettingUp(c) /\ c \in Objects \ {"event queue"}
  /\ mode' = "unloading"
  /\ UNCHANGED <<writerVars, up, present, netVars, calling, bugcheck>>

StartNetwork ==
  /\ SettingUp("network")
  /\ Net!Begin
  /\ up' = up + 1
  /\ UNCHANGED <<writerVars, mode, present, calling, bugcheck>>

StartObserving(d) ==
  /\ mode = "loading"
  /\ Net!Observe(d)
  /\ UNCHANGED <<writerVars, mode, up, present, calling, bugcheck>>

StartNetworkFails ==
  /\ MayFail
  /\ mode = "loading"
  /\ Net!Fail
  /\ mode' = "unloading"
  /\ UNCHANGED <<writerVars, up, present, calling, bugcheck>>

StartWriter ==
  /\ SettingUp("log writer")
  /\ Start
  /\ UNCHANGED driverVars

WriterStarted ==
  /\ SettingUp("log writer")
  /\ \/ caller = "running" /\ up' = up + 1 /\ UNCHANGED mode
     \/ caller = "failed" /\ mode' = "unloading" /\ UNCHANGED up
  /\ UNCHANGED <<writerVars, present, netVars, calling, bugcheck>>

EntryReturns ==
  /\ mode = "loading" /\ up = Len(Components)
  /\ mode' = "loaded"
  /\ UNCHANGED <<writerVars, up, present, netVars, calling, bugcheck>>

DriverEntry ==
  \/ SetUpQueue \/ \E c \in Objects : SetUp(c) \/ SetUpFails(c)
  \/ StartNetwork \/ StartNetworkFails \/ \E d \in NetworkSensors : StartObserving(d)
  \/ StartWriter \/ WriterStarted \/ EntryReturns

-----------------------------------------------------------------------------
(* DriverUnload, and the cascade of DriverEntry, which is a suffix of it.  *)

BeginUnload ==
  /\ mode = "loaded"
  /\ mode' = "unloading"
  /\ UNCHANGED <<writerVars, up, present, netVars, calling, bugcheck>>

TakingDown(c) == mode = "unloading" /\ up > 0 /\ Components[up] = c

\* KdaMonDeleteDevice deletes the link and then the device.
TakeDown(c) ==
  /\ TakingDown(c) /\ c \in {"device", "link"}
  /\ present' = present \ {c}
  /\ up' = up - 1
  /\ UNCHANGED <<writerVars, mode, netVars, calling, bugcheck>>

\* KdaMonEventQueueDestroy does nothing: the queue stays usable.
DestroyQueue ==
  /\ TakingDown("event queue")
  /\ up' = up - 1
  /\ UNCHANGED <<writerVars, mode, present, netVars, calling, bugcheck>>

\* Of the three system calls none can fail here: they refuse only a routine or
\* a cookie that is not registered, and the driver unregisters what it registered.
Unregister(c) ==
  /\ TakingDown(c) /\ c \in HostSensors \cap present
  /\ present' = present \ {c}
  /\ UNCHANGED <<writerVars, mode, up, netVars, calling, bugcheck>>

\* Faulty: does not wait for the calls in progress.
UnregisteredAtOnce(c) ==
  /\ TakingDown(c) /\ c \in HostSensors \ present
  /\ up' = up - 1
  /\ UNCHANGED <<writerVars, mode, present, netVars, calling, bugcheck>>

\* Unregistering a callback returns when its calls in progress have ended: the
\* system calls promise that.
Unregistered(c) ==
  /\ TakingDown(c) /\ c \in HostSensors \ (present \cup calling)
  /\ up' = up - 1
  /\ UNCHANGED <<writerVars, mode, present, netVars, calling, bugcheck>>

StopWriter ==
  /\ TakingDown("log writer")
  /\ Stop
  /\ UNCHANGED driverVars

WriterStopped ==
  /\ TakingDown("log writer")
  /\ caller = "stopped"
  /\ up' = up - 1
  /\ UNCHANGED <<writerVars, mode, present, netVars, calling, bugcheck>>

StopObserving ==
  /\ TakingDown("network")
  /\ Net!Withdraw \/ \E d \in NetworkSensors : Net!Forget(d)
  /\ UNCHANGED <<writerVars, mode, up, present, calling, bugcheck>>

\* Unregistering the callouts waits too; then the session goes.
StopNetwork ==
  /\ TakingDown("network")
  /\ calling \cap NetworkSensors = {}
  /\ Net!End
  /\ up' = up - 1
  /\ UNCHANGED <<writerVars, mode, present, calling, bugcheck>>

\* With the image its queue is gone.
UnloadReturns ==
  /\ mode = "unloading" /\ up = 0
  /\ mode' = "unloaded"
  /\ present' = present \ {"event queue"}
  /\ UNCHANGED <<writerVars, up, netVars, calling, bugcheck>>

DriverUnload ==
  \/ \E c \in Objects : TakeDown(c) \/ Unregister(c) \/ Unregistered(c)
  \/ StopWriter \/ WriterStopped
  \/ DestroyQueue \/ StopObserving \/ StopNetwork \/ UnloadReturns

-----------------------------------------------------------------------------
(* The callbacks.                                                          *)

BeginCall(k) ==
  /\ k \in (present \cup observing) \ calling
  /\ Len(accepted) + Cardinality(calling) < MaxEvents
  /\ calling' = calling \cup {k}
  /\ UNCHANGED <<writerVars, mode, up, present, netVars, bugcheck>>

\* A push that does not wait for KdaMonEventQueueInitialize: KeSetEvent follows
\* the NULL list of the zeroed WakeEvent; or the zeroing and the reset of a lock
\* that is held leave its event in a ring with torn fields.
PushCrashes(k) ==
  /\ k \in calling /\ "event queue" \notin present
  /\ bugcheck' = TRUE
  /\ UNCHANGED <<writerVars, mode, up, present, netVars, calling>>

EndCall(k) ==
  /\ k \in calling /\ "event queue" \in present
  /\ AcceptEvent(k) \/ DropEvent
  /\ calling' = calling \ {k}
  /\ UNCHANGED <<mode, up, present, netVars, bugcheck>>

CallEnds(k) == PushCrashes(k) \/ EndCall(k)

WriterRuns == WriterStep /\ UNCHANGED driverVars

DriverNext ==
  /\ ~ bugcheck
  /\ \/ Load \/ DriverEntry
     \/ BeginUnload \/ DriverUnload
     \/ \E k \in Contents : BeginCall(k) \/ CallEnds(k)
     \/ WriterRuns

(* DriverEntry, DriverUnload, the callbacks and the writer thread run on   *)
(* until they return or block; loads, unloads and activity come as they    *)
(* like.                                                                   *)
DriverFairness ==
  /\ WF_allVars(~ bugcheck /\ DriverEntry)
  /\ WF_allVars(~ bugcheck /\ DriverUnload)
  /\ WF_allVars(~ bugcheck /\ WriterRuns)
  /\ \A k \in Contents : WF_allVars(~ bugcheck /\ CallEnds(k))

DriverSpec == DriverInit /\ [][DriverNext]_allVars /\ DriverFairness

-----------------------------------------------------------------------------
(* Correctness.                                                            *)

DriverTypeOK ==
  /\ WriterTypeOK
  /\ mode \in {"unloaded", "loading", "loaded", "unloading"}
  /\ up \in 0 .. Len(Components)
  /\ present \subseteq Objects
  /\ network \in {"absent", "starting", "present", "stopping"}
  /\ observing \subseteq NetworkSensors
  /\ calling \subseteq Contents
  /\ bugcheck \in BOOLEAN

(* A callback never runs without what it depends on: the process, image    *)
(* and registry callbacks only between a successful Start and Stop of the  *)
(* log writer, the classify functions only while the device object that    *)
(* their callouts were registered with and the WFP session exist.          *)
CallsHaveTheirSupport ==
  /\ calling \cap HostSensors # {} =>
       caller = "running" /\ "event queue" \in present
  /\ calling \cap NetworkSensors # {} => "device" \in present /\ network # "absent"

(* Whether an unload or a failed load brought the driver there, an         *)
(* unloaded driver has no object, registration or call left behind.  Its   *)
(* writer thread is gone too, unless KdaMonLogWriterStart itself failed.   *)
NothingLeft ==
  mode = "unloaded" =>
    /\ present = {} /\ network = "absent" /\ observing = {} /\ calling = {}
    /\ ~ threadObject /\ ~ logFile
    /\ Running => caller = "failed"

(* An unload, or a failed load, comes to its end although it waits for     *)
(* callbacks in progress and for the writer thread, if the network         *)
(* activity that is still observed meanwhile pauses and nothing crashed.   *)
UnloadEnds ==
  <>[][\A k \in NetworkSensors \cap Contents : ~ BeginCall(k)]_allVars =>
    (mode = "unloading" ~> mode = "unloaded" \/ bugcheck)

-----------------------------------------------------------------------------
(* What documents say of the driver and the code does not do.              *)

\* "all event producers (callbacks) are unregistered before the log writer and
\* event queue are torn down"
ProducersGoFirst ==
  mode = "unloading" /\ caller \in {"join", "stopped"} => (present \cup observing) \cap Sensors = {}

\* The callouts are "registered [...] right after the event queue init", so that
\* no push meets a queue that is not initialised.
QueueBeforeProducers == ~ bugcheck

\* A failed DriverEntry does not skip the shutdown of the log writer thread: the
\* CHANGELOG has this of a failed process callback, and here it is Start itself
\* that fails once the thread exists.
FailedLoadStopsThread == mode = "unloaded" => ~ Running

\* The logs are "a full timeline": when no write failed, the process, image and
\* registry events that were accepted have been written when the driver is gone.
TimelineComplete ==
  mode = "unloaded" /\ lost = {} =>
    {e \in Range(accepted) : e.Data \in HostSensors} \subseteq Range(log)
=============================================================================
