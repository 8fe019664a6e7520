----------------------------- MODULE LogWriter -----------------------------
(***************************************************************************)
(* driver/src/log_writer.c: KdaMonLogWriterStart and KdaMonLogWriterStop,  *)
(* the handles they manage, and what KdaMonLogWriterWriteEvent makes of    *)
(* the events that the thread of LogWriterThread.tla pops.                 *)
(*                                                                         *)
(* A run accepts at most MaxEvents events, so that ids do not wrap and     *)
(* name the events; accepted, log and lost are their history.              *)
(***************************************************************************)
EXTENDS LogWriterThread, Functions

CONSTANTS
  MaxEvents,   \* bound on the events accepted in a run
  Oversize,    \* contents whose record does not fit EventBuffer
  MayFail      \* whether system calls may fail

ASSUME MaxEventsAssumption == MaxEvents \in Nat /\ MaxEvents <= UlongMax
ASSUME OversizeAssumption == Oversize \subseteq Contents
ASSUME MayFailAssumption == MayFail \in BOOLEAN

VARIABLES
  caller,         \* where Start or Stop is
  threadObject,   \* g_ThreadObject is not NULL
  logFile,        \* g_LogFileHandle is not NULL
  threadHandle,   \* what Start has done with the handle of the thread
  accepted,       \* every event the queue accepted, in order
  log,            \* the contents of the log file
  lost            \* the popped events that were not written

handles == <<threadObject, logFile, threadHandle>>
history == <<accepted, log, lost>>
writerVars == <<threadVars, caller, handles, history>>

(* "unstarted"  Start has not been called                                  *)
(* "create"     the file is open, about to call IoCreateSystemThread       *)
(* "reference"  about to call ObReferenceObjectByHandle                    *)
(* "running"    Start returned TRUE                                        *)
(* "failed"     Start returned FALSE                                       *)
(* "join"       Stop waits for the thread object                           *)
(* "stopped"    Stop returned                                              *)
CallerPoints ==
  {"unstarted", "create", "reference", "running", "failed", "join", "stopped"}

\* What the kernel does at the second ZwClose of a handle is not modelled.
HandleStates == {"none", "open", "closed", "closed twice"}

WriterInit ==
  /\ ThreadInit
  /\ caller = "unstarted"
  /\ threadObject = FALSE
  /\ logFile = FALSE
  /\ threadHandle = "none"
  /\ accepted = <<>>
  /\ log = <<>>
  /\ lost = {}

CallerGoto(from, to) ==
  /\ caller = from
  /\ caller' = to

-----------------------------------------------------------------------------
(* KdaMonLogWriterStart.                                                   *)

OpenFile ==
  /\ CallerGoto("unstarted", "create")
  /\ logFile' = TRUE
  /\ UNCHANGED <<threadVars, threadObject, threadHandle, history>>

OpenFileFails ==
  /\ MayFail
  /\ CallerGoto("unstarted", "failed")
  /\ UNCHANGED <<threadVars, handles, history>>

StartThread ==
  /\ CallerGoto("create", "reference")
  /\ CreateThread
  /\ threadHandle' = "open"
  /\ UNCHANGED <<threadObject, logFile, history>>

StartThreadFails ==
  /\ MayFail
  /\ CallerGoto("create", "failed")
  /\ logFile' = FALSE
  /\ UNCHANGED <<threadVars, threadObject, threadHandle, history>>

ReferenceThread ==
  /\ CallerGoto("reference", "running")
  /\ threadObject' = TRUE
  /\ threadHandle' = "closed"
  /\ UNCHANGED <<threadVars, logFile, history>>

\* The handle is closed before the status is looked at, and again after; then
\* the file.  The thread, which nobody can join any more, is not stopped.
ReferenceThreadFails ==
  /\ MayFail
  /\ CallerGoto("reference", "failed")
  /\ threadHandle' = "closed twice"
  /\ logFile' = FALSE
  /\ UNCHANGED <<threadVars, threadObject, history>>

Start ==
  \/ OpenFile \/ OpenFileFails
  \/ StartThread \/ StartThreadFails
  \/ ReferenceThread \/ ReferenceThreadFails

(* KdaMonLogWriterStop, which DriverEntry and DriverUnload call only after *)
(* a successful Start.                                                     *)

RequestStop ==
  /\ CallerGoto("running", "join")
  /\ threadObject
  /\ SetStopEvent
  /\ UNCHANGED <<handles, history>>

\* Faulty: does not wait for the thread.
CloseAtOnce ==
  /\ CallerGoto("join", "stopped")
  /\ threadObject' = FALSE
  /\ logFile' = FALSE
  /\ UNCHANGED <<threadVars, threadHandle, history>>

JoinThread ==
  /\ CallerGoto("join", "stopped")
  /\ thread = "exited"
  /\ threadObject' = FALSE
  /\ logFile' = FALSE
  /\ UNCHANGED <<threadVars, threadHandle, history>>

Stop == RequestStop \/ JoinThread

-----------------------------------------------------------------------------
(* The callbacks and the thread.                                           *)

AcceptEvent(d) ==
  /\ Len(accepted) < MaxEvents
  /\ PushAccepted(d)
  /\ accepted' = Append(accepted, [Id |-> nextId, Data |-> d])
  /\ UNCHANGED <<stopEvent, thread, caller, handles, log, lost>>

DropEvent ==
  /\ PushDropped
  /\ UNCHANGED <<stopEvent, thread, caller, handles, history>>

\* KdaMonLogWriterWriteEvent appends one line to the file,
WriteLogged ==
  /\ WriteReturns
  /\ logFile /\ out.Data \notin Oversize
  /\ log' = Append(log, out)
  /\ UNCHANGED <<caller, handles, accepted, lost>>

\* or returns an error, which the thread ignores: the event is gone.
WriteLost ==
  /\ WriteReturns
  /\ MayFail \/ ~ logFile \/ out.Data \in Oversize
  /\ lost' = lost \cup {out}
  /\ UNCHANGED <<caller, handles, accepted, log>>

ThreadMoves ==
  /\ WaitStep \/ PopToWrite \/ PopToWait
  /\ UNCHANGED <<caller, handles, history>>

WriterStep == ThreadMoves \/ WriteLogged \/ WriteLost

WriterPush == DropEvent \/ \E d \in Contents : AcceptEvent(d)

WriterNext == Start \/ Stop \/ WriterStep \/ WriterPush

(* The threads that run log_writer.c are scheduled; Start and Stop are     *)
(* called when the driver likes, but return once called.                   *)
WriterSpec ==
  /\ WriterInit /\ [][WriterNext]_writerVars
  /\ WF_writerVars(WriterStep)
  /\ WF_writerVars(caller # "unstarted" /\ Start)
  /\ WF_writerVars(JoinThread)

-----------------------------------------------------------------------------
(* Correctness.                                                            *)

WriterTypeOK ==
  /\ ThreadTypeOK
  /\ caller \in CallerPoints
  /\ threadObject \in BOOLEAN /\ logFile \in BOOLEAN
  /\ threadHandle \in HandleStates
  /\ accepted \in Seq(EventType) /\ Len(accepted) <= MaxEvents
  /\ log \in Seq(EventType)
  /\ lost \subseteq EventType

InHand == IF thread = "write" THEN {out} ELSE {}

(* Where an accepted event can be.                                         *)
Whereabouts == <<Range(log), lost, InHand, Range(fifo)>>

(* Every accepted event is in exactly one place: in the log, lost to a     *)
(* failed write, in the writer's hands, or still in the queue.             *)
Accounting ==
  /\ \A i, j \in 1 .. 4 : i # j => Whereabouts[i] \cap Whereabouts[j] = {}
  /\ UNION {Whereabouts[i] : i \in 1 .. 4} = Range(accepted)

LogInOrder ==
  \A i, j \in 1 .. Len(log) : i < j => log[i].Id < log[j].Id

(* A reader of the log can tell what is missing from it: the ids of its    *)
(* lines ascend, and every id skipped on the way to a line is that of an   *)
(* event whose write failed.  A full queue takes no id, and a record that  *)
(* is too long or a write that fails costs no event but its own.           *)
GapsAreLosses ==
  /\ LogInOrder
  /\ \A k \in 1 .. Len(log) : \A n \in 0 .. log[k].Id :
       \E e \in Range(log) \cup lost : e.Id = n

(* When Stop has returned nothing of the writer is left: the thread is     *)
(* gone, its object released, the file closed; and while the thread of a   *)
(* successful Start runs, the file it writes to is open.  Start closes the *)
(* handle of the thread it created once if it succeeds, but twice if it    *)
(* could not reference the thread.                                         *)
CleanLifecycle ==
  /\ caller = "stopped" => ~ Running /\ ~ threadObject /\ ~ logFile
  /\ caller \in {"running", "join"} /\ Running => threadObject /\ logFile
  /\ caller \in {"running", "join", "stopped"} => threadHandle = "closed"
  /\ caller = "failed" =>
       threadHandle = IF thread = "none" THEN "none" ELSE "closed twice"

(* An event accepted while the writer runs is settled, written or lost,    *)
(* unless the writer is stopped first.                                     *)
EveryEventSettles ==
  \A n \in 0 .. MaxEvents - 1 :
    caller = "running" /\ Len(accepted) > n
      ~> stopEvent \/ \E e \in Range(log) \cup lost : e.Id = n
=============================================================================
