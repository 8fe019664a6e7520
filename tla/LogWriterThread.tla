-------------------------- MODULE LogWriterThread --------------------------
(***************************************************************************)
(* The thread routine of driver/src/log_writer.c on the queue that         *)
(* event_queue.c promises (BoundedFifo): wait for StopEvent or WakeEvent,  *)
(* drain the queue, wait again.  The callbacks push at any time and        *)
(* without end, so ids and counters wrap; what becomes of a popped event   *)
(* is modelled in LogWriter.tla.                                           *)
(***************************************************************************)
EXTENDS BoundedFifo

VARIABLES
  stopEvent,   \* StopEvent, a notification event, is signalled
  thread       \* where KdaMonLogWriterThread is

threadVars == <<fifo, nextId, dropped, wake, out, stopEvent, thread>>

(* "none"     no thread has been created yet                               *)
(* "wait"     about to call KeWaitForMultipleObjects                       *)
(* "blocked"  suspended in that call                                       *)
(* "pop"      about to call KdaMonEventQueuePop in the drain loop          *)
(* "write"    in KdaMonLogWriterWriteEvent with the event in out           *)
(* "exited"   past PsTerminateSystemThread                                 *)
ThreadPoints == {"none", "wait", "blocked", "pop", "write", "exited"}
Running == thread \notin {"none", "exited"}

ThreadInit ==
  /\ FifoInit
  /\ stopEvent = FALSE
  /\ thread = "none"

-----------------------------------------------------------------------------
(* What the other threads do.                                              *)

Push(d) ==
  /\ PushAccepted(d) \/ PushDropped
  /\ UNCHANGED <<stopEvent, thread>>

CreateThread ==
  /\ thread = "none"
  /\ thread' = "wait"
  /\ UNCHANGED <<fifoVars, stopEvent>>

SetStopEvent ==
  /\ Running
  /\ ~ stopEvent
  /\ stopEvent' = TRUE
  /\ UNCHANGED <<fifoVars, thread>>

-----------------------------------------------------------------------------
(* The wait: of two signalled objects KeWaitForMultipleObjects takes the   *)
(* first, StopEvent.  A thread that was already blocked resumes with the   *)
(* one signalled first; which one that was is not kept, so it may be any.  *)

SeeStop ==
  /\ thread \in {"wait", "blocked"}
  /\ stopEvent
  /\ thread' = "exited"
  /\ UNCHANGED <<fifoVars, stopEvent>>

SeeWake ==
  /\ thread = "blocked" \/ (thread = "wait" /\ ~ stopEvent)
  /\ ConsumeWake
  /\ thread' = "pop"
  /\ UNCHANGED stopEvent

Block ==
  /\ thread = "wait"
  /\ ~ stopEvent /\ ~ wake
  /\ thread' = "blocked"
  /\ UNCHANGED <<fifoVars, stopEvent>>

(* The drain loop.                                                         *)

\* Faulty: once asked to stop the thread discards what it pops.
PopDiscarding ==
  /\ thread = "pop"
  /\ PopEvent
  /\ thread' = IF stopEvent THEN "pop" ELSE "write"
  /\ UNCHANGED stopEvent

PopToWrite ==
  /\ thread = "pop"
  /\ PopEvent
  /\ thread' = "write"
  /\ UNCHANGED stopEvent

\* Faulty: an empty queue does not end the drain loop.
PopBusily ==
  /\ thread = "pop"
  /\ PopNothing
  /\ UNCHANGED <<thread, stopEvent>>

PopToWait ==
  /\ thread = "pop"
  /\ PopNothing
  /\ thread' = "wait"
  /\ UNCHANGED stopEvent

\* Faulty: one event per wakeup, an if where the loop should be.
WriteThenWait ==
  /\ thread = "write"
  /\ thread' = "wait"
  /\ UNCHANGED <<fifoVars, stopEvent>>

\* WriteEvent returns and the loop pops again, whatever its status.
WriteReturns ==
  /\ thread = "write"
  /\ thread' = "pop"
  /\ UNCHANGED <<fifoVars, stopEvent>>

-----------------------------------------------------------------------------
WaitStep == SeeStop \/ SeeWake \/ Block
ThreadStep == WaitStep \/ PopToWrite \/ PopToWait \/ WriteReturns

Pushing == \E d \in Contents : Push(d)

ThreadNext == Pushing \/ CreateThread \/ SetStopEvent \/ ThreadStep

(* The scheduler runs a thread that is ready.  Nothing makes the callbacks *)
(* push, nor the driver create or stop the thread.                         *)
ThreadSpec == ThreadInit /\ [][ThreadNext]_threadVars /\ WF_threadVars(ThreadStep)

-----------------------------------------------------------------------------
(* Correctness.                                                            *)

ThreadTypeOK ==
  /\ FifoTypeOK
  /\ stopEvent \in BOOLEAN
  /\ thread \in ThreadPoints

(* WakeEvent is one bit shared by all pushes and is consumed before the    *)
(* drain, yet no push is overlooked: while the thread has not reached its  *)
(* drain loop, a queue with events in it comes with a signalled event.     *)
NoLostWakeup ==
  thread \in {"none", "wait", "blocked"} /\ fifo # <<>> => wake

IsQueued(n) == \E k \in 1 .. Len(fifo) : fifo[k].Id = n

(* However the pushes interleave with the drain, every accepted event is   *)
(* handed to the running writer, or the driver asks it to stop.            *)
EveryEventIsPopped ==
  \A n \in Ulong :
    Running /\ IsQueued(n) ~> (out # NoEvent /\ out.Id = n) \/ stopEvent

(* Once asked to stop the thread exits, so KdaMonLogWriterStop returns,    *)
(* provided the pushes cease: a drain loop that always finds one more      *)
(* event never looks at StopEvent again.                                   *)
StopEndsThread ==
  <>[][~ Pushing]_threadVars => (Running /\ stopEvent ~> thread = "exited")
=============================================================================
