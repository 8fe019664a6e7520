---------------------------- MODULE BoundedFifo ----------------------------
(***************************************************************************)
(* What the kernel event queue of driver/src/event_queue.c promises its    *)
(* clients: a bounded first-in first-out queue whose three operations take *)
(* effect at one instant each.  EventQueue.tla shows that the ring buffer, *)
(* spin lock and wake event implement this; LogWriterThread.tla and the    *)
(* modules above it are built on it.                                       *)
(***************************************************************************)
EXTENDS Naturals, Sequences

CONSTANTS
  Size,       \* KDAMON_EVENT_QUEUE_SIZE
  UlongMax,   \* the largest ULONG, 2^32 - 1 in the code
  Contents,   \* what a sensor puts in an event: Type, Timestamp and Data
  NoEvent     \* KdaMonEventQueuePop returned FALSE

Ulong == 0 .. UlongMax
EventType == [Id : Ulong, Data : Contents]

ASSUME SizeAssumption == Size \in Nat \ {0}
ASSUME UlongAssumption == UlongMax \in Nat
ASSUME NoEventAssumption == NoEvent \notin EventType

VARIABLES
  fifo,       \* the events accepted and not yet popped, oldest first
  nextId,     \* the id of the next accepted event
  dropped,    \* how many events were refused because the queue was full
  wake,       \* WakeEvent is signalled
  out         \* what the last KdaMonEventQueuePop returned

fifoVars == <<fifo, nextId, dropped, wake, out>>

\* ULONG arithmetic: x++ wraps to 0.
NextUlong(n) == IF n = UlongMax THEN 0 ELSE n + 1

FifoTypeOK ==
  /\ fifo \in Seq(EventType) /\ Len(fifo) <= Size
  /\ nextId \in Ulong
  /\ dropped \in Ulong
  /\ wake \in BOOLEAN
  /\ out \in EventType \cup {NoEvent}

FifoInit ==
  /\ fifo = <<>>
  /\ nextId = 0
  /\ dropped = 0
  /\ wake = FALSE
  /\ out = NoEvent

-----------------------------------------------------------------------------
\* Faulty: the push does not signal.
PushSilently(d) ==
  /\ Len(fifo) < Size
  /\ fifo' = Append(fifo, [Id |-> nextId, Data |-> d])
  /\ nextId' = NextUlong(nextId)
  /\ UNCHANGED <<dropped, wake, out>>

\* Faulty: does not check for space.
PushWithoutCheck(d) ==
  /\ fifo' = Append(fifo, [Id |-> nextId, Data |-> d])
  /\ nextId' = NextUlong(nextId)
  /\ wake' = TRUE
  /\ UNCHANGED <<dropped, out>>

\* An accepted push numbers the event, queues it and signals WakeEvent.
PushAccepted(d) ==
  /\ Len(fifo) < Size
  /\ fifo' = Append(fifo, [Id |-> nextId, Data |-> d])
  /\ nextId' = NextUlong(nextId)
  /\ wake' = TRUE
  /\ UNCHANGED <<dropped, out>>

\* Faulty: a dropped event takes an id.
PushDroppedWithId ==
  /\ Len(fifo) = Size
  /\ nextId' = NextUlong(nextId)
  /\ dropped' = NextUlong(dropped)
  /\ UNCHANGED <<fifo, wake, out>>

\* A push on a full queue counts the event, and takes neither id nor signal.
PushDropped ==
  /\ Len(fifo) = Size
  /\ dropped' = NextUlong(dropped)
  /\ UNCHANGED <<fifo, nextId, wake, out>>

\* Faulty: takes the newest event.
PopNewest ==
  /\ fifo # <<>>
  /\ out' = fifo[Len(fifo)]
  /\ fifo' = SubSeq(fifo, 1, Len(fifo) - 1)
  /\ UNCHANGED <<nextId, dropped, wake>>

PopEvent ==
  /\ fifo # <<>>
  /\ out' = Head(fifo)
  /\ fifo' = Tail(fifo)
  /\ UNCHANGED <<nextId, dropped, wake>>

PopNothing ==
  /\ fifo = <<>>
  /\ out' = NoEvent
  /\ UNCHANGED <<fifo, nextId, dropped, wake>>

\* A wait on WakeEvent, a synchronization event, is satisfied and resets it.
ConsumeWake ==
  /\ wake
  /\ wake' = FALSE
  /\ UNCHANGED <<fifo, nextId, dropped, out>>

FifoNext ==
  \/ \E d \in Contents : PushAccepted(d)
  \/ PushDropped
  \/ PopEvent
  \/ PopNothing
  \/ ConsumeWake

FifoSpec == FifoInit /\ [][FifoNext]_fifoVars
=============================================================================
