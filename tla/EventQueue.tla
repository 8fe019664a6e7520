----------------------------- MODULE EventQueue -----------------------------
(***************************************************************************)
(* driver/src/event_queue.c as it runs on several processors: a ring       *)
(* buffer of Size slots, the fields head, tail and count that describe it, *)
(* the spin lock that guards them and the wake event that push signals.    *)
(*                                                                         *)
(* Each producer is one kernel callback that pushes again and again; the   *)
(* writer pops and waits on the wake event in any order, so every          *)
(* discipline of its loop is covered.  A step is one access to shared      *)
(* memory, so every interleaving of the critical sections is explored.     *)
(***************************************************************************)
EXTENDS Naturals

CONSTANTS
  Size,        \* KDAMON_EVENT_QUEUE_SIZE
  UlongMax,    \* the largest ULONG
  Producers,   \* the callbacks that push; each event's data is its producer
  Writer,      \* the log writer thread
  Free,        \* the spin lock is not held
  NoEvent,     \* KdaMonEventQueuePop returned FALSE
  Zero         \* the data of a zero-filled event

Threads == Producers \cup {Writer}
Ulong == 0 .. UlongMax
Slots == 0 .. Size - 1
EventType == [Id : Ulong, Data : Producers]
ZeroEvent == [Id |-> 0, Data |-> Zero]

ASSUME SizeAssumption == Size \in Nat \ {0}
ASSUME UlongAssumption == UlongMax \in Nat /\ Size <= UlongMax + 1
ASSUME ThreadAssumption == Writer \notin Producers /\ Free \notin Threads
ASSUME EventAssumption ==
  NoEvent \notin EventType \cup {ZeroEvent} /\ Zero \notin Producers

VARIABLES
  buffer, head, tail, count,   \* the ring
  droppedEvents, nextId,       \* its counters
  lock,                        \* the thread that holds Lock, or Free
  wakeEvent,                   \* WakeEvent is signalled
  pc,                          \* where each thread is
  event                        \* each thread's local KDAMON_EVENT

ring == <<buffer, head, tail, count>>
vars == <<buffer, head, tail, count, droppedEvents, nextId, lock, wakeEvent,
          pc, event>>

\* Faulty: wraps one slot too late.
NextIndexLate(i) == IF i = Size THEN 0 ELSE i + 1

EventQueueNextIndex(i) == IF i + 1 = Size THEN 0 ELSE i + 1

NextUlong(n) == IF n = UlongMax THEN 0 ELSE n + 1

Goto(t, from, to) ==
  /\ pc[t] = from
  /\ pc' = [pc EXCEPT ![t] = to]

\* KdaMonEventQueueInitialize has run: zeroed, wake event and lock initialised.
Init ==
  /\ buffer = [i \in Slots |-> ZeroEvent]
  /\ head = 0 /\ tail = 0 /\ count = 0
  /\ droppedEvents = 0 /\ nextId = 0
  /\ lock = Free
  /\ wakeEvent = FALSE
  /\ pc = [t \in Threads |-> "idle"]
  /\ event = [t \in Threads |-> IF t = Writer THEN NoEvent ELSE ZeroEvent]

-----------------------------------------------------------------------------
\* Faulty: enters without the lock being free.
AcquireAnyway(t, enter) ==
  /\ lock' = t
  /\ Goto(t, "acquire", enter)
  /\ UNCHANGED <<ring, droppedEvents, nextId, wakeEvent, event>>

\* KeAcquireSpinLock: any one of the spinning threads gets a free lock.
Acquire(t, enter) ==
  /\ lock = Free
  /\ lock' = t
  /\ Goto(t, "acquire", enter)
  /\ UNCHANGED <<ring, droppedEvents, nextId, wakeEvent, event>>

\* KeReleaseSpinLock and the return to the caller.
Release(t) ==
  /\ Goto(t, "release", "idle")
  /\ lock' = Free
  /\ UNCHANGED <<ring, droppedEvents, nextId, wakeEvent, event>>

-----------------------------------------------------------------------------
(* KdaMonEventQueuePush.  No caller passes a NULL Event.                   *)

CallPush(p) ==
  /\ Goto(p, "idle", "acquire")
  /\ event' = [event EXCEPT ![p] = [Id |-> 0, Data |-> p]]
  /\ UNCHANGED <<ring, droppedEvents, nextId, lock, wakeEvent>>

\* Faulty: the early return forgets to release the lock.
DropHoldingLock(p) ==
  /\ count = Size
  /\ Goto(p, "push", "idle")
  /\ droppedEvents' = NextUlong(droppedEvents)
  /\ UNCHANGED <<ring, nextId, lock, wakeEvent, event>>

DropWhenFull(p) ==
  /\ count = Size
  /\ Goto(p, "push", "release")
  /\ droppedEvents' = NextUlong(droppedEvents)
  /\ UNCHANGED <<ring, nextId, lock, wakeEvent, event>>

AssignId(p) ==
  /\ count # Size
  /\ Goto(p, "push", "store")
  /\ event' = [event EXCEPT ![p].Id = nextId]
  /\ nextId' = NextUlong(nextId)
  /\ UNCHANGED <<ring, droppedEvents, lock, wakeEvent>>

Store(p) ==
  /\ Goto(p, "store", "count")
  /\ buffer' = [buffer EXCEPT ![tail] = event[p]]
  /\ tail' = EventQueueNextIndex(tail)
  /\ UNCHANGED <<head, count, droppedEvents, nextId, lock, wakeEvent, event>>

CountUp(p) ==
  /\ Goto(p, "count", "signal")
  /\ count' = count + 1
  /\ UNCHANGED <<buffer, head, tail, droppedEvents, nextId, lock, wakeEvent, event>>

\* KeSetEvent, still under the lock.
Signal(p) ==
  /\ Goto(p, "signal", "release")
  /\ wakeEvent' = TRUE
  /\ UNCHANGED <<ring, droppedEvents, nextId, lock, event>>

-----------------------------------------------------------------------------
(* KdaMonEventQueuePop, and the wait on the event that                     *)
(* KdaMonEventQueueGetWakeEvent hands out.                                 *)

CallPop(w) ==
  /\ Goto(w, "idle", "acquire")
  /\ UNCHANGED <<ring, droppedEvents, nextId, lock, wakeEvent, event>>

FindEmpty(w) ==
  /\ count = 0
  /\ Goto(w, "pop", "release")
  /\ event' = [event EXCEPT ![w] = NoEvent]
  /\ UNCHANGED <<ring, droppedEvents, nextId, lock, wakeEvent>>

\* Faulty: the head stays.
TakeKeepingHead(w) ==
  /\ count # 0
  /\ Goto(w, "pop", "uncount")
  /\ event' = [event EXCEPT ![w] = buffer[head]]
  /\ UNCHANGED <<ring, droppedEvents, nextId, lock, wakeEvent>>

\* Faulty: the head moves before the event is read.
TakeNext(w) ==
  /\ count # 0
  /\ Goto(w, "pop", "uncount")
  /\ event' = [event EXCEPT ![w] = buffer[EventQueueNextIndex(head)]]
  /\ head' = EventQueueNextIndex(head)
  /\ UNCHANGED <<buffer, tail, count, droppedEvents, nextId, lock, wakeEvent>>

Take(w) ==
  /\ count # 0
  /\ Goto(w, "pop", "uncount")
  /\ event' = [event EXCEPT ![w] = buffer[head]]
  /\ head' = EventQueueNextIndex(head)
  /\ UNCHANGED <<buffer, tail, count, droppedEvents, nextId, lock, wakeEvent>>

CountDown(w) ==
  /\ Goto(w, "uncount", "release")
  /\ count' = count - 1
  /\ UNCHANGED <<buffer, head, tail, droppedEvents, nextId, lock, wakeEvent, event>>

WaitForWake(w) ==
  /\ pc[w] = "idle"
  /\ wakeEvent
  /\ wakeEvent' = FALSE
  /\ UNCHANGED <<ring, droppedEvents, nextId, lock, pc, event>>

-----------------------------------------------------------------------------
PushSection(p) ==
  DropWhenFull(p) \/ AssignId(p) \/ Store(p) \/ CountUp(p) \/ Signal(p)

PopSection(w) == FindEmpty(w) \/ Take(w) \/ CountDown(w)

Next ==
  \/ \E p \in Producers : CallPush(p) \/ Acquire(p, "push") \/ PushSection(p)
  \/ CallPop(Writer) \/ Acquire(Writer, "pop") \/ PopSection(Writer)
  \/ WaitForWake(Writer)
  \/ \E t \in Threads : Release(t)

(* The holder of a spin lock runs at DISPATCH_LEVEL: it is not preempted,  *)
(* so it goes on.  Nothing is assumed of the threads outside the section,  *)
(* nor of who wins a free lock.                                            *)
Fairness ==
  /\ \A p \in Producers : WF_vars(PushSection(p) \/ Release(p))
  /\ WF_vars(PopSection(Writer) \/ Release(Writer))

Spec == Init /\ [][Next]_vars /\ Fairness

-----------------------------------------------------------------------------
(* Correctness.                                                            *)

\* The lock is held by a thread that is at one of these points.
At(points) == lock # Free /\ pc[lock] \in points

\* The slot k places after the head.
Slot(k) == IF head + k < Size THEN head + k ELSE head + k - Size

\* How many events are in the queue as its clients see it: a push takes effect
\* when it signals, a pop when it moves the head.
Queued == IF At({"signal", "uncount"}) THEN count - 1 ELSE count

QueuedEvents == [k \in 1 .. Queued |-> buffer[Slot(k - 1)]]

PublishedNextId ==
  IF At({"store", "count", "signal"}) THEN event[lock].Id ELSE nextId

Fifo == INSTANCE BoundedFifo
          WITH Contents <- Producers, fifo <- QueuedEvents,
               nextId <- PublishedNextId, dropped <- droppedEvents,
               wake <- wakeEvent, out <- event[Writer]

SectionPoints == {"push", "store", "count", "signal", "pop", "uncount", "release"}

(* Every variable has its type; a slot holds an event of some producer or  *)
(* the zeroes of KdaMonEventQueueInitialize.                               *)
TypeOK ==
  /\ buffer \in [Slots -> EventType \cup {ZeroEvent}]
  /\ head \in Slots /\ tail \in Slots /\ count \in 0 .. Size
  /\ droppedEvents \in Ulong /\ nextId \in Ulong
  /\ lock \in Threads \cup {Free}
  /\ wakeEvent \in BOOLEAN
  /\ pc \in [Threads -> {"idle", "acquire"} \cup SectionPoints]
  /\ event \in [Threads -> EventType \cup {ZeroEvent, NoEvent}]
  /\ event[Writer] # ZeroEvent

(* The spin lock does its work: a thread is inside a critical section of   *)
(* push or pop exactly when it holds Lock, so at most one is.              *)
MutualExclusion == \A t \in Threads : pc[t] \in SectionPoints <=> lock = t

(* head, tail and count, which push and pop update one after the other,    *)
(* agree whenever the lock is free: tail is count places after head.       *)
RingConsistent == lock = Free => tail = Slot(count)

(* The queued ids follow each other without a gap up to the next id, also  *)
(* when ids wrap: a drop takes no id, so ids in the queue stay distinct.   *)
ConsecutiveIds ==
  \A k \in 1 .. Queued :
    NextUlong(QueuedEvents[k].Id) =
      IF k = Queued THEN PublishedNextId ELSE QueuedEvents[k + 1].Id

(* The ring buffer is a bounded first-in first-out queue: every step of    *)
(* push and pop is one step of BoundedFifo or changes nothing it shows.    *)
ImplementsFifo == Fifo!FifoSpec

(* A critical section always ends, whoever else spins on the lock.         *)
SectionsFinish == lock # Free ~> lock = Free
=============================================================================
