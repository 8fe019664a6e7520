-------------------------- MODULE EventQueue_proofs --------------------------
(***************************************************************************)
(* Proofs about EventQueue: the inductive invariant IInv, the invariants   *)
(* that follow from it, and that the ring implements BoundedFifo.          *)
(*                                                                         *)
(* IInv says what the ring looks like at each point of a critical section, *)
(* which is where the invariants of EventQueue are not inductive: between  *)
(* Store and CountUp the tail is one slot ahead of count, between Take and *)
(* CountDown the head is.                                                  *)
(***************************************************************************)
EXTENDS EventQueue, Sequences, SequenceTheorems, TLAPS

\* Where a producer, and the writer, can be: only the one enters push, only
\* the other pop.
PushPoints == {"idle", "acquire", "push", "store", "count", "signal", "release"}
PopPoints == {"idle", "acquire", "pop", "uncount", "release"}

PointsOK ==
  /\ \A p \in Producers : pc[p] \in PushPoints
  /\ pc[Writer] \in PopPoints

\* What head, tail and count say of each other at every point of a section.
RingShape ==
  /\ At({"store", "count"}) => count < Size
  /\ At({"signal", "uncount"}) => count > 0
  /\ tail = IF At({"count"}) THEN EventQueueNextIndex(Slot(count))
            ELSE IF At({"uncount"}) THEN Slot(count - 1)
            ELSE Slot(count)

\* A producer inside a call has an event of its own to push.
LocalEvents == \A p \in Producers : pc[p] # "idle" => event[p] \in EventType

\* The event being pushed carries the id before nextId, and from Store on it
\* lies in the first free slot.
PushInProgress ==
  /\ At({"store", "count", "signal"}) => nextId = NextUlong(event[lock].Id)
  /\ At({"count"}) => buffer[Slot(count)] = event[lock]
  /\ At({"signal"}) => buffer[Slot(count - 1)] = event[lock]

\* What the queue holds is events, never the zeroes of an unused slot.
QueuedOK == \A k \in 1 .. Queued : buffer[Slot(k - 1)] \in EventType

IInv ==
  /\ TypeOK
  /\ PointsOK
  /\ MutualExclusion
  /\ RingShape
  /\ LocalEvents
  /\ PushInProgress
  /\ QueuedOK

-----------------------------------------------------------------------------
LEMMA InitIInv == Init => IInv
<1> SUFFICES ASSUME Init PROVE IInv
  OBVIOUS
<1> USE SizeAssumption, UlongAssumption, ThreadAssumption, EventAssumption DEF Init
<1>1. TypeOK
  <2>1. /\ buffer \in [Slots -> EventType \cup {ZeroEvent}]
        /\ head \in Slots /\ tail \in Slots /\ count \in 0 .. Size
    BY DEF Slots
  <2>2. droppedEvents \in Ulong /\ nextId \in Ulong
    BY DEF Ulong
  <2>3. /\ lock \in Threads \cup {Free} /\ wakeEvent \in BOOLEAN
        /\ pc \in [Threads -> {"idle", "acquire"} \cup SectionPoints]
    OBVIOUS
  <2>4. /\ event \in [Threads -> EventType \cup {ZeroEvent, NoEvent}]
        /\ event[Writer] # ZeroEvent
    BY DEF Threads
  <2> QED
    BY <2>1, <2>2, <2>3, <2>4 DEF TypeOK
<1>2. PointsOK
  BY DEF PointsOK, PushPoints, PopPoints, Threads
<1>3. MutualExclusion
  BY DEF MutualExclusion, SectionPoints
<1>4. RingShape
  BY DEF RingShape, At, Slot
<1>5. LocalEvents
  BY DEF LocalEvents, Threads
<1>6. PushInProgress
  BY DEF PushInProgress, At
<1>7. QueuedOK
  BY DEF QueuedOK, Queued, At
<1> QED
  BY <1>1, <1>2, <1>3, <1>4, <1>5, <1>6, <1>7 DEF IInv

LEMMA CallPushIInv == ASSUME IInv, NEW p \in Producers, CallPush(p) PROVE IInv'
<1> USE SizeAssumption, UlongAssumption, ThreadAssumption, EventAssumption
<1>1. /\ pc[p] = "idle" /\ pc' = [pc EXCEPT ![p] = "acquire"]
      /\ event' = [event EXCEPT ![p] = [Id |-> 0, Data |-> p]]
      /\ UNCHANGED <<buffer, head, tail, count, droppedEvents, nextId, lock, wakeEvent>>
  BY DEF CallPush, Goto, ring
<1>2. p \in Threads /\ p # Writer /\ lock # p /\ [Id |-> 0, Data |-> p] \in EventType
  BY <1>1 DEF Threads, IInv, MutualExclusion, SectionPoints, EventType, Ulong
<1>3. ASSUME NEW S PROVE At(S)' <=> At(S)
  BY <1>1, <1>2 DEF At, IInv, TypeOK
<1>4. TypeOK'
  BY <1>1, <1>2 DEF IInv, TypeOK
<1>5. PointsOK'
  BY <1>1, <1>2 DEF IInv, TypeOK, PointsOK, PushPoints, Threads
<1>6. MutualExclusion'
  BY <1>1, <1>2 DEF IInv, TypeOK, MutualExclusion, SectionPoints
<1>7. RingShape'
  BY <1>1, <1>3 DEF IInv, RingShape, Slot
<1>8. LocalEvents'
  BY <1>1, <1>2 DEF IInv, TypeOK, LocalEvents, Threads
<1>9. PushInProgress'
  <2>1. lock # Free => event'[lock] = event[lock]
    BY <1>1, <1>2 DEF IInv, TypeOK
  <2> QED
    BY <1>1, <1>3, <2>1 DEF IInv, PushInProgress, Slot, At
<1>10. QueuedOK'
  BY <1>1, <1>3 DEF IInv, QueuedOK, Queued, Slot
<1> QED
  BY <1>4, <1>5, <1>6, <1>7, <1>8, <1>9, <1>10 DEF IInv

LEMMA CallPopIInv == ASSUME IInv, CallPop(Writer) PROVE IInv'
<1> USE SizeAssumption, UlongAssumption, ThreadAssumption, EventAssumption
<1>1. /\ pc[Writer] = "idle" /\ pc' = [pc EXCEPT ![Writer] = "acquire"]
      /\ UNCHANGED <<buffer, head, tail, count, droppedEvents, nextId, lock, wakeEvent, event>>
  BY DEF CallPop, Goto, ring
<1>2. Writer \in Threads /\ lock # Writer
  BY <1>1 DEF Threads, IInv, MutualExclusion, SectionPoints
<1>3. ASSUME NEW S PROVE At(S)' <=> At(S)
  BY <1>1, <1>2 DEF At, IInv, TypeOK
<1>4. TypeOK'
  BY <1>1, <1>2 DEF IInv, TypeOK
<1>5. PointsOK'
  BY <1>1, <1>2 DEF IInv, TypeOK, PointsOK, PopPoints, Threads
<1>6. MutualExclusion'
  BY <1>1, <1>2 DEF IInv, TypeOK, MutualExclusion, SectionPoints
<1>7. RingShape'
  BY <1>1, <1>3 DEF IInv, RingShape, Slot
<1>8. LocalEvents'
  BY <1>1, <1>2 DEF IInv, TypeOK, LocalEvents, Threads
<1>9. PushInProgress'
  BY <1>1, <1>3 DEF IInv, PushInProgress, Slot
<1>10. QueuedOK'
  BY <1>1, <1>3 DEF IInv, QueuedOK, Queued, Slot
<1> QED
  BY <1>4, <1>5, <1>6, <1>7, <1>8, <1>9, <1>10 DEF IInv

LEMMA WaitForWakeIInv == ASSUME IInv, WaitForWake(Writer) PROVE IInv'
<1> USE SizeAssumption, UlongAssumption, ThreadAssumption, EventAssumption
<1>1. /\ wakeEvent' = FALSE
      /\ UNCHANGED <<buffer, head, tail, count, droppedEvents, nextId, lock, pc, event>>
  BY DEF WaitForWake, ring
<1>2. ASSUME NEW S PROVE At(S)' <=> At(S)
  BY <1>1 DEF At
<1>3. TypeOK'
  BY <1>1 DEF IInv, TypeOK
<1>4. PointsOK'
  BY <1>1 DEF IInv, PointsOK
<1>5. MutualExclusion'
  BY <1>1 DEF IInv, MutualExclusion
<1>6. RingShape'
  BY <1>1, <1>2 DEF IInv, RingShape, Slot
<1>7. LocalEvents'
  BY <1>1 DEF IInv, LocalEvents
<1>8. PushInProgress'
  BY <1>1, <1>2 DEF IInv, PushInProgress, Slot
<1>9. QueuedOK'
  BY <1>1, <1>2 DEF IInv, QueuedOK, Queued, Slot
<1> QED
  BY <1>3, <1>4, <1>5, <1>6, <1>7, <1>8, <1>9 DEF IInv

LEMMA AcquireIInv == ASSUME IInv, NEW t \in Threads, NEW enter,
         \/ t = Writer /\ enter = "pop"
         \/ t # Writer /\ enter = "push",
         Acquire(t, enter) PROVE IInv'
<1> USE SizeAssumption, UlongAssumption, ThreadAssumption, EventAssumption
<1>1. /\ lock = Free /\ lock' = t /\ pc[t] = "acquire"
      /\ pc' = [pc EXCEPT ![t] = enter]
      /\ UNCHANGED <<buffer, head, tail, count, droppedEvents, nextId, wakeEvent, event>>
  BY DEF Acquire, Goto, ring
<1>2. ASSUME NEW S PROVE ~ At(S) /\ (At(S)' <=> enter \in S)
  BY <1>1 DEF At, IInv, TypeOK
<1>3. TypeOK'
  BY <1>1 DEF IInv, TypeOK, SectionPoints
<1>4. PointsOK'
  BY <1>1 DEF IInv, TypeOK, PointsOK, PushPoints, PopPoints, Threads
<1>5. MutualExclusion'
  BY <1>1 DEF IInv, TypeOK, MutualExclusion, SectionPoints
<1>6. RingShape'
  BY <1>1, <1>2 DEF IInv, RingShape, Slot
<1>7. LocalEvents'
  BY <1>1 DEF IInv, TypeOK, LocalEvents, Threads
<1>8. PushInProgress'
  BY <1>1, <1>2 DEF PushInProgress
<1>9. QueuedOK'
  BY <1>1, <1>2 DEF IInv, QueuedOK, Queued, Slot
<1> QED
  BY <1>3, <1>4, <1>5, <1>6, <1>7, <1>8, <1>9 DEF IInv

LEMMA ReleaseIInv == ASSUME IInv, NEW t \in Threads, Release(t) PROVE IInv'
<1> USE SizeAssumption, UlongAssumption, ThreadAssumption, EventAssumption
<1>1. /\ lock' = Free /\ pc[t] = "release"
      /\ pc' = [pc EXCEPT ![t] = "idle"]
      /\ UNCHANGED <<buffer, head, tail, count, droppedEvents, nextId, wakeEvent, event>>
  BY DEF Release, Goto, ring
<1>2. lock = t
  BY <1>1 DEF IInv, MutualExclusion, SectionPoints
<1>3. ASSUME NEW S PROVE (At(S) <=> "release" \in S) /\ ~ At(S)'
  BY <1>1, <1>2 DEF At
<1>4. TypeOK'
  BY <1>1 DEF IInv, TypeOK, SectionPoints
<1>5. PointsOK'
  BY <1>1 DEF IInv, TypeOK, PointsOK, PushPoints, PopPoints, Threads
<1>6. MutualExclusion'
  BY <1>1, <1>2 DEF IInv, TypeOK, MutualExclusion, SectionPoints
<1>7. RingShape'
  BY <1>1, <1>3 DEF IInv, RingShape, Slot
<1>8. LocalEvents'
  BY <1>1 DEF IInv, TypeOK, LocalEvents, Threads
<1>9. PushInProgress'
  BY <1>3 DEF PushInProgress
<1>10. QueuedOK'
  BY <1>1, <1>3 DEF IInv, QueuedOK, Queued, Slot
<1> QED
  BY <1>4, <1>5, <1>6, <1>7, <1>8, <1>9, <1>10 DEF IInv

LEMMA DropWhenFullIInv == ASSUME IInv, NEW p \in Producers, DropWhenFull(p) PROVE IInv'
<1> USE SizeAssumption, UlongAssumption, ThreadAssumption, EventAssumption
<1>1. /\ pc[p] = "push" /\ pc' = [pc EXCEPT ![p] = "release"]
      /\ droppedEvents' = NextUlong(droppedEvents)
      /\ UNCHANGED <<buffer, head, tail, count, nextId, lock, wakeEvent, event>>
  BY DEF DropWhenFull, Goto, ring
<1>2. p \in Threads /\ lock = p /\ p # Writer
  BY <1>1 DEF IInv, MutualExclusion, SectionPoints, Threads
<1>3. ASSUME NEW S
      PROVE  (At(S) <=> "push" \in S) /\ (At(S)' <=> "release" \in S)
  BY <1>1, <1>2 DEF At, IInv, TypeOK
<1>4. TypeOK'
  BY <1>1, <1>2 DEF IInv, TypeOK, SectionPoints, NextUlong, Ulong
<1>5. PointsOK'
  BY <1>1, <1>2 DEF IInv, TypeOK, PointsOK, PushPoints, PopPoints, Threads
<1>6. MutualExclusion'
  BY <1>1, <1>2 DEF IInv, TypeOK, MutualExclusion, SectionPoints
<1>7. RingShape'
  BY <1>1, <1>3 DEF IInv, TypeOK, RingShape, Slot, Slots, EventQueueNextIndex
<1>8. LocalEvents'
  BY <1>1, <1>2 DEF IInv, TypeOK, LocalEvents, Threads
<1>9. PushInProgress'
  BY <1>1, <1>2, <1>3 DEF IInv, PushInProgress, Slot
<1>10. QueuedOK'
  BY <1>1, <1>3 DEF IInv, QueuedOK, Queued, Slot
<1> QED
  BY <1>4, <1>5, <1>6, <1>7, <1>8, <1>9, <1>10 DEF IInv

LEMMA AssignIdIInv == ASSUME IInv, NEW p \in Producers, AssignId(p) PROVE IInv'
<1> USE SizeAssumption, UlongAssumption, ThreadAssumption, EventAssumption
<1>1. /\ pc[p] = "push" /\ pc' = [pc EXCEPT ![p] = "store"]
      /\ count # Size
      /\ event' = [event EXCEPT ![p].Id = nextId]
      /\ nextId' = NextUlong(nextId)
      /\ UNCHANGED <<buffer, head, tail, count, droppedEvents, lock, wakeEvent>>
  BY DEF AssignId, Goto, ring
<1>2. p \in Threads /\ lock = p /\ p # Writer
  BY <1>1 DEF IInv, MutualExclusion, SectionPoints, Threads
<1>3. ASSUME NEW S
      PROVE  (At(S) <=> "push" \in S) /\ (At(S)' <=> "store" \in S)
  BY <1>1, <1>2 DEF At, IInv, TypeOK
<1>4. event[p] \in EventType /\ event'[p] \in EventType /\ event'[p].Id = nextId
      /\ event' = [event EXCEPT ![p] = event'[p]]
  BY <1>1, <1>2 DEF IInv, TypeOK, LocalEvents, EventType
<1>5. TypeOK'
  BY <1>1, <1>2, <1>4 DEF IInv, TypeOK, SectionPoints, NextUlong, Ulong
<1>6. PointsOK'
  BY <1>1, <1>2 DEF IInv, TypeOK, PointsOK, PushPoints, PopPoints, Threads
<1>7. MutualExclusion'
  BY <1>1, <1>2 DEF IInv, TypeOK, MutualExclusion, SectionPoints
<1>8. RingShape'
  BY <1>1, <1>3 DEF IInv, TypeOK, RingShape, Slot, Slots, EventQueueNextIndex
<1>9. LocalEvents'
  BY <1>1, <1>2, <1>4 DEF IInv, TypeOK, LocalEvents, Threads
<1>10. PushInProgress'
  BY <1>1, <1>2, <1>3, <1>4 DEF IInv, TypeOK, PushInProgress
<1>11. QueuedOK'
  BY <1>1, <1>3 DEF IInv, QueuedOK, Queued, Slot
<1> QED
  BY <1>5, <1>6, <1>7, <1>8, <1>9, <1>10, <1>11 DEF IInv

LEMMA StoreIInv == ASSUME IInv, NEW p \in Producers, Store(p) PROVE IInv'
<1> USE SizeAssumption, UlongAssumption, ThreadAssumption, EventAssumption
<1>1. /\ pc[p] = "store" /\ pc' = [pc EXCEPT ![p] = "count"]
      /\ buffer' = [buffer EXCEPT ![tail] = event[p]]
      /\ tail' = EventQueueNextIndex(tail)
      /\ UNCHANGED <<head, count, droppedEvents, nextId, lock, wakeEvent, event>>
  BY DEF Store, Goto, ring
<1>2. p \in Threads /\ lock = p /\ p # Writer
  BY <1>1 DEF IInv, MutualExclusion, SectionPoints, Threads
<1>3. ASSUME NEW S
      PROVE  (At(S) <=> "store" \in S) /\ (At(S)' <=> "count" \in S)
  BY <1>1, <1>2 DEF At, IInv, TypeOK
<1>4. event[p] \in EventType /\ tail \in Slots /\ tail = Slot(count) /\ count < Size
  BY <1>1, <1>2, <1>3 DEF IInv, TypeOK, LocalEvents, RingShape
<1>5. TypeOK'
  BY <1>1, <1>2, <1>4 DEF IInv, TypeOK, SectionPoints, EventQueueNextIndex, Slots
<1>6. PointsOK'
  BY <1>1, <1>2 DEF IInv, TypeOK, PointsOK, PushPoints, PopPoints, Threads
<1>7. MutualExclusion'
  BY <1>1, <1>2 DEF IInv, TypeOK, MutualExclusion, SectionPoints
<1>8. RingShape'
  BY <1>1, <1>3 DEF IInv, TypeOK, RingShape, Slot, Slots, EventQueueNextIndex
<1>9. LocalEvents'
  BY <1>1, <1>2 DEF IInv, TypeOK, LocalEvents, Threads
<1>10. PushInProgress'
  BY <1>1, <1>2, <1>3, <1>4 DEF IInv, TypeOK, PushInProgress, RingShape, Slot
<1>11. QueuedOK'
  <2> SUFFICES ASSUME NEW k \in 1 .. Queued'
               PROVE  buffer'[Slot(k - 1)'] \in EventType
    BY DEF QueuedOK
  <2>1. Queued' = count /\ Queued = count /\ Slot(k - 1)' = Slot(k - 1)
    BY <1>1, <1>3 DEF Queued, Slot
  <2>2. Slot(k - 1) \in Slots /\ Slot(k - 1) # tail
    BY <1>4, <2>1 DEF IInv, TypeOK, Slot, Slots
  <2>3. buffer'[Slot(k - 1)] = buffer[Slot(k - 1)]
    BY <1>1, <2>2 DEF IInv, TypeOK
  <2> QED
    BY <2>1, <2>3 DEF IInv, QueuedOK
<1> QED
  BY <1>5, <1>6, <1>7, <1>8, <1>9, <1>10, <1>11 DEF IInv

LEMMA CountUpIInv == ASSUME IInv, NEW p \in Producers, CountUp(p) PROVE IInv'
<1> USE SizeAssumption, UlongAssumption, ThreadAssumption, EventAssumption
<1>1. /\ pc[p] = "count" /\ pc' = [pc EXCEPT ![p] = "signal"]
      /\ count' = count + 1
      /\ UNCHANGED <<buffer, head, tail, droppedEvents, nextId, lock, wakeEvent, event>>
  BY DEF CountUp, Goto, ring
<1>2. p \in Threads /\ lock = p /\ p # Writer
  BY <1>1 DEF IInv, MutualExclusion, SectionPoints, Threads
<1>3. ASSUME NEW S
      PROVE  (At(S) <=> "count" \in S) /\ (At(S)' <=> "signal" \in S)
  BY <1>1, <1>2 DEF At, IInv, TypeOK
<1>4. count \in Nat /\ count < Size
  BY <1>1, <1>3 DEF IInv, TypeOK, RingShape
<1>5. TypeOK'
  BY <1>1, <1>2, <1>4 DEF IInv, TypeOK, SectionPoints
<1>6. PointsOK'
  BY <1>1, <1>2 DEF IInv, TypeOK, PointsOK, PushPoints, PopPoints, Threads
<1>7. MutualExclusion'
  BY <1>1, <1>2 DEF IInv, TypeOK, MutualExclusion, SectionPoints
<1>8. RingShape'
  BY <1>1, <1>3 DEF IInv, TypeOK, RingShape, Slot, Slots, EventQueueNextIndex
<1>9. LocalEvents'
  BY <1>1, <1>2 DEF IInv, TypeOK, LocalEvents, Threads
<1>10. PushInProgress'
  BY <1>1, <1>2, <1>3, <1>4 DEF IInv, TypeOK, PushInProgress, Slot
<1>11. QueuedOK'
  BY <1>1, <1>3, <1>4 DEF IInv, QueuedOK, Queued, Slot
<1> QED
  BY <1>5, <1>6, <1>7, <1>8, <1>9, <1>10, <1>11 DEF IInv

LEMMA SignalIInv == ASSUME IInv, NEW p \in Producers, Signal(p) PROVE IInv'
<1> USE SizeAssumption, UlongAssumption, ThreadAssumption, EventAssumption
<1>1. /\ pc[p] = "signal" /\ pc' = [pc EXCEPT ![p] = "release"]
      /\ wakeEvent' = TRUE
      /\ UNCHANGED <<buffer, head, tail, count, droppedEvents, nextId, lock, event>>
  BY DEF Signal, Goto, ring
<1>2. p \in Threads /\ lock = p /\ p # Writer
  BY <1>1 DEF IInv, MutualExclusion, SectionPoints, Threads
<1>3. ASSUME NEW S
      PROVE  (At(S) <=> "signal" \in S) /\ (At(S)' <=> "release" \in S)
  BY <1>1, <1>2 DEF At, IInv, TypeOK
<1>4. buffer[Slot(count - 1)] \in EventType /\ count \in Nat
  BY <1>1, <1>2, <1>3 DEF IInv, TypeOK, LocalEvents, PushInProgress
<1>5. TypeOK'
  BY <1>1, <1>2 DEF IInv, TypeOK, SectionPoints
<1>6. PointsOK'
  BY <1>1, <1>2 DEF IInv, TypeOK, PointsOK, PushPoints, PopPoints, Threads
<1>7. MutualExclusion'
  BY <1>1, <1>2 DEF IInv, TypeOK, MutualExclusion, SectionPoints
<1>8. RingShape'
  BY <1>1, <1>3 DEF IInv, TypeOK, RingShape, Slot, Slots, EventQueueNextIndex
<1>9. LocalEvents'
  BY <1>1, <1>2 DEF IInv, TypeOK, LocalEvents, Threads
<1>10. PushInProgress'
  BY <1>1, <1>2, <1>3 DEF IInv, PushInProgress, Slot
<1>11. QueuedOK'
  BY <1>1, <1>2, <1>3, <1>4 DEF IInv, QueuedOK, Queued, Slot
<1> QED
  BY <1>5, <1>6, <1>7, <1>8, <1>9, <1>10, <1>11 DEF IInv

LEMMA FindEmptyIInv == ASSUME IInv, FindEmpty(Writer) PROVE IInv'
<1> USE SizeAssumption, UlongAssumption, ThreadAssumption, EventAssumption
<1>1. /\ pc[Writer] = "pop" /\ pc' = [pc EXCEPT ![Writer] = "release"]
      /\ count = 0
      /\ event' = [event EXCEPT ![Writer] = NoEvent]
      /\ UNCHANGED <<buffer, head, tail, count, droppedEvents, nextId, lock, wakeEvent>>
  BY DEF FindEmpty, Goto, ring
<1>2. Writer \in Threads /\ lock = Writer
  BY <1>1 DEF IInv, MutualExclusion, SectionPoints, Threads
<1>3. ASSUME NEW S
      PROVE  (At(S) <=> "pop" \in S) /\ (At(S)' <=> "release" \in S)
  BY <1>1, <1>2 DEF At, IInv, TypeOK
<1>4. TypeOK'
  BY <1>1, <1>2 DEF IInv, TypeOK, SectionPoints
<1>5. PointsOK'
  BY <1>1, <1>2 DEF IInv, TypeOK, PointsOK, PushPoints, PopPoints, Threads
<1>6. MutualExclusion'
  BY <1>1, <1>2 DEF IInv, TypeOK, MutualExclusion, SectionPoints
<1>7. RingShape'
  BY <1>1, <1>3 DEF IInv, TypeOK, RingShape, Slot, Slots, EventQueueNextIndex
<1>8. LocalEvents'
  BY <1>1, <1>2 DEF IInv, TypeOK, LocalEvents, Threads
<1>9. PushInProgress'
  BY <1>1, <1>2, <1>3 DEF IInv, PushInProgress, Slot
<1>10. QueuedOK'
  BY <1>1, <1>3 DEF IInv, QueuedOK, Queued, Slot
<1> QED
  BY <1>4, <1>5, <1>6, <1>7, <1>8, <1>9, <1>10 DEF IInv

LEMMA TakeIInv == ASSUME IInv, Take(Writer) PROVE IInv'
<1> USE SizeAssumption, UlongAssumption, ThreadAssumption, EventAssumption
<1>1. /\ pc[Writer] = "pop" /\ pc' = [pc EXCEPT ![Writer] = "uncount"]
      /\ count # 0
      /\ event' = [event EXCEPT ![Writer] = buffer[head]]
      /\ head' = EventQueueNextIndex(head)
      /\ UNCHANGED <<buffer, tail, count, droppedEvents, nextId, lock, wakeEvent>>
  BY DEF Take, Goto, ring
<1>2. Writer \in Threads /\ lock = Writer
  BY <1>1 DEF IInv, MutualExclusion, SectionPoints, Threads
<1>3. ASSUME NEW S
      PROVE  (At(S) <=> "pop" \in S) /\ (At(S)' <=> "uncount" \in S)
  BY <1>1, <1>2 DEF At, IInv, TypeOK
<1>4. buffer[head] \in EventType /\ buffer[head] # ZeroEvent /\ count \in 1 .. Size
  <2>1. count \in 1 .. Size /\ Queued = count /\ Slot(0) = head
    BY <1>1, <1>3 DEF IInv, TypeOK, Queued, Slot, Slots
  <2>2. buffer[Slot(1 - 1)] \in EventType
    BY <2>1 DEF IInv, QueuedOK
  <2>3. buffer[head] \in EventType
    BY <2>1, <2>2
  <2>4. ZeroEvent \notin EventType
    BY EventAssumption DEF ZeroEvent, EventType
  <2> QED
    BY <2>1, <2>3, <2>4
<1>5. TypeOK'
  BY <1>1, <1>2, <1>4 DEF IInv, TypeOK, SectionPoints, EventQueueNextIndex, Slots
<1>6. PointsOK'
  BY <1>1, <1>2 DEF IInv, TypeOK, PointsOK, PushPoints, PopPoints, Threads
<1>7. MutualExclusion'
  BY <1>1, <1>2 DEF IInv, TypeOK, MutualExclusion, SectionPoints
<1>8. RingShape'
  BY <1>1, <1>3 DEF IInv, TypeOK, RingShape, Slot, Slots, EventQueueNextIndex
<1>9. LocalEvents'
  BY <1>1, <1>2 DEF IInv, TypeOK, LocalEvents, Threads
<1>10. PushInProgress'
  BY <1>1, <1>2, <1>3 DEF IInv, PushInProgress, Slot
<1>11. QueuedOK'
  <2> SUFFICES ASSUME NEW k \in 1 .. Queued'
               PROVE  buffer[Slot(k - 1)'] \in EventType
    BY <1>1 DEF QueuedOK
  <2>1. Queued' = count - 1 /\ Queued = count
    BY <1>1, <1>3 DEF Queued
  <2>2. k + 1 \in 1 .. Queued /\ Slot(k - 1)' = Slot((k + 1) - 1)
    BY <1>1, <1>4, <2>1 DEF IInv, TypeOK, Slot, Slots, EventQueueNextIndex
  <2> QED
    BY <2>2 DEF IInv, QueuedOK
<1> QED
  BY <1>5, <1>6, <1>7, <1>8, <1>9, <1>10, <1>11 DEF IInv

LEMMA CountDownIInv == ASSUME IInv, CountDown(Writer) PROVE IInv'
<1> USE SizeAssumption, UlongAssumption, ThreadAssumption, EventAssumption
<1>1. /\ pc[Writer] = "uncount" /\ pc' = [pc EXCEPT ![Writer] = "release"]
      /\ count' = count - 1
      /\ UNCHANGED <<buffer, head, tail, droppedEvents, nextId, lock, wakeEvent, event>>
  BY DEF CountDown, Goto, ring
<1>2. Writer \in Threads /\ lock = Writer
  BY <1>1 DEF IInv, MutualExclusion, SectionPoints, Threads
<1>3. ASSUME NEW S
      PROVE  (At(S) <=> "uncount" \in S) /\ (At(S)' <=> "release" \in S)
  BY <1>1, <1>2 DEF At, IInv, TypeOK
<1>4. count \in 1 .. Size
  BY <1>1, <1>3 DEF IInv, TypeOK, RingShape
<1>5. TypeOK'
  BY <1>1, <1>2, <1>4 DEF IInv, TypeOK, SectionPoints
<1>6. PointsOK'
  BY <1>1, <1>2 DEF IInv, TypeOK, PointsOK, PushPoints, PopPoints, Threads
<1>7. MutualExclusion'
  BY <1>1, <1>2 DEF IInv, TypeOK, MutualExclusion, SectionPoints
<1>8. RingShape'
  BY <1>1, <1>3 DEF IInv, TypeOK, RingShape, Slot, Slots, EventQueueNextIndex
<1>9. LocalEvents'
  BY <1>1, <1>2 DEF IInv, TypeOK, LocalEvents, Threads
<1>10. PushInProgress'
  BY <1>1, <1>2, <1>3 DEF IInv, PushInProgress, Slot
<1>11. QueuedOK'
  BY <1>1, <1>3, <1>4 DEF IInv, QueuedOK, Queued, Slot
<1> QED
  BY <1>5, <1>6, <1>7, <1>8, <1>9, <1>10, <1>11 DEF IInv

LEMMA NextIInv == IInv /\ [Next]_vars => IInv'
<1> SUFFICES ASSUME IInv, [Next]_vars PROVE IInv'
  OBVIOUS
<1>1. ASSUME NEW p \in Producers, CallPush(p) PROVE IInv'
  BY <1>1, CallPushIInv
<1>2. ASSUME NEW p \in Producers, Acquire(p, "push") PROVE IInv'
  <2>1. p \in Threads /\ p # Writer
    BY ThreadAssumption DEF Threads
  <2> QED
    BY <1>2, <2>1, AcquireIInv
<1>3. ASSUME NEW p \in Producers, PushSection(p) PROVE IInv'
  BY <1>3, DropWhenFullIInv, AssignIdIInv, StoreIInv, CountUpIInv, SignalIInv
     DEF PushSection
<1>4. ASSUME CallPop(Writer) PROVE IInv'
  BY <1>4, CallPopIInv
<1>5. ASSUME Acquire(Writer, "pop") PROVE IInv'
  <2>1. Writer \in Threads
    BY DEF Threads
  <2> QED
    BY <1>5, <2>1, AcquireIInv
<1>6. ASSUME PopSection(Writer) PROVE IInv'
  BY <1>6, FindEmptyIInv, TakeIInv, CountDownIInv DEF PopSection
<1>7. ASSUME WaitForWake(Writer) PROVE IInv'
  BY <1>7, WaitForWakeIInv
<1>8. ASSUME NEW t \in Threads, Release(t) PROVE IInv'
  BY <1>8, ReleaseIInv
<1>9. ASSUME UNCHANGED vars PROVE IInv'
  <2>1. UNCHANGED <<buffer, head, tail, count, droppedEvents, nextId, lock, wakeEvent, pc, event>>
    BY <1>9 DEF vars
  <2>2. ASSUME NEW S PROVE At(S)' <=> At(S)
    BY <2>1 DEF At
  <2>3. TypeOK' /\ PointsOK' /\ MutualExclusion' /\ LocalEvents'
    BY <2>1 DEF IInv, TypeOK, PointsOK, MutualExclusion, LocalEvents
  <2>4. RingShape' /\ PushInProgress' /\ QueuedOK'
    BY <2>1, <2>2 DEF IInv, RingShape, PushInProgress, QueuedOK, Queued, Slot
  <2> QED
    BY <2>3, <2>4 DEF IInv
<1> QED
  BY <1>1, <1>2, <1>3, <1>4, <1>5, <1>6, <1>7, <1>8, <1>9 DEF Next

LEMMA IInvAlways == Spec => []IInv
  BY InitIInv, NextIInv, PTL DEF Spec

(* Every reachable state of the queue is well typed, for every Size, every *)
(* width of the counters and every set of producers.                       *)
THEOREM TypeCorrect == Spec => []TypeOK
<1>1. IInv => TypeOK
  BY DEF IInv
<1> QED
  BY IInvAlways, <1>1, PTL

(* At most one thread is in a critical section of push or pop.             *)
THEOREM Exclusion == Spec => []MutualExclusion
<1>1. IInv => MutualExclusion
  BY DEF IInv
<1> QED
  BY IInvAlways, <1>1, PTL

(* head, tail and count describe the same ring whenever Lock is free.      *)
THEOREM RingAgrees == Spec => []RingConsistent
<1>1. IInv => RingConsistent
  BY DEF IInv, RingShape, RingConsistent, At
<1> QED
  BY IInvAlways, <1>1, PTL

-----------------------------------------------------------------------------
(* The ring buffer implements the abstract queue.                          *)

\* A step that leaves the queued part of the ring, the id it shows and the
\* writer's result alone is a stutter of the abstract queue.
LEMMA Stutters ==
  ASSUME UNCHANGED <<QueuedEvents, PublishedNextId, droppedEvents, wakeEvent, event[Writer]>>
  PROVE  UNCHANGED Fifo!fifoVars
  BY DEF Fifo!fifoVars

LEMMA QueuedEventsProperties ==
  ASSUME IInv
  PROVE  /\ Queued \in 0 .. Size
         /\ QueuedEvents \in Seq(EventType)
         /\ Len(QueuedEvents) = Queued
         /\ \A k \in 1 .. Queued : QueuedEvents[k] = buffer[Slot(k - 1)]
<1>1. Queued \in 0 .. Size
  BY SizeAssumption DEF IInv, TypeOK, RingShape, Queued, At
<1>2. QueuedEvents \in [1 .. Queued -> EventType]
  BY <1>1 DEF IInv, QueuedOK, QueuedEvents
<1> QED
  BY <1>1, <1>2, SeqDef, LenProperties DEF QueuedEvents
LEMMA InitRefines == Init => Fifo!FifoInit
<1> SUFFICES ASSUME Init PROVE Fifo!FifoInit
  OBVIOUS
<1>1. Queued = 0 /\ PublishedNextId = 0 /\ event[Writer] = NoEvent
  BY DEF Init, Queued, PublishedNextId, At, Threads
<1>2. QueuedEvents = <<>>
  BY <1>1, InitIInv, QueuedEventsProperties, EmptySeq, SeqEqual
<1> QED
  BY <1>1, <1>2 DEF Fifo!FifoInit, Init

LEMMA SameQueuedEvents ==
  ASSUME Queued' = Queued,
         \A k \in 1 .. Queued : buffer[Slot(k - 1)]' = buffer[Slot(k - 1)]
  PROVE  QueuedEvents' = QueuedEvents
  BY DEF QueuedEvents

\* Steps outside the sections, and those inside that no client sees, stutter.
LEMMA OutsideRefines ==
  ASSUME IInv,
         \/ \E p \in Producers : CallPush(p)
         \/ \E t \in Threads, enter \in {"push", "pop"} : Acquire(t, enter)
         \/ CallPop(Writer)
         \/ \E t \in Threads : Release(t)
  PROVE  UNCHANGED Fifo!fifoVars
<1> USE ThreadAssumption
<1>1. ~ At({"store", "count", "signal", "uncount"}) \/ UNCHANGED <<lock, pc[lock], event[lock]>>
  BY DEF IInv, TypeOK, MutualExclusion, SectionPoints, At, CallPush, Acquire,
         CallPop, Release, Goto, Threads
<1>2. (~ At({"store", "count", "signal", "uncount"}))' \/ UNCHANGED <<lock, pc[lock], event[lock]>>
  BY DEF IInv, TypeOK, MutualExclusion, SectionPoints, At, CallPush, Acquire,
         CallPop, Release, Goto, Threads
<1>3. UNCHANGED <<buffer, head, count, nextId, droppedEvents, wakeEvent, event[Writer]>>
  BY DEF CallPush, Acquire, CallPop, Release, ring, IInv, TypeOK, Threads
<1>4. Queued' = Queued /\ PublishedNextId' = PublishedNextId
  BY <1>1, <1>2, <1>3 DEF Queued, PublishedNextId, At
<1>5. QueuedEvents' = QueuedEvents
  BY <1>3, <1>4, SameQueuedEvents DEF Slot
<1> QED
  BY <1>3, <1>4, <1>5, Stutters

LEMMA AssignIdRefines ==
  ASSUME IInv, NEW p \in Producers, AssignId(p)
  PROVE  UNCHANGED Fifo!fifoVars
<1>1. /\ pc[p] = "push" /\ pc' = [pc EXCEPT ![p] = "store"]
      /\ event' = [event EXCEPT ![p].Id = nextId]
      /\ UNCHANGED <<buffer, head, tail, count, droppedEvents, lock, wakeEvent>>
  BY DEF AssignId, Goto, ring
<1>2. p \in Threads /\ lock = p /\ p # Writer /\ lock # Free
  BY <1>1, ThreadAssumption DEF IInv, MutualExclusion, SectionPoints, Threads
<1>3. ASSUME NEW S
      PROVE  (At(S) <=> "push" \in S) /\ (At(S)' <=> "store" \in S)
  BY <1>1, <1>2 DEF At, IInv, TypeOK
<1>4. event[p] \in EventType /\ event'[p].Id = nextId /\ event'[Writer] = event[Writer]
  BY <1>1, <1>2 DEF IInv, TypeOK, LocalEvents, EventType, Threads
<1>5. Queued' = Queued /\ PublishedNextId' = PublishedNextId
  BY <1>1, <1>2, <1>3, <1>4 DEF Queued, PublishedNextId
<1>6. QueuedEvents' = QueuedEvents
  BY <1>1, <1>5, SameQueuedEvents DEF Slot
<1> QED
  BY <1>1, <1>4, <1>5, <1>6, Stutters

LEMMA StoreRefines ==
  ASSUME IInv, NEW p \in Producers, Store(p)
  PROVE  UNCHANGED Fifo!fifoVars
<1> USE SizeAssumption
<1>1. /\ pc[p] = "store" /\ pc' = [pc EXCEPT ![p] = "count"]
      /\ buffer' = [buffer EXCEPT ![tail] = event[p]]
      /\ UNCHANGED <<head, count, droppedEvents, nextId, lock, wakeEvent, event>>
  BY DEF Store, Goto, ring
<1>2. p \in Threads /\ lock = p /\ lock # Free
  BY <1>1, ThreadAssumption DEF IInv, MutualExclusion, SectionPoints, Threads
<1>3. ASSUME NEW S
      PROVE  (At(S) <=> "store" \in S) /\ (At(S)' <=> "count" \in S)
  BY <1>1, <1>2 DEF At, IInv, TypeOK
<1>4. Queued' = Queued /\ PublishedNextId' = PublishedNextId
  BY <1>1, <1>2, <1>3 DEF Queued, PublishedNextId
<1>5. QueuedEvents' = QueuedEvents
  <2> SUFFICES ASSUME NEW k \in 1 .. Queued
               PROVE  buffer[Slot(k - 1)]' = buffer[Slot(k - 1)]
    BY <1>4, SameQueuedEvents
  <2>1. Queued = count /\ tail = Slot(count) /\ count < Size
    BY <1>3 DEF Queued, IInv, RingShape
  <2>2. Slot(k - 1)' = Slot(k - 1) /\ Slot(k - 1) # tail
    BY <1>1, <2>1 DEF IInv, TypeOK, Slot, Slots
  <2> QED
    BY <1>1, <2>2 DEF IInv, TypeOK
<1> QED
  BY <1>1, <1>4, <1>5, Stutters

LEMMA CountUpRefines ==
  ASSUME IInv, NEW p \in Producers, CountUp(p)
  PROVE  UNCHANGED Fifo!fifoVars
<1>1. /\ pc[p] = "count" /\ pc' = [pc EXCEPT ![p] = "signal"]
      /\ count' = count + 1
      /\ UNCHANGED <<buffer, head, droppedEvents, nextId, lock, wakeEvent, event>>
  BY DEF CountUp, Goto, ring
<1>2. p \in Threads /\ lock = p /\ lock # Free
  BY <1>1, ThreadAssumption DEF IInv, MutualExclusion, SectionPoints, Threads
<1>3. ASSUME NEW S
      PROVE  (At(S) <=> "count" \in S) /\ (At(S)' <=> "signal" \in S)
  BY <1>1, <1>2 DEF At, IInv, TypeOK
<1>4. Queued' = Queued /\ PublishedNextId' = PublishedNextId
  BY <1>1, <1>2, <1>3 DEF Queued, PublishedNextId, IInv, TypeOK
<1>5. QueuedEvents' = QueuedEvents
  BY <1>1, <1>4, SameQueuedEvents DEF Slot
<1> QED
  BY <1>1, <1>4, <1>5, Stutters

LEMMA CountDownRefines ==
  ASSUME IInv, CountDown(Writer)
  PROVE  UNCHANGED Fifo!fifoVars
<1>1. /\ pc[Writer] = "uncount" /\ pc' = [pc EXCEPT ![Writer] = "release"]
      /\ count' = count - 1
      /\ UNCHANGED <<buffer, head, droppedEvents, nextId, lock, wakeEvent, event>>
  BY DEF CountDown, Goto, ring
<1>2. Writer \in Threads /\ lock = Writer /\ lock # Free
  BY <1>1, ThreadAssumption DEF IInv, MutualExclusion, SectionPoints, Threads
<1>3. ASSUME NEW S
      PROVE  (At(S) <=> "uncount" \in S) /\ (At(S)' <=> "release" \in S)
  BY <1>1, <1>2 DEF At, IInv, TypeOK
<1>4. Queued' = Queued /\ PublishedNextId' = PublishedNextId
  BY <1>1, <1>2, <1>3 DEF Queued, PublishedNextId
<1>5. QueuedEvents' = QueuedEvents
  BY <1>1, <1>4, SameQueuedEvents DEF Slot
<1> QED
  BY <1>1, <1>4, <1>5, Stutters

\* The steps that take effect for the queue's clients.
LEMMA DropWhenFullRefines ==
  ASSUME IInv, NEW p \in Producers, DropWhenFull(p)
  PROVE  Fifo!PushDropped
<1>1. /\ count = Size /\ pc[p] = "push" /\ pc' = [pc EXCEPT ![p] = "release"]
      /\ droppedEvents' = NextUlong(droppedEvents)
      /\ UNCHANGED <<buffer, head, count, nextId, lock, wakeEvent, event>>
  BY DEF DropWhenFull, Goto, ring
<1>2. p \in Threads /\ lock = p /\ lock # Free
  BY <1>1, ThreadAssumption DEF IInv, MutualExclusion, SectionPoints, Threads
<1>3. ASSUME NEW S
      PROVE  (At(S) <=> "push" \in S) /\ (At(S)' <=> "release" \in S)
  BY <1>1, <1>2 DEF At, IInv, TypeOK
<1>4. Queued = Size /\ Queued' = Queued /\ PublishedNextId' = PublishedNextId
  BY <1>1, <1>2, <1>3 DEF Queued, PublishedNextId
<1>5. QueuedEvents' = QueuedEvents
  BY <1>1, <1>4, SameQueuedEvents DEF Slot
<1>6. Len(QueuedEvents) = Size
  BY <1>4, QueuedEventsProperties
<1> QED
  BY <1>1, <1>4, <1>5, <1>6 DEF Fifo!PushDropped, Fifo!NextUlong, NextUlong

LEMMA SignalRefines ==
  ASSUME IInv, IInv', NEW p \in Producers, Signal(p)
  PROVE  \E d \in Producers : Fifo!PushAccepted(d)
<1> USE SizeAssumption
<1>1. /\ pc[p] = "signal" /\ pc' = [pc EXCEPT ![p] = "release"]
      /\ wakeEvent' = TRUE
      /\ UNCHANGED <<buffer, head, tail, count, droppedEvents, nextId, lock, event>>
  BY DEF Signal, Goto, ring
<1>2. p \in Threads /\ lock = p /\ lock # Free
  BY <1>1, ThreadAssumption DEF IInv, MutualExclusion, SectionPoints, Threads
<1>3. ASSUME NEW S
      PROVE  (At(S) <=> "signal" \in S) /\ (At(S)' <=> "release" \in S)
  BY <1>1, <1>2 DEF At, IInv, TypeOK
<1>4. /\ count \in 1 .. Size /\ Queued = count - 1 /\ Queued' = count
      /\ PublishedNextId = event[p].Id /\ PublishedNextId' = nextId
      /\ nextId = NextUlong(event[p].Id)
      /\ buffer[Slot(count - 1)] = event[p]
  BY <1>1, <1>2, <1>3 DEF Queued, PublishedNextId, IInv, TypeOK, RingShape, PushInProgress
<1>5. /\ event[p] \in EventType
      /\ event[p] = [Id |-> event[p].Id, Data |-> event[p].Data]
      /\ event[p].Data \in Producers
  BY <1>1 DEF IInv, LocalEvents, EventType
<1>6. QueuedEvents' = Append(QueuedEvents, event[p])
  <2> count \in Nat \ {0}
    BY <1>4
  <2>1. /\ QueuedEvents \in Seq(EventType) /\ Len(QueuedEvents) = count - 1
        /\ \A k \in 1 .. count - 1 : QueuedEvents[k] = buffer[Slot(k - 1)]
    BY <1>4, QueuedEventsProperties
  <2>2. QueuedEvents' = [k \in 1 .. count |-> buffer[Slot(k - 1)]]
    BY <1>1, <1>4 DEF QueuedEvents, Slot
  <2>3. \A k \in 1 .. count : buffer[Slot(k - 1)] \in EventType
    BY <1>1, <1>4 DEF IInv, QueuedOK, Slot
  <2>4. /\ QueuedEvents' \in Seq(EventType) /\ Len(QueuedEvents') = count
    <3>1. QueuedEvents' \in [1 .. count -> EventType]
      BY <2>2, <2>3
    <3>2. QueuedEvents' \in Seq(EventType)
      BY <3>1, SeqDef
    <3> QED
      BY <2>2, <3>2, LenProperties
  <2>5. /\ Append(QueuedEvents, event[p]) \in Seq(EventType)
        /\ Len(Append(QueuedEvents, event[p])) = count
        /\ \A k \in 1 .. count - 1 : Append(QueuedEvents, event[p])[k] = QueuedEvents[k]
        /\ Append(QueuedEvents, event[p])[count] = event[p]
    BY <1>4, <1>5, <2>1, AppendProperties
  <2>6. ASSUME NEW k \in 1 .. count
        PROVE  QueuedEvents'[k] = Append(QueuedEvents, event[p])[k]
    <3>1. CASE k = count
      BY <1>4, <2>2, <2>5, <3>1
    <3>2. CASE k # count
      BY <2>1, <2>2, <2>5, <3>2
    <3> QED
      BY <3>1, <3>2
  <2> QED
    BY <2>4, <2>5, <2>6, SeqEqual
<1>7. Len(QueuedEvents) < Size
  BY <1>4, QueuedEventsProperties
<1>8. Fifo!PushAccepted(event[p].Data)
  BY <1>1, <1>4, <1>5, <1>6, <1>7
     DEF Fifo!PushAccepted, Fifo!NextUlong, NextUlong
<1> QED
  BY <1>5, <1>8

LEMMA FindEmptyRefines ==
  ASSUME IInv, FindEmpty(Writer)
  PROVE  Fifo!PopNothing
<1>1. /\ count = 0 /\ pc[Writer] = "pop" /\ pc' = [pc EXCEPT ![Writer] = "release"]
      /\ event' = [event EXCEPT ![Writer] = NoEvent]
      /\ UNCHANGED <<buffer, head, count, droppedEvents, nextId, lock, wakeEvent>>
  BY DEF FindEmpty, Goto, ring
<1>2. Writer \in Threads /\ lock = Writer /\ lock # Free
  BY <1>1, ThreadAssumption DEF IInv, MutualExclusion, SectionPoints, Threads
<1>3. ASSUME NEW S
      PROVE  (At(S) <=> "pop" \in S) /\ (At(S)' <=> "release" \in S)
  BY <1>1, <1>2 DEF At, IInv, TypeOK
<1>4. Queued = 0 /\ Queued' = Queued /\ PublishedNextId' = PublishedNextId
  BY <1>1, <1>2, <1>3 DEF Queued, PublishedNextId
<1>5. QueuedEvents' = QueuedEvents
  BY <1>1, <1>4, SameQueuedEvents DEF Slot
<1>6. QueuedEvents = <<>>
  BY <1>4, QueuedEventsProperties, EmptySeq, SeqEqual
<1>7. event'[Writer] = NoEvent
  BY <1>1, <1>2 DEF IInv, TypeOK
<1> QED
  BY <1>1, <1>4, <1>5, <1>6, <1>7 DEF Fifo!PopNothing

LEMMA TakeRefines ==
  ASSUME IInv, IInv', Take(Writer)
  PROVE  Fifo!PopEvent
<1> USE SizeAssumption
<1>1. /\ count # 0 /\ pc[Writer] = "pop" /\ pc' = [pc EXCEPT ![Writer] = "uncount"]
      /\ event' = [event EXCEPT ![Writer] = buffer[head]]
      /\ head' = EventQueueNextIndex(head)
      /\ UNCHANGED <<buffer, tail, count, droppedEvents, nextId, lock, wakeEvent>>
  BY DEF Take, Goto, ring
<1>2. Writer \in Threads /\ lock = Writer /\ lock # Free
  BY <1>1, ThreadAssumption DEF IInv, MutualExclusion, SectionPoints, Threads
<1>3. ASSUME NEW S
      PROVE  (At(S) <=> "pop" \in S) /\ (At(S)' <=> "uncount" \in S)
  BY <1>1, <1>2 DEF At, IInv, TypeOK
<1>4. /\ count \in 1 .. Size /\ Queued = count /\ Queued' = count - 1
      /\ PublishedNextId' = PublishedNextId
  BY <1>1, <1>2, <1>3 DEF Queued, PublishedNextId, IInv, TypeOK
<1>5. /\ QueuedEvents \in Seq(EventType) /\ Len(QueuedEvents) = count
      /\ \A k \in 1 .. count : QueuedEvents[k] = buffer[Slot(k - 1)]
  BY <1>4, QueuedEventsProperties
<1>6. QueuedEvents # <<>>
  BY <1>4, <1>5, EmptySeq
<1>7. event'[Writer] = Head(QueuedEvents)
  <2>1. QueuedEvents[1] = buffer[head]
    BY <1>4, <1>5 DEF Slot, IInv, TypeOK, Slots
  <2> QED
    BY <1>1, <1>2, <1>5, <1>6, <2>1 DEF IInv, TypeOK
<1>8. QueuedEvents' = Tail(QueuedEvents)
  <2>1. ASSUME NEW k \in 1 .. count - 1
        PROVE  /\ Slot(k - 1)' = Slot((k + 1) - 1)
               /\ buffer[Slot((k + 1) - 1)] = QueuedEvents[k + 1]
    BY <1>1, <1>4, <1>5 DEF Slot, EventQueueNextIndex, IInv, TypeOK, Slots
  <2>2. QueuedEvents' = [k \in 1 .. count - 1 |-> QueuedEvents[k + 1]]
    BY <1>1, <1>4, <2>1 DEF QueuedEvents
  <2>3. /\ Tail(QueuedEvents) \in Seq(EventType)
        /\ Len(Tail(QueuedEvents)) = count - 1
        /\ \A k \in 1 .. count - 1 : Tail(QueuedEvents)[k] = QueuedEvents[k + 1]
    BY <1>4, <1>5, <1>6, HeadTailProperties
  <2>4. QueuedEvents' \in Seq(EventType) /\ Len(QueuedEvents') = count - 1
    <3>1. QueuedEvents' \in [1 .. count - 1 -> EventType]
      BY <1>4, <1>5, <2>2, ElementOfSeq
    <3> QED
      BY <1>4, <2>2, <3>1, SeqDef, LenProperties
  <2> QED
    BY <1>4, <2>2, <2>3, <2>4, SeqEqual
<1> QED
  BY <1>1, <1>4, <1>6, <1>7, <1>8 DEF Fifo!PopEvent

LEMMA WaitForWakeRefines ==
  ASSUME IInv, WaitForWake(Writer)
  PROVE  Fifo!ConsumeWake
<1>1. /\ wakeEvent /\ wakeEvent' = FALSE
      /\ UNCHANGED <<buffer, head, count, droppedEvents, nextId, lock, pc, event>>
  BY DEF WaitForWake, ring
<1>2. Queued' = Queued /\ PublishedNextId' = PublishedNextId
  BY <1>1 DEF Queued, PublishedNextId, At
<1>3. QueuedEvents' = QueuedEvents
  BY <1>1, <1>2, SameQueuedEvents DEF Slot
<1> QED
  BY <1>1, <1>2, <1>3 DEF Fifo!ConsumeWake

LEMMA StepRefines ==
  ASSUME IInv, IInv', [Next]_vars
  PROVE  [Fifo!FifoNext]_(Fifo!fifoVars)
<1>1. ASSUME NEW p \in Producers, CallPush(p) \/ Acquire(p, "push")
      PROVE  UNCHANGED Fifo!fifoVars
  BY <1>1, OutsideRefines DEF Threads
<1>2. ASSUME CallPop(Writer) \/ Acquire(Writer, "pop")
      PROVE  UNCHANGED Fifo!fifoVars
  BY <1>2, OutsideRefines DEF Threads
<1>3. ASSUME NEW t \in Threads, Release(t)
      PROVE  UNCHANGED Fifo!fifoVars
  BY <1>3, OutsideRefines
<1>4. ASSUME NEW p \in Producers, PushSection(p)
      PROVE  [Fifo!FifoNext]_(Fifo!fifoVars)
  <2>1. ASSUME AssignId(p) \/ Store(p) \/ CountUp(p)
        PROVE  UNCHANGED Fifo!fifoVars
    BY <2>1, AssignIdRefines, StoreRefines, CountUpRefines
  <2>2. ASSUME DropWhenFull(p) \/ Signal(p)
        PROVE  Fifo!FifoNext
    BY <2>2, DropWhenFullRefines, SignalRefines DEF Fifo!FifoNext
  <2> QED
    BY <1>4, <2>1, <2>2 DEF PushSection
<1>5. ASSUME PopSection(Writer)
      PROVE  [Fifo!FifoNext]_(Fifo!fifoVars)
  BY <1>5, FindEmptyRefines, TakeRefines, CountDownRefines DEF PopSection, Fifo!FifoNext
<1>6. ASSUME WaitForWake(Writer)
      PROVE  [Fifo!FifoNext]_(Fifo!fifoVars)
  BY <1>6, WaitForWakeRefines DEF Fifo!FifoNext
<1>7. ASSUME UNCHANGED vars
      PROVE  UNCHANGED Fifo!fifoVars
  BY <1>7 DEF vars, Fifo!fifoVars, QueuedEvents, Queued, PublishedNextId, At, Slot
<1> QED
  BY <1>1, <1>2, <1>3, <1>4, <1>5, <1>6, <1>7 DEF Next

(* The lock-protected ring of event_queue.c is a bounded first-in          *)
(* first-out queue with atomic operations, for every Size and any number   *)
(* of producers: the clients of the queue may rely on BoundedFifo alone.   *)
THEOREM Refinement == Spec => ImplementsFifo
<1>1. Spec => Fifo!FifoInit /\ [][Fifo!FifoNext]_(Fifo!fifoVars)
  BY InitRefines, IInvAlways, StepRefines, PTL DEF Spec
<1> QED
  BY <1>1 DEF ImplementsFifo, Fifo!FifoSpec

-----------------------------------------------------------------------------
\* Only an accepted push and a pop change the queued events, so the ids stay
\* consecutive through every step of the abstract queue.
LEMMA ConsecutiveStep ==
  ASSUME IInv, IInv', ConsecutiveIds, [Next]_vars
  PROVE  ConsecutiveIds'
<1> DEFINE q == QueuedEvents
<1>1. /\ q \in Seq(EventType) /\ Len(q) = Queued
      /\ q' \in Seq(EventType) /\ Len(q') = Queued'
  <2>1. q \in Seq(EventType) /\ Len(q) = Queued
    BY QueuedEventsProperties
  <2>2. (q \in Seq(EventType) /\ Len(q) = Queued)'
    BY QueuedEventsProperties, PTL
  <2> QED
    BY <2>1, <2>2
<1>2. CASE UNCHANGED <<q, PublishedNextId>>
  BY <1>1, <1>2 DEF ConsecutiveIds
<1>3. CASE \E d \in Producers : Fifo!PushAccepted(d)
  <2>1. PICK e : /\ e.Id = PublishedNextId
                 /\ q' = Append(q, e)
                 /\ PublishedNextId' = NextUlong(e.Id)
    BY <1>3 DEF Fifo!PushAccepted, Fifo!NextUlong, NextUlong
  <2>2. /\ Len(q') = Len(q) + 1
        /\ \A k \in 1 .. Len(q) : q'[k] = q[k]
        /\ q'[Len(q) + 1] = e
    BY <1>1, <2>1
  <2>3. Len(q) \in Nat
    BY <1>1, LenProperties
  <2> QED
    BY <1>1, <2>1, <2>2, <2>3 DEF ConsecutiveIds
<1>4. CASE Fifo!PopEvent
  <2>1. q # <<>> /\ q' = Tail(q) /\ PublishedNextId' = PublishedNextId
    BY <1>4 DEF Fifo!PopEvent
  <2>2. /\ Len(q') = Len(q) - 1
        /\ \A k \in 1 .. Len(q') : q'[k] = q[k + 1]
    BY <1>1, <2>1, HeadTailProperties
  <2>3. Len(q) \in Nat /\ Len(q') \in Nat
    BY <1>1, LenProperties
  <2> QED
    BY <1>1, <2>1, <2>2, <2>3 DEF ConsecutiveIds
<1> QED
  BY <1>2, <1>3, <1>4, StepRefines
     DEF Fifo!FifoNext, Fifo!fifoVars, Fifo!PushDropped, Fifo!PopNothing, Fifo!ConsumeWake

(* The ids in the queue are consecutive and end just below the next one.   *)
THEOREM IdsConsecutive == Spec => []ConsecutiveIds
<1>1. Init => ConsecutiveIds
  BY DEF Init, ConsecutiveIds, Queued, At
<1> QED
  BY <1>1, IInvAlways, ConsecutiveStep, PTL DEF Spec
-----------------------------------------------------------------------------
(* A critical section is short and undisturbed.                            *)

\* How many steps the holder of the lock is from having released it at most.
StepsToRelease ==
  CASE At({"push"})           -> 5
    [] At({"store"})          -> 4
    [] At({"count", "pop"})   -> 3
    [] At({"signal", "uncount"}) -> 2
    [] At({"release"})        -> 1
    [] OTHER                  -> 0

HolderSteps ==
  /\ StepsToRelease' < StepsToRelease
  /\ \A t \in Threads \ {lock} : UNCHANGED <<pc[t], event[t]>>

OthersStep == UNCHANGED <<ring, droppedEvents, nextId, lock, pc[lock], event[lock]>>

\* The number read off the point the holder is at, before a step
LEMMA StepsAt ==
  /\ lock = Free => StepsToRelease = 0
  /\ At({"push"}) => StepsToRelease = 5
  /\ At({"store"}) => StepsToRelease = 4
  /\ At({"count", "pop"}) => StepsToRelease = 3
  /\ At({"signal", "uncount"}) => StepsToRelease = 2
  /\ At({"release"}) => StepsToRelease = 1
  BY DEF StepsToRelease, At

\* and after it.
LEMMA StepsNext ==
  /\ lock' = Free => StepsToRelease' = 0
  /\ lock' # Free /\ pc'[lock'] = "store" => StepsToRelease' = 4
  /\ lock' # Free /\ pc'[lock'] \in {"count", "pop"} => StepsToRelease' = 3
  /\ lock' # Free /\ pc'[lock'] \in {"signal", "uncount"} => StepsToRelease' = 2
  /\ lock' # Free /\ pc'[lock'] = "release" => StepsToRelease' = 1
  BY DEF StepsToRelease, At

\* A thread in a section is the holder, and its step brings it nearer the end.
LEMMA SectionStep ==
  ASSUME IInv, NEW t \in Threads,
         \/ t \in Producers /\ PushSection(t)
         \/ t = Writer /\ PopSection(t)
         \/ Release(t)
  PROVE  HolderSteps
<1>1. pc \in [Threads -> {"idle", "acquire"} \cup SectionPoints]
  BY DEF IInv, TypeOK
<1>2. t \in Threads /\ t # Free
  BY ThreadAssumption
<1>3. pc[t] \in SectionPoints
  BY DEF PushSection, PopSection, DropWhenFull, AssignId, Store, CountUp, Signal,
         FindEmpty, Take, CountDown, Release, Goto, SectionPoints
<1>4. lock = t /\ lock # Free
  BY <1>2, <1>3 DEF IInv, MutualExclusion
<1>5. /\ pc' = [pc EXCEPT ![t] = pc'[t]]
      /\ \A u \in Threads \ {t} : event'[u] = event[u]
  BY <1>1, <1>2
     DEF PushSection, PopSection, DropWhenFull, AssignId, Store, CountUp, Signal,
         FindEmpty, Take, CountDown, Release, Goto, IInv, TypeOK
<1>6. \A u \in Threads \ {lock} : UNCHANGED <<pc[u], event[u]>>
  BY <1>1, <1>4, <1>5
<1>7. ASSUME Release(t) PROVE StepsToRelease' < StepsToRelease
  <2>1. At({"release"}) /\ lock' = Free
    BY <1>4, <1>7 DEF Release, Goto, At
  <2>2. StepsToRelease = 1 /\ StepsToRelease' = 0
    BY <2>1, StepsAt, StepsNext
  <2> QED
    BY <2>2
<1>8. ASSUME PushSection(t) PROVE StepsToRelease' < StepsToRelease
  <2>1. lock' = t
    BY <1>4, <1>8 DEF PushSection, DropWhenFull, AssignId, Store, CountUp, Signal
  <2>2. \/ pc[t] = "push" /\ pc'[t] \in {"release", "store"}
        \/ pc[t] = "store" /\ pc'[t] = "count"
        \/ pc[t] = "count" /\ pc'[t] = "signal"
        \/ pc[t] = "signal" /\ pc'[t] = "release"
    BY <1>1, <1>8 DEF PushSection, DropWhenFull, AssignId, Store, CountUp, Signal, Goto
  <2>3. \/ StepsToRelease = 5 /\ StepsToRelease' \in {1, 4}
        \/ StepsToRelease = 4 /\ StepsToRelease' = 3
        \/ StepsToRelease = 3 /\ StepsToRelease' = 2
        \/ StepsToRelease = 2 /\ StepsToRelease' = 1
    BY <1>2, <1>4, <2>1, <2>2, StepsAt, StepsNext DEF At
  <2> QED
    BY <2>3
<1>9. ASSUME PopSection(t) PROVE StepsToRelease' < StepsToRelease
  <2>1. lock' = t
    BY <1>4, <1>9 DEF PopSection, FindEmpty, Take, CountDown
  <2>2. \/ pc[t] = "pop" /\ pc'[t] \in {"release", "uncount"}
        \/ pc[t] = "uncount" /\ pc'[t] = "release"
    BY <1>1, <1>9 DEF PopSection, FindEmpty, Take, CountDown, Goto
  <2>3. \/ StepsToRelease = 3 /\ StepsToRelease' \in {1, 2}
        \/ StepsToRelease = 2 /\ StepsToRelease' = 1
    BY <1>2, <1>4, <2>1, <2>2, StepsAt, StepsNext DEF At
  <2> QED
    BY <2>3
<1> QED
  BY <1>6, <1>7, <1>8, <1>9 DEF HolderSteps

\* A thread outside its section, or spinning, is not the holder and leaves it be.
LEMMA OutsideStep ==
  ASSUME IInv, lock # Free, NEW t \in Threads,
         \/ t \in Producers /\ CallPush(t)
         \/ CallPop(t)
         \/ \E enter \in {"push", "pop"} : Acquire(t, enter)
         \/ WaitForWake(t)
  PROVE  OthersStep
<1>1. /\ lock \in Threads /\ pc[lock] \in SectionPoints
      /\ pc \in [Threads -> {"idle", "acquire"} \cup SectionPoints]
  BY DEF IInv, TypeOK, MutualExclusion
<1>2. CASE WaitForWake(t)
  BY <1>2 DEF WaitForWake, OthersStep, ring
<1>3. CASE CallPop(t) \/ (t \in Producers /\ CallPush(t))
  <2>1. /\ t # lock /\ pc' = [pc EXCEPT ![t] = "acquire"]
        /\ UNCHANGED <<ring, droppedEvents, nextId, lock>>
    BY <1>1, <1>3 DEF CallPop, CallPush, Goto, SectionPoints
  <2>2. event'[lock] = event[lock] /\ pc'[lock] = pc[lock]
    BY <1>1, <1>3, <2>1 DEF CallPop, CallPush, IInv, TypeOK
  <2> QED
    BY <2>1, <2>2 DEF OthersStep
<1>4. ~ \E enter \in {"push", "pop"} : Acquire(t, enter)
  BY DEF Acquire
<1> QED
  BY <1>2, <1>3, <1>4

(* Whoever holds Lock releases it after at most five more steps of its     *)
(* own, and until then no other thread changes what it has read: neither   *)
(* the ring and its counters nor its own event.  SectionsFinish needs only *)
(* in addition that the holder goes on, which is its fairness.             *)
THEOREM SectionsAreShort ==
  Spec => [](StepsToRelease \in 0 .. 5) /\ [][lock # Free => HolderSteps \/ OthersStep]_vars
<1>1. StepsToRelease \in 0 .. 5
  BY DEF StepsToRelease
<1>2. ASSUME IInv, lock # Free, Next PROVE HolderSteps \/ OthersStep
  <2>1. Producers \subseteq Threads /\ Writer \in Threads
    BY DEF Threads
  <2>2. CASE \/ \E p \in Producers : PushSection(p)
             \/ PopSection(Writer)
             \/ \E t \in Threads : Release(t)
    BY <1>2, <2>1, <2>2, SectionStep
  <2>3. CASE \/ \E p \in Producers : CallPush(p) \/ Acquire(p, "push")
             \/ CallPop(Writer) \/ Acquire(Writer, "pop")
             \/ WaitForWake(Writer)
    BY <1>2, <2>1, <2>3, OutsideStep
  <2> QED
    BY <1>2, <2>2, <2>3 DEF Next
<1>3. IInv /\ [Next]_vars => [lock # Free => HolderSteps \/ OthersStep]_vars
  BY <1>2
<1> QED
  BY <1>1, <1>3, IInvAlways, PTL DEF Spec
=============================================================================
