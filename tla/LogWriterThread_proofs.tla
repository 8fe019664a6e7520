----------------------- MODULE LogWriterThread_proofs -----------------------
(***************************************************************************)
(* Proofs about the writer thread: its types, and that no wakeup is lost.  *)
(***************************************************************************)
EXTENDS LogWriterThread, SequenceTheorems, TLAPS

-----------------------------------------------------------------------------
(* The steps of the queue keep its types; the modules that use the queue   *)
(* cite these lemmas.                                                      *)

LEMMA NextUlongType == ASSUME NEW n \in Ulong PROVE NextUlong(n) \in Ulong
  BY UlongAssumption DEF NextUlong, Ulong

LEMMA InitFifoType == FifoInit => FifoTypeOK
<1> SUFFICES ASSUME FifoInit PROVE FifoTypeOK
  OBVIOUS
<1>1. fifo \in Seq(EventType) /\ Len(fifo) <= Size
  BY EmptySeq, SizeAssumption DEF FifoInit
<1>2. 0 \in Ulong
  BY UlongAssumption DEF Ulong
<1> QED
  BY <1>1, <1>2 DEF FifoInit, FifoTypeOK

LEMMA PushAcceptedType ==
  ASSUME FifoTypeOK, NEW d \in Contents, PushAccepted(d)
  PROVE  FifoTypeOK'
<1>1. [Id |-> nextId, Data |-> d] \in EventType
  BY DEF FifoTypeOK, EventType
<1>2. fifo' \in Seq(EventType) /\ Len(fifo') = Len(fifo) + 1
  BY <1>1, AppendProperties DEF PushAccepted, FifoTypeOK
<1>3. Len(fifo') <= Size
  BY <1>2, LenProperties, SizeAssumption DEF PushAccepted, FifoTypeOK
<1>4. nextId' \in Ulong
  BY NextUlongType DEF PushAccepted, FifoTypeOK
<1> QED
  BY <1>2, <1>3, <1>4 DEF PushAccepted, FifoTypeOK

LEMMA PushDroppedType == FifoTypeOK /\ PushDropped => FifoTypeOK'
  BY NextUlongType DEF PushDropped, FifoTypeOK

LEMMA PopEventType == FifoTypeOK /\ PopEvent => FifoTypeOK'
<1> SUFFICES ASSUME FifoTypeOK, PopEvent PROVE FifoTypeOK'
  OBVIOUS
<1>1. /\ Head(fifo) \in EventType /\ Tail(fifo) \in Seq(EventType)
      /\ Len(Tail(fifo)) = Len(fifo) - 1
  BY HeadTailProperties DEF FifoTypeOK, PopEvent
<1>2. Len(Tail(fifo)) <= Size
  BY <1>1, LenProperties, SizeAssumption DEF FifoTypeOK
<1> QED
  BY <1>1, <1>2 DEF PopEvent, FifoTypeOK

LEMMA PopNothingType == FifoTypeOK /\ PopNothing => FifoTypeOK'
  BY DEF PopNothing, FifoTypeOK

LEMMA ConsumeWakeType == FifoTypeOK /\ ConsumeWake => FifoTypeOK'
  BY DEF ConsumeWake, FifoTypeOK

LEMMA FifoUnchangedType == FifoTypeOK /\ UNCHANGED fifoVars => FifoTypeOK'
  BY DEF fifoVars, FifoTypeOK

-----------------------------------------------------------------------------
(* An accepted push signals WakeEvent in the step that fills the queue,    *)
(* and the thread leaves the drain loop in the step that finds the queue   *)
(* empty: there is no instant between in which a wakeup could get lost.    *)

ThreadInv == ThreadTypeOK /\ NoLostWakeup

LEMMA InitThreadInv == ThreadInit => ThreadInv
  BY InitFifoType DEF ThreadInit, ThreadInv, ThreadTypeOK, NoLostWakeup, ThreadPoints, FifoInit

LEMMA PushThreadInv ==
  ASSUME ThreadInv, NEW d \in Contents, Push(d)
  PROVE  ThreadInv'
<1>1. ThreadTypeOK'
  BY PushAcceptedType, PushDroppedType DEF Push, ThreadInv, ThreadTypeOK
<1>2. NoLostWakeup'
  BY DEF Push, ThreadInv, NoLostWakeup, PushAccepted, PushDropped
<1> QED
  BY <1>1, <1>2 DEF ThreadInv

LEMMA CreateThreadInv == ThreadInv /\ CreateThread => ThreadInv'
<1> SUFFICES ASSUME ThreadInv, CreateThread PROVE ThreadInv'
  OBVIOUS
<1>1. FifoTypeOK'
  BY FifoUnchangedType DEF CreateThread, ThreadInv, ThreadTypeOK
<1> QED
  BY <1>1 DEF CreateThread, ThreadInv, ThreadTypeOK, NoLostWakeup, ThreadPoints, fifoVars

LEMMA SetStopEventInv == ThreadInv /\ SetStopEvent => ThreadInv'
<1> SUFFICES ASSUME ThreadInv, SetStopEvent PROVE ThreadInv'
  OBVIOUS
<1>1. FifoTypeOK'
  BY FifoUnchangedType DEF SetStopEvent, ThreadInv, ThreadTypeOK
<1> QED
  BY <1>1 DEF SetStopEvent, ThreadInv, ThreadTypeOK, NoLostWakeup, fifoVars

LEMMA WaitStepInv == ThreadInv /\ WaitStep => ThreadInv'
<1> SUFFICES ASSUME ThreadInv, WaitStep PROVE ThreadInv'
  OBVIOUS
<1>1. CASE SeeStop
  <2>1. FifoTypeOK'
    BY <1>1, FifoUnchangedType DEF SeeStop, ThreadInv, ThreadTypeOK
  <2> QED
    BY <1>1, <2>1 DEF SeeStop, ThreadInv, ThreadTypeOK, NoLostWakeup, ThreadPoints
<1>2. CASE SeeWake
  <2>1. FifoTypeOK'
    BY <1>2, ConsumeWakeType DEF SeeWake, ThreadInv, ThreadTypeOK
  <2> QED
    BY <1>2, <2>1 DEF SeeWake, ThreadInv, ThreadTypeOK, NoLostWakeup, ThreadPoints
<1>3. CASE Block
  <2>1. FifoTypeOK'
    BY <1>3, FifoUnchangedType DEF Block, ThreadInv, ThreadTypeOK
  <2> QED
    BY <1>3, <2>1 DEF Block, ThreadInv, ThreadTypeOK, NoLostWakeup, ThreadPoints, fifoVars
<1> QED
  BY <1>1, <1>2, <1>3 DEF WaitStep

LEMMA PopToWriteInv == ThreadInv /\ PopToWrite => ThreadInv'
<1> SUFFICES ASSUME ThreadInv, PopToWrite PROVE ThreadInv'
  OBVIOUS
<1>1. FifoTypeOK'
  BY PopEventType DEF PopToWrite, ThreadInv, ThreadTypeOK
<1> QED
  BY <1>1 DEF PopToWrite, ThreadInv, ThreadTypeOK, NoLostWakeup, ThreadPoints

LEMMA PopToWaitInv == ThreadInv /\ PopToWait => ThreadInv'
<1> SUFFICES ASSUME ThreadInv, PopToWait PROVE ThreadInv'
  OBVIOUS
<1>1. FifoTypeOK'
  BY PopNothingType DEF PopToWait, ThreadInv, ThreadTypeOK
<1> QED
  BY <1>1 DEF PopToWait, PopNothing, ThreadInv, ThreadTypeOK, NoLostWakeup, ThreadPoints

LEMMA WriteReturnsInv == ThreadInv /\ WriteReturns => ThreadInv'
<1> SUFFICES ASSUME ThreadInv, WriteReturns PROVE ThreadInv'
  OBVIOUS
<1>1. FifoTypeOK'
  BY FifoUnchangedType DEF WriteReturns, ThreadInv, ThreadTypeOK
<1> QED
  BY <1>1 DEF WriteReturns, ThreadInv, ThreadTypeOK, NoLostWakeup, ThreadPoints

LEMMA ThreadUnchangedInv == ThreadInv /\ UNCHANGED threadVars => ThreadInv'
<1> SUFFICES ASSUME ThreadInv, UNCHANGED threadVars PROVE ThreadInv'
  OBVIOUS
<1>1. FifoTypeOK'
  BY FifoUnchangedType DEF threadVars, fifoVars, ThreadInv, ThreadTypeOK
<1> QED
  BY <1>1 DEF threadVars, ThreadInv, ThreadTypeOK, NoLostWakeup

LEMMA NextThreadInv == ThreadInv /\ [ThreadNext]_threadVars => ThreadInv'
  BY PushThreadInv, CreateThreadInv, SetStopEventInv, WaitStepInv, PopToWriteInv,
     PopToWaitInv, WriteReturnsInv, ThreadUnchangedInv
     DEF ThreadNext, ThreadStep, Pushing

(* The thread and the queue stay well typed.                               *)
THEOREM ThreadTypeCorrect == ThreadSpec => []ThreadTypeOK
<1>1. ThreadInv => ThreadTypeOK
  BY DEF ThreadInv
<1> QED
  BY <1>1, InitThreadInv, NextThreadInv, PTL DEF ThreadSpec

(* The one-bit WakeEvent never leaves events behind in front of a thread   *)
(* that waits, for every queue size and however many pushes there are.     *)
THEOREM NoWakeupIsLost == ThreadSpec => []NoLostWakeup
<1>1. ThreadInv => NoLostWakeup
  BY DEF ThreadInv
<1> QED
  BY <1>1, InitThreadInv, NextThreadInv, PTL DEF ThreadSpec

(* The thread and those who start and stop it touch the queue through its  *)
(* operations only: all that BoundedFifo promises holds while they run.    *)
THEOREM ThreadUsesQueue == ThreadSpec => FifoSpec
<1>1. ThreadInit => FifoInit
  BY DEF ThreadInit
<1>2. [ThreadNext]_threadVars => [FifoNext]_fifoVars
  <2> SUFFICES ASSUME [ThreadNext]_threadVars PROVE [FifoNext]_fifoVars
    OBVIOUS
  <2>1. ASSUME Pushing PROVE FifoNext
    BY <2>1 DEF Pushing, Push, FifoNext
  <2>2. ASSUME CreateThread \/ SetStopEvent \/ SeeStop \/ Block \/ WriteReturns
        PROVE  UNCHANGED fifoVars
    BY <2>2 DEF CreateThread, SetStopEvent, SeeStop, Block, WriteReturns
  <2>3. ASSUME SeeWake \/ PopToWrite \/ PopToWait PROVE FifoNext
    BY <2>3 DEF SeeWake, PopToWrite, PopToWait, FifoNext
  <2>4. ASSUME UNCHANGED threadVars PROVE UNCHANGED fifoVars
    BY <2>4 DEF threadVars, fifoVars
  <2> QED
    BY <2>1, <2>2, <2>3, <2>4 DEF ThreadNext, ThreadStep, WaitStep
<1> QED
  BY <1>1, <1>2, PTL DEF ThreadSpec, FifoSpec
=============================================================================
