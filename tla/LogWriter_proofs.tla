-------------------------- MODULE LogWriter_proofs --------------------------
(***************************************************************************)
(* Proofs about the log writer: where its handles and its thread are at    *)
(* each point of Start and Stop, and what has become of every event.       *)
(***************************************************************************)
EXTENDS LogWriter, LogWriterThread_proofs

\* What has been set up at each point of Start and Stop.
Lifecycle ==
  /\ caller \in {"unstarted", "create"} => thread = "none"
  /\ caller \in {"create", "reference", "running", "join"} => logFile
  /\ caller \in {"running", "join"} => threadObject
  /\ caller = "stopped" => thread = "exited" /\ ~ threadObject /\ ~ logFile
  /\ caller \in {"unstarted", "create"} => threadHandle = "none"
  /\ caller \in {"running", "join", "stopped"} => threadHandle = "closed"
  /\ caller = "failed" =>
       threadHandle = IF thread = "none" THEN "none" ELSE "closed twice"
  /\ caller = "reference" => thread # "none"

\* WriteEvent is only called with an event that Pop returned.
HandHoldsEvent == thread = "write" => out \in EventType

Control == WriterTypeOK /\ Lifecycle /\ HandHoldsEvent

Popped == Len(accepted) - Len(fifo)

\* Ids do not wrap, so they tell the place of an event among the accepted.
IdsArePlaces ==
  /\ nextId = Len(accepted)
  /\ \A i \in 1 .. Len(accepted) : accepted[i].Id = i - 1

QueueIsSuffix ==
  /\ Popped >= 0
  /\ \A k \in 1 .. Len(fifo) : fifo[k] = accepted[Popped + k]

HandIsLastPopped ==
  thread = "write" => Popped >= 1 /\ out = accepted[Popped]

\* How many of the popped events WriteEvent has dealt with.
Settled == IF thread = "write" THEN Popped - 1 ELSE Popped

SettledArePrefix ==
  /\ Range(log) \cup lost = {accepted[i] : i \in 1 .. Settled}
  /\ Range(log) \cap lost = {}

History ==
  /\ accepted \in Seq(EventType)
  /\ fifo \in Seq(EventType)
  /\ log \in Seq(EventType)
  /\ IdsArePlaces
  /\ QueueIsSuffix
  /\ HandIsLastPopped
  /\ SettledArePrefix
  /\ LogInOrder

WriterInv == Control /\ History

-----------------------------------------------------------------------------
(* Types and handles.                                                      *)

LEMMA InitControl == WriterInit => Control
<1> SUFFICES ASSUME WriterInit PROVE Control
  OBVIOUS
<1>1. ThreadTypeOK /\ thread = "none"
  BY InitThreadInv DEF WriterInit, ThreadInv, ThreadInit
<1>2. /\ accepted \in Seq(EventType) /\ Len(accepted) <= MaxEvents
      /\ log \in Seq(EventType)
  BY EmptySeq, MaxEventsAssumption DEF WriterInit
<1>3. WriterTypeOK
  BY <1>1, <1>2 DEF WriterInit, WriterTypeOK, CallerPoints, HandleStates
<1> QED
  BY <1>1, <1>3 DEF WriterInit, Control, Lifecycle, HandHoldsEvent

\* The steps of the thread and of the pushes on the types of what they share.
LEMMA ThreadStepTypes ==
  /\ ThreadTypeOK /\ WaitStep => ThreadTypeOK'
  /\ ThreadTypeOK /\ PopToWrite => ThreadTypeOK'
  /\ ThreadTypeOK /\ PopToWait => ThreadTypeOK'
  /\ ThreadTypeOK /\ WriteReturns => ThreadTypeOK'
  /\ ThreadTypeOK /\ UNCHANGED threadVars => ThreadTypeOK'
  /\ ThreadTypeOK /\ CreateThread => ThreadTypeOK'
  /\ ThreadTypeOK /\ SetStopEvent => ThreadTypeOK'
<1> USE DEF ThreadTypeOK, ThreadPoints
<1>1. ThreadTypeOK /\ WaitStep => ThreadTypeOK'
  BY FifoUnchangedType, ConsumeWakeType DEF WaitStep, SeeStop, SeeWake, Block
<1>2. ThreadTypeOK /\ PopToWrite => ThreadTypeOK'
  BY PopEventType DEF PopToWrite
<1>3. ThreadTypeOK /\ PopToWait => ThreadTypeOK'
  BY PopNothingType DEF PopToWait
<1>4. ThreadTypeOK /\ WriteReturns => ThreadTypeOK'
  BY FifoUnchangedType DEF WriteReturns
<1>5. ThreadTypeOK /\ UNCHANGED threadVars => ThreadTypeOK'
  BY FifoUnchangedType DEF threadVars, fifoVars
<1>6. ThreadTypeOK /\ CreateThread => ThreadTypeOK'
  BY FifoUnchangedType DEF CreateThread
<1>7. ThreadTypeOK /\ SetStopEvent => ThreadTypeOK'
  BY FifoUnchangedType DEF SetStopEvent
<1> QED
  BY <1>1, <1>2, <1>3, <1>4, <1>5, <1>6, <1>7

LEMMA StartControl == Control /\ Start => Control'
<1> SUFFICES ASSUME Control, Start PROVE Control'
  OBVIOUS
<1> USE DEF Start, OpenFile, OpenFileFails, StartThread, StartThreadFails,
            ReferenceThread, ReferenceThreadFails, CallerGoto, CreateThread,
            handles, history, threadVars, fifoVars
<1>1. ThreadTypeOK'
  BY ThreadStepTypes DEF Control, WriterTypeOK
<1>2. WriterTypeOK'
  BY <1>1 DEF Control, WriterTypeOK, CallerPoints, HandleStates
<1>3. Lifecycle'
  BY DEF Control, Lifecycle
<1>4. HandHoldsEvent'
  BY DEF Control, HandHoldsEvent
<1> QED
  BY <1>2, <1>3, <1>4 DEF Control

LEMMA StopControl == Control /\ Stop => Control'
<1> SUFFICES ASSUME Control, Stop PROVE Control'
  OBVIOUS
<1> USE DEF Stop, RequestStop, JoinThread, CallerGoto, SetStopEvent,
            handles, history, threadVars, fifoVars
<1>1. ThreadTypeOK'
  BY ThreadStepTypes DEF Control, WriterTypeOK
<1>2. WriterTypeOK'
  BY <1>1 DEF Control, WriterTypeOK, CallerPoints, HandleStates
<1>3. Lifecycle'
  BY DEF Control, Lifecycle
<1>4. HandHoldsEvent'
  BY DEF Control, HandHoldsEvent
<1> QED
  BY <1>2, <1>3, <1>4 DEF Control

LEMMA StepControl == Control /\ WriterStep => Control'
<1> SUFFICES ASSUME Control, WriterStep PROVE Control'
  OBVIOUS
<1>1. ThreadTypeOK'
  BY ThreadStepTypes
     DEF Control, WriterTypeOK, WriterStep, ThreadMoves, WriteLogged, WriteLost
<1>2. UNCHANGED <<caller, threadObject, logFile, threadHandle, accepted>>
  BY DEF WriterStep, ThreadMoves, WriteLogged, WriteLost, handles, history
<1>3. log' \in Seq(EventType) /\ lost' \subseteq EventType
  <2>1. CASE ThreadMoves
    BY <2>1 DEF Control, WriterTypeOK, ThreadMoves, history
  <2>2. CASE WriteLogged
    BY <2>2, AppendProperties
       DEF Control, WriterTypeOK, HandHoldsEvent, WriteLogged, WriteReturns
  <2>3. CASE WriteLost
    BY <2>3 DEF Control, WriterTypeOK, HandHoldsEvent, WriteLost, WriteReturns
  <2> QED
    BY <2>1, <2>2, <2>3 DEF WriterStep
<1>4. WriterTypeOK'
  BY <1>1, <1>2, <1>3 DEF Control, WriterTypeOK
<1>5. thread # "none" /\ thread # "exited"
  BY DEF WriterStep, ThreadMoves, WaitStep, SeeStop, SeeWake, Block, PopToWrite,
         PopToWait, WriteLogged, WriteLost, WriteReturns
<1>6. thread' # "none"
  BY DEF WriterStep, ThreadMoves, WaitStep, SeeStop, SeeWake, Block, PopToWrite,
         PopToWait, WriteLogged, WriteLost, WriteReturns
<1>7. Lifecycle'
  BY <1>2, <1>5, <1>6 DEF Control, Lifecycle
<1>8. HandHoldsEvent'
  <2>1. CASE PopToWrite
    BY <2>1, HeadTailProperties
       DEF Control, WriterTypeOK, ThreadTypeOK, FifoTypeOK, HandHoldsEvent,
           PopToWrite, PopEvent
  <2>2. CASE ~ PopToWrite
    BY <2>2 DEF WriterStep, ThreadMoves, WaitStep, SeeStop, SeeWake, Block,
         PopToWait, WriteLogged, WriteLost, WriteReturns, HandHoldsEvent
  <2> QED
    BY <2>1, <2>2
<1> QED
  BY <1>4, <1>7, <1>8 DEF Control

LEMMA PushControl == Control /\ WriterPush => Control'
<1> SUFFICES ASSUME Control, WriterPush PROVE Control'
  OBVIOUS
<1>1. CASE DropEvent
  <2>1. FifoTypeOK'
    BY <1>1, PushDroppedType DEF Control, WriterTypeOK, ThreadTypeOK, DropEvent
  <2> QED
    BY <1>1, <2>1 DEF Control, WriterTypeOK, ThreadTypeOK, DropEvent, PushDropped,
         Lifecycle, HandHoldsEvent, handles, history
<1>2. ASSUME NEW d \in Contents, AcceptEvent(d) PROVE Control'
  <2>1. FifoTypeOK'
    BY <1>2, PushAcceptedType DEF Control, WriterTypeOK, ThreadTypeOK, AcceptEvent
  <2>2. [Id |-> nextId, Data |-> d] \in EventType
    BY DEF Control, WriterTypeOK, ThreadTypeOK, FifoTypeOK, EventType
  <2>3. accepted' \in Seq(EventType) /\ Len(accepted') <= MaxEvents
    BY <1>2, <2>2, AppendProperties, LenProperties, MaxEventsAssumption
       DEF Control, WriterTypeOK, AcceptEvent
  <2> QED
    BY <1>2, <2>1, <2>3 DEF Control, WriterTypeOK, ThreadTypeOK, AcceptEvent,
         PushAccepted, Lifecycle, HandHoldsEvent, handles
<1> QED
  BY <1>1, <1>2 DEF WriterPush

LEMMA NextControl == Control /\ [WriterNext]_writerVars => Control'
<1> SUFFICES ASSUME Control, UNCHANGED writerVars PROVE Control'
  BY StartControl, StopControl, StepControl, PushControl DEF WriterNext
<1>1. ThreadTypeOK'
  BY ThreadStepTypes DEF Control, WriterTypeOK, writerVars
<1> QED
  BY <1>1 DEF Control, WriterTypeOK, Lifecycle, HandHoldsEvent, writerVars, threadVars,
              handles, history

-----------------------------------------------------------------------------
(* What has become of the events.                                          *)

LEMMA InitHistory == WriterInit => History
<1> SUFFICES ASSUME WriterInit PROVE History
  OBVIOUS
<1>1. /\ accepted = <<>> /\ fifo = <<>> /\ log = <<>> /\ lost = {}
      /\ nextId = 0 /\ thread = "none"
  BY DEF WriterInit, ThreadInit, FifoInit
<1>2. /\ accepted \in Seq(EventType) /\ fifo \in Seq(EventType) /\ log \in Seq(EventType)
      /\ Len(accepted) = 0 /\ Len(fifo) = 0 /\ Len(log) = 0
  BY <1>1, EmptySeq
<1>3. Range(log) = {}
  BY <1>2, LenProperties DEF Range
<1>4. IdsArePlaces /\ QueueIsSuffix /\ HandIsLastPopped /\ LogInOrder
  BY <1>1, <1>2 DEF IdsArePlaces, QueueIsSuffix, HandIsLastPopped, Popped, LogInOrder
<1>5. SettledArePrefix
  BY <1>1, <1>2, <1>3 DEF SettledArePrefix, Settled, Popped
<1> QED
  BY <1>2, <1>4, <1>5 DEF History

\* Steps that touch neither the queue's contents nor a popped event.
LEMMA HistoryFrame ==
  ASSUME History, UNCHANGED <<fifo, nextId, accepted, log, lost>>,
         thread' = "write" <=> thread = "write",
         thread = "write" => out' = out
  PROVE  History'
<1>1. IdsArePlaces' /\ QueueIsSuffix' /\ LogInOrder' /\ Popped' = Popped
  BY DEF History, IdsArePlaces, QueueIsSuffix, LogInOrder, Popped
<1>2. HandIsLastPopped'
  BY <1>1 DEF History, HandIsLastPopped
<1>3. SettledArePrefix'
  BY <1>1 DEF History, SettledArePrefix, Settled
<1> QED
  BY <1>1, <1>2, <1>3 DEF History

LEMMA AcceptHistory ==
  ASSUME Control, History, NEW d \in Contents, AcceptEvent(d)
  PROVE  History'
<1> DEFINE e == [Id |-> nextId, Data |-> d]
<1>1. /\ accepted' = Append(accepted, e) /\ fifo' = Append(fifo, e)
      /\ nextId' = NextUlong(nextId) /\ Len(accepted) < MaxEvents
      /\ UNCHANGED <<log, lost, thread, out>>
  BY DEF AcceptEvent, PushAccepted, handles
<1>2. e \in EventType /\ e.Id = nextId
  BY DEF Control, WriterTypeOK, ThreadTypeOK, FifoTypeOK, EventType
<1> HIDE DEF e
<1>3. /\ accepted' \in Seq(EventType) /\ Len(accepted') = Len(accepted) + 1
      /\ \A i \in 1 .. Len(accepted) : accepted'[i] = accepted[i]
      /\ accepted'[Len(accepted) + 1] = e
  BY <1>1, <1>2, AppendProperties DEF History
<1>4. /\ fifo' \in Seq(EventType) /\ Len(fifo') = Len(fifo) + 1
      /\ \A k \in 1 .. Len(fifo) : fifo'[k] = fifo[k]
      /\ fifo'[Len(fifo) + 1] = e
  BY <1>1, <1>2, AppendProperties DEF History
<1>5. Len(accepted) \in Nat /\ Len(fifo) \in Nat
  BY LenProperties DEF History
<1>6. Popped' = Popped /\ Popped \in Nat
  BY <1>3, <1>4, <1>5 DEF Popped, History, QueueIsSuffix
<1>7. IdsArePlaces'
  <2>1. nextId = Len(accepted) /\ nextId' = Len(accepted')
    BY <1>1, <1>3, <1>5, MaxEventsAssumption, UlongAssumption
       DEF History, IdsArePlaces, NextUlong
  <2>2. ASSUME NEW i \in 1 .. Len(accepted') PROVE accepted'[i].Id = i - 1
    <3>1. CASE i = Len(accepted) + 1
      BY <1>2, <1>3, <2>1, <1>5, <3>1
    <3>2. CASE i # Len(accepted) + 1
      BY <1>3, <1>5, <3>2 DEF History, IdsArePlaces
    <3> QED
      BY <3>1, <3>2
  <2> QED
    BY <2>1, <2>2 DEF IdsArePlaces
<1>8. QueueIsSuffix'
  <2>1. ASSUME NEW k \in 1 .. Len(fifo') PROVE fifo'[k] = accepted'[Popped + k]
    <3>1. CASE k = Len(fifo) + 1
      BY <1>3, <1>4, <1>5, <3>1 DEF Popped
    <3>2. CASE k # Len(fifo) + 1
      <4>1. k \in 1 .. Len(fifo) /\ Popped + k \in 1 .. Len(accepted)
        BY <1>4, <1>5, <1>6, <3>2 DEF Popped
      <4>2. fifo[k] = accepted[Popped + k]
        BY <4>1 DEF History, QueueIsSuffix
      <4> QED
        BY <1>3, <1>4, <4>1, <4>2
    <3> QED
      BY <3>1, <3>2
  <2> QED
    BY <1>6, <2>1 DEF QueueIsSuffix
<1>9. HandIsLastPopped'
  BY <1>1, <1>3, <1>5, <1>6 DEF History, HandIsLastPopped, Popped
<1>10. SettledArePrefix'
  <2>1. Settled' = Settled /\ \A i \in 1 .. Settled : accepted'[i] = accepted[i]
    BY <1>1, <1>3, <1>5, <1>6 DEF Settled, Popped, History, HandIsLastPopped
  <2> QED
    BY <1>1, <2>1 DEF History, SettledArePrefix
<1>11. LogInOrder'
  BY <1>1 DEF History, LogInOrder
<1> QED
  BY <1>1, <1>3, <1>4, <1>7, <1>8, <1>9, <1>10, <1>11 DEF History

LEMMA PopHistory ==
  ASSUME Control, History, PopToWrite, UNCHANGED history
  PROVE  History'
<1>1. /\ fifo # <<>> /\ out' = Head(fifo) /\ fifo' = Tail(fifo)
      /\ thread = "pop" /\ thread' = "write"
      /\ UNCHANGED <<nextId, accepted, log, lost>>
  BY DEF PopToWrite, PopEvent, history
<1>2. /\ fifo' \in Seq(EventType) /\ Len(fifo') = Len(fifo) - 1
      /\ \A k \in 1 .. Len(fifo') : fifo'[k] = fifo[k + 1]
      /\ Len(fifo) \in Nat \ {0} /\ Len(accepted) \in Nat
      /\ out' = fifo[1]
  BY <1>1, HeadTailProperties, LenProperties, EmptySeq DEF History
<1>3. Popped' = Popped + 1 /\ Popped \in Nat
  BY <1>1, <1>2 DEF Popped, History, QueueIsSuffix
<1>4. IdsArePlaces' /\ LogInOrder'
  BY <1>1 DEF History, IdsArePlaces, LogInOrder
<1>5. QueueIsSuffix'
  BY <1>1, <1>2, <1>3 DEF History, QueueIsSuffix
<1>6. HandIsLastPopped'
  BY <1>1, <1>2, <1>3 DEF History, QueueIsSuffix, HandIsLastPopped
<1>7. SettledArePrefix'
  BY <1>1, <1>3 DEF History, SettledArePrefix, Settled
<1> QED
  BY <1>1, <1>2, <1>4, <1>5, <1>6, <1>7 DEF History

\* The event in hand comes after all the settled ones.
LEMMA WriteHistory ==
  ASSUME Control, History, WriteLogged \/ WriteLost
  PROVE  History'
<1>1. /\ thread = "write" /\ thread' = "pop"
      /\ UNCHANGED <<fifo, nextId, accepted, out>>
  BY DEF WriteLogged, WriteLost, WriteReturns, fifoVars
<1>2. /\ Popped \in Nat \ {0} /\ Popped <= Len(accepted) /\ Popped' = Popped
      /\ out = accepted[Popped] /\ Settled = Popped - 1 /\ Settled' = Popped
      /\ Len(accepted) \in Nat
  BY <1>1, LenProperties DEF History, HandIsLastPopped, Popped, Settled
<1>3. out \in EventType /\ out.Id = Popped - 1
  BY <1>1, <1>2 DEF Control, HandHoldsEvent, History, IdsArePlaces
<1>4. \A x \in Range(log) \cup lost : x.Id < Popped - 1 /\ x # out
  <2>1. ASSUME NEW x \in Range(log) \cup lost PROVE x.Id < Popped - 1
    BY <1>2 DEF History, SettledArePrefix, IdsArePlaces
  <2> QED
    BY <1>2, <1>3, <2>1
<1>5. {accepted[i] : i \in 1 .. Popped} = {accepted[i] : i \in 1 .. Popped - 1} \cup {out}
  BY <1>2
<1>6. IdsArePlaces' /\ QueueIsSuffix' /\ HandIsLastPopped'
  BY <1>1 DEF History, IdsArePlaces, QueueIsSuffix, HandIsLastPopped, Popped
<1>7. CASE WriteLogged
  <2>1. log' = Append(log, out) /\ lost' = lost
    BY <1>7 DEF WriteLogged
  <2>2. /\ log' \in Seq(EventType) /\ Len(log') = Len(log) + 1 /\ Len(log) \in Nat
        /\ \A i \in 1 .. Len(log) : log'[i] = log[i]
        /\ log'[Len(log) + 1] = out
    BY <1>3, <2>1, AppendProperties, LenProperties DEF History
  <2>3. DOMAIN log = 1 .. Len(log) /\ DOMAIN log' = 1 .. Len(log) + 1
    BY <2>2, LenProperties DEF History
  <2>4. Range(log') = Range(log) \cup {out}
    BY <2>2, <2>3 DEF Range
  <2>5. SettledArePrefix'
    <3>1. Range(log') \cup lost' = {accepted[i] : i \in 1 .. Popped}
      BY <1>2, <1>5, <2>1, <2>4 DEF History, SettledArePrefix
    <3>2. Range(log') \cap lost' = {}
      BY <1>4, <2>1, <2>4 DEF History, SettledArePrefix
    <3> QED
      BY <1>1, <1>2, <3>1, <3>2 DEF SettledArePrefix, Range
  <2>6. LogInOrder'
    <3> SUFFICES ASSUME NEW i \in 1 .. Len(log'), NEW j \in 1 .. Len(log'), i < j
                 PROVE  log'[i].Id < log'[j].Id
      BY DEF LogInOrder
    <3>1. CASE j = Len(log) + 1
      <4>1. log'[i] \in Range(log)
        BY <2>2, <2>3, <3>1 DEF Range
      <4> QED
        BY <1>3, <1>4, <2>2, <3>1, <4>1
    <3>2. CASE j # Len(log) + 1
      <4>1. i \in 1 .. Len(log) /\ j \in 1 .. Len(log)
        BY <2>2, <3>2
      <4> QED
        BY <2>2, <4>1 DEF History, LogInOrder
    <3> QED
      BY <3>1, <3>2
  <2> QED
    BY <1>1, <1>6, <2>2, <2>5, <2>6 DEF History
<1>8. CASE WriteLost
  <2>1. log' = log /\ lost' = lost \cup {out}
    BY <1>8 DEF WriteLost
  <2>2. SettledArePrefix'
    <3>1. Range(log) \cup lost' = {accepted[i] : i \in 1 .. Popped}
      BY <1>2, <1>5, <2>1 DEF History, SettledArePrefix
    <3>2. Range(log) \cap lost' = {}
      BY <1>4, <2>1 DEF History, SettledArePrefix
    <3> QED
      BY <1>1, <1>2, <2>1, <3>1, <3>2 DEF SettledArePrefix
  <2> QED
    BY <1>1, <1>6, <2>1, <2>2 DEF History, LogInOrder
<1> QED
  BY <1>7, <1>8

LEMMA NextHistory ==
  ASSUME Control, History, [WriterNext]_writerVars
  PROVE  History'
<1>1. ASSUME Start PROVE History'
  BY <1>1, HistoryFrame
     DEF Start, OpenFile, OpenFileFails, StartThread, StartThreadFails,
         ReferenceThread, ReferenceThreadFails, CreateThread,
         history, threadVars, fifoVars
<1>2. ASSUME Stop PROVE History'
  BY <1>2, HistoryFrame
     DEF Stop, RequestStop, JoinThread, SetStopEvent, history, threadVars, fifoVars
<1>3. ASSUME ThreadMoves PROVE History'
  <2>1. CASE PopToWrite
    BY <1>3, <2>1, PopHistory DEF ThreadMoves
  <2>2. CASE WaitStep \/ PopToWait
    BY <1>3, <2>2, HistoryFrame
       DEF ThreadMoves, WaitStep, SeeStop, SeeWake, Block, PopToWait, PopNothing,
           ConsumeWake, history, fifoVars
  <2> QED
    BY <1>3, <2>1, <2>2 DEF ThreadMoves
<1>4. ASSUME WriteLogged \/ WriteLost PROVE History'
  BY <1>4, WriteHistory
<1>5. ASSUME DropEvent PROVE History'
  BY <1>5, HistoryFrame DEF DropEvent, PushDropped, history
<1>6. ASSUME NEW d \in Contents, AcceptEvent(d) PROVE History'
  BY <1>6, AcceptHistory
<1>7. ASSUME UNCHANGED writerVars PROVE History'
  BY <1>7, HistoryFrame DEF writerVars, threadVars, history
<1> QED
  BY <1>1, <1>2, <1>3, <1>4, <1>5, <1>6, <1>7 DEF WriterNext, WriterStep, WriterPush

LEMMA WriterInvAlways == WriterSpec => []WriterInv
<1>1. WriterInit => WriterInv
  BY InitControl, InitHistory DEF WriterInv
<1>2. WriterInv /\ [WriterNext]_writerVars => WriterInv'
  BY NextControl, NextHistory DEF WriterInv
<1> QED
  BY <1>1, <1>2, PTL DEF WriterSpec

-----------------------------------------------------------------------------
(* Every reachable state of the writer is well typed.                      *)
THEOREM WriterTypeCorrect == WriterSpec => []WriterTypeOK
<1>1. WriterInv => WriterTypeOK
  BY DEF WriterInv, Control
<1> QED
  BY <1>1, WriterInvAlways, PTL

(* A stopped writer has left nothing behind, and a running one has what it *)
(* needs.                                                                  *)
THEOREM LifecycleIsClean == WriterSpec => []CleanLifecycle
<1>1. WriterInv => CleanLifecycle
  BY DEF WriterInv, Control, Lifecycle, CleanLifecycle, Running
<1> QED
  BY <1>1, WriterInvAlways, PTL

\* The lines and the lost events are a prefix of the accepted, whose ids have no gaps.
LEMMA InvGaps == WriterInv => GapsAreLosses
<1> SUFFICES ASSUME WriterInv, NEW k \in 1 .. Len(log), NEW n \in 0 .. log[k].Id
             PROVE  \E e \in Range(log) \cup lost : e.Id = n
  BY DEF WriterInv, History, GapsAreLosses
<1>1. Range(log) \cup lost = {accepted[i] : i \in 1 .. Settled}
  BY DEF WriterInv, History, SettledArePrefix
<1>2. /\ Len(accepted) \in Nat /\ Settled \in Nat /\ Settled <= Len(accepted)
  <2>1. Len(accepted) \in Nat /\ Len(fifo) \in Nat
    BY LenProperties DEF WriterInv, History
  <2> QED
    BY <2>1 DEF WriterInv, History, QueueIsSuffix, HandIsLastPopped, Settled, Popped
<1>3. log[k] \in Range(log)
  BY LenProperties DEF WriterInv, History, Range
<1>4. PICK i \in 1 .. Settled : log[k] = accepted[i]
  BY <1>1, <1>3
<1>5. \A j \in 1 .. Settled : accepted[j].Id = j - 1
  BY <1>2 DEF WriterInv, History, IdsArePlaces
<1>6. n + 1 \in 1 .. Settled /\ (n + 1) - 1 = n
  BY <1>2, <1>4, <1>5
<1>7. accepted[n + 1] \in Range(log) \cup lost /\ accepted[n + 1].Id = n
  BY <1>1, <1>5, <1>6
<1> QED
  BY <1>7

(* What is missing from the log shows in it: its lines are in the order of *)
(* acceptance, and the ids they skip are those of events whose write       *)
(* failed, for every queue size and however the pushes overflow it.        *)
THEOREM LossesShow == WriterSpec => []GapsAreLosses
  BY InvGaps, WriterInvAlways, PTL

\* Where an event is follows from where its id is: settled, in hand or queued.
LEMMA InvAccounting == WriterInv => Accounting
<1> SUFFICES ASSUME WriterInv PROVE Accounting
  OBVIOUS
<1>1. Len(accepted) \in Nat /\ Len(fifo) \in Nat /\ Popped \in Nat
  BY LenProperties DEF WriterInv, History, QueueIsSuffix, Popped
<1>2. Len(accepted) = Popped + Len(fifo)
  BY <1>1 DEF Popped
<1>3. Settled \in Nat /\ Settled <= Popped
  BY <1>1 DEF WriterInv, History, HandIsLastPopped, Settled
<1>4. Range(accepted) = {accepted[i] : i \in 1 .. Len(accepted)}
  BY LenProperties DEF WriterInv, History, Range
<1>5. Range(fifo) = {accepted[i] : i \in Popped + 1 .. Len(accepted)}
  <2>1. Range(fifo) = {fifo[k] : k \in 1 .. Len(fifo)}
    BY LenProperties DEF WriterInv, History, Range
  <2>2. \A k \in 1 .. Len(fifo) :
          fifo[k] = accepted[Popped + k] /\ Popped + k \in Popped + 1 .. Len(accepted)
    BY <1>1, <1>2 DEF WriterInv, History, QueueIsSuffix
  <2>3. \A i \in Popped + 1 .. Len(accepted) :
          i - Popped \in 1 .. Len(fifo) /\ Popped + (i - Popped) = i
    BY <1>1, <1>2
  <2>4. \A i \in Popped + 1 .. Len(accepted) : accepted[i] = fifo[i - Popped]
    BY <2>2, <2>3
  <2> QED
    BY <2>1, <2>2, <2>3, <2>4, SMTT(40)
<1>6. InHand = {accepted[i] : i \in Settled + 1 .. Popped}
  <2>1. CASE thread = "write"
    BY <1>1, <2>1 DEF WriterInv, History, HandIsLastPopped, Settled, InHand
  <2>2. CASE thread # "write"
    BY <1>1, <2>2 DEF Settled, InHand
  <2> QED
    BY <2>1, <2>2
<1>7. Range(log) \cup lost = {accepted[i] : i \in 1 .. Settled}
  BY DEF WriterInv, History, SettledArePrefix
<1>8. \A i, j \in 1 .. Len(accepted) : accepted[i] = accepted[j] => i = j
  <2>1. \A i \in 1 .. Len(accepted) : accepted[i].Id = i - 1
    BY DEF WriterInv, History, IdsArePlaces
  <2> QED
    BY <1>1, <2>1
<1>9. (Range(log) \cup lost) \cup InHand \cup Range(fifo) = Range(accepted)
  BY <1>1, <1>2, <1>3, <1>4, <1>5, <1>6, <1>7
<1>10. /\ (Range(log) \cup lost) \cap InHand = {}
       /\ (Range(log) \cup lost) \cap Range(fifo) = {}
       /\ InHand \cap Range(fifo) = {}
  BY <1>1, <1>2, <1>3, <1>5, <1>6, <1>7, <1>8
<1>11. Range(log) \cap lost = {}
  BY DEF WriterInv, History, SettledArePrefix
<1>12. UNION {Whereabouts[i] : i \in 1 .. 4} = Range(accepted)
  <2>1. UNION {Whereabouts[i] : i \in 1 .. 4} =
          Range(log) \cup lost \cup InHand \cup Range(fifo)
    BY DEF Whereabouts
  <2> QED
    BY <1>9, <2>1
<1>13. \A i, j \in 1 .. 4 : i # j => Whereabouts[i] \cap Whereabouts[j] = {}
  BY <1>10, <1>11 DEF Whereabouts
<1> QED
  BY <1>12, <1>13 DEF Accounting

(* No accepted event vanishes or is doubled between the queue, the writer  *)
(* and the file, whatever fails and however pushes, pops and writes        *)
(* interleave.                                                             *)
THEOREM EveryEventAccounted == WriterSpec => []Accounting
  BY InvAccounting, WriterInvAlways, PTL

-----------------------------------------------------------------------------
(* What the log lacks.                                                     *)

(* As long as no write has failed, the log is the accepted events from the *)
(* first one on: a record that is missing is missing at its end.           *)
LogIsPrefix == lost = {} => log = SubSeq(accepted, 1, Len(log))

\* The settled events, if none was lost, are the lines of the log one by one.
LinesAreSettled ==
  lost = {} => Len(log) = Settled /\ \A i \in 1 .. Settled : log[i] = accepted[i]

LEMMA InitLines == WriterInit => LinesAreSettled
<1> SUFFICES ASSUME WriterInit PROVE LinesAreSettled
  OBVIOUS
<1>1. log = <<>> /\ accepted = <<>> /\ fifo = <<>> /\ thread = "none"
  BY DEF WriterInit, ThreadInit, FifoInit
<1>2. Len(log) = 0 /\ Len(accepted) = 0 /\ Len(fifo) = 0
  BY <1>1, EmptySeq
<1>3. Settled = 0
  BY <1>1, <1>2 DEF Settled, Popped
<1> QED
  BY <1>2, <1>3 DEF LinesAreSettled

\* What is settled is there to be compared.
LEMMA SettledRange ==
  ASSUME History
  PROVE  /\ Len(accepted) \in Nat /\ Len(fifo) \in Nat /\ Len(log) \in Nat
         /\ Popped \in Nat /\ Popped <= Len(accepted)
         /\ Settled \in Nat /\ Settled <= Popped
<1>1. Len(accepted) \in Nat /\ Len(fifo) \in Nat /\ Len(log) \in Nat
  BY LenProperties DEF History
<1>2. Popped \in Nat /\ Popped <= Len(accepted)
  BY <1>1 DEF History, QueueIsSuffix, Popped
<1> QED
  BY <1>1, <1>2 DEF History, HandIsLastPopped, Settled

\* An accepted event comes after the settled ones.
LEMMA AcceptLines ==
  ASSUME Control, History, LinesAreSettled, NEW d \in Contents, AcceptEvent(d)
  PROVE  LinesAreSettled'
<1> DEFINE e == [Id |-> nextId, Data |-> d]
<1>1. /\ accepted' = Append(accepted, e) /\ fifo' = Append(fifo, e)
      /\ UNCHANGED <<log, lost, thread>>
  BY DEF AcceptEvent, PushAccepted, handles
<1>2. e \in EventType
  BY DEF Control, WriterTypeOK, ThreadTypeOK, FifoTypeOK, EventType
<1> HIDE DEF e
<1>3. /\ Len(accepted') = Len(accepted) + 1 /\ Len(fifo') = Len(fifo) + 1
      /\ \A i \in 1 .. Len(accepted) : accepted'[i] = accepted[i]
  BY <1>1, <1>2, AppendProperties DEF History
<1>4. Settled' = Settled
  BY <1>1, <1>3, SettledRange DEF Settled, Popped
<1>5. \A i \in 1 .. Settled : accepted'[i] = accepted[i]
  BY <1>3, SettledRange
<1> QED
  BY <1>1, <1>4, <1>5 DEF LinesAreSettled

\* The event in hand is the next one to be settled.
LEMMA WriteLines ==
  ASSUME Control, History, LinesAreSettled, WriteLogged \/ WriteLost
  PROVE  LinesAreSettled'
<1>1. CASE WriteLost
  <2>1. lost' # {}
    BY <1>1 DEF WriteLost
  <2> QED
    BY <2>1 DEF LinesAreSettled
<1>2. CASE WriteLogged
  <2>1. /\ thread = "write" /\ thread' = "pop"
        /\ UNCHANGED <<fifo, accepted, lost>>
        /\ log' = Append(log, out)
    BY <1>2 DEF WriteLogged, WriteReturns, fifoVars
  <2>2. /\ Settled = Popped - 1 /\ Settled' = Popped /\ Popped \in Nat \ {0}
        /\ out = accepted[Popped] /\ out \in EventType
    BY <2>1, SettledRange
       DEF Settled, Popped, History, HandIsLastPopped, Control, HandHoldsEvent
  <2>3. /\ Len(log') = Len(log) + 1 /\ Len(log) \in Nat
        /\ \A i \in 1 .. Len(log) : log'[i] = log[i]
        /\ log'[Len(log) + 1] = out
    BY <2>1, <2>2, AppendProperties, LenProperties DEF History
  <2>4. ASSUME lost = {}, NEW i \in 1 .. Popped PROVE log'[i] = accepted[i]
    <3>1. i \in 1 .. Len(log) \/ i = Len(log) + 1
      BY <2>2, <2>3, <2>4 DEF LinesAreSettled
    <3> QED
      BY <2>2, <2>3, <2>4, <3>1 DEF LinesAreSettled
  <2>5. lost = {} => Len(log') = Popped
    BY <2>2, <2>3 DEF LinesAreSettled
  <2> QED
    BY <2>1, <2>2, <2>4, <2>5 DEF LinesAreSettled
<1> QED
  BY <1>1, <1>2

LEMMA NextLines ==
  ASSUME Control, History, LinesAreSettled, [WriterNext]_writerVars
  PROVE  LinesAreSettled'
<1>1. ASSUME UNCHANGED <<accepted, fifo, log, lost>>,
             thread' = "write" <=> thread = "write"
      PROVE  LinesAreSettled'
  BY <1>1 DEF LinesAreSettled, Settled, Popped
<1>2. ASSUME Start \/ Stop PROVE LinesAreSettled'
  BY <1>1, <1>2
     DEF Start, OpenFile, OpenFileFails, StartThread, StartThreadFails,
         ReferenceThread, ReferenceThreadFails, CreateThread, Stop, RequestStop,
         JoinThread, SetStopEvent, history, threadVars, fifoVars
<1>3. ASSUME ThreadMoves PROVE LinesAreSettled'
  <2>1. CASE PopToWrite
    <3>1. /\ fifo # <<>> /\ fifo' = Tail(fifo) /\ thread = "pop" /\ thread' = "write"
          /\ UNCHANGED <<accepted, log, lost>>
      BY <1>3, <2>1 DEF ThreadMoves, PopToWrite, PopEvent, history
    <3>2. Len(fifo') = Len(fifo) - 1
      BY <3>1, HeadTailProperties DEF History
    <3>3. Settled' = Settled
      BY <3>1, <3>2, SettledRange DEF Settled, Popped
    <3> QED
      BY <3>1, <3>3 DEF LinesAreSettled
  <2>2. CASE WaitStep \/ PopToWait
    BY <1>1, <1>3, <2>2
       DEF ThreadMoves, WaitStep, SeeStop, SeeWake, Block, PopToWait, PopNothing,
           ConsumeWake, history, fifoVars
  <2> QED
    BY <1>3, <2>1, <2>2 DEF ThreadMoves
<1>4. ASSUME WriteLogged \/ WriteLost PROVE LinesAreSettled'
  BY <1>4, WriteLines
<1>5. ASSUME DropEvent PROVE LinesAreSettled'
  BY <1>1, <1>5 DEF DropEvent, PushDropped, history
<1>6. ASSUME NEW d \in Contents, AcceptEvent(d) PROVE LinesAreSettled'
  BY <1>6, AcceptLines
<1>7. ASSUME UNCHANGED writerVars PROVE LinesAreSettled'
  BY <1>1, <1>7 DEF writerVars, threadVars, history
<1> QED
  BY <1>2, <1>3, <1>4, <1>5, <1>6, <1>7 DEF WriterNext, WriterStep, WriterPush

LEMMA LinesPrefix == History /\ LinesAreSettled => LogIsPrefix
<1> SUFFICES ASSUME History, LinesAreSettled, lost = {}
             PROVE  log = SubSeq(accepted, 1, Len(log))
  BY DEF LogIsPrefix
<1>1. /\ Len(log) = Settled /\ Len(log) \in Nat /\ Len(log) <= Len(accepted)
      /\ Len(accepted) \in Nat
  BY SettledRange DEF LinesAreSettled
<1>2. log \in Seq(EventType) /\ accepted \in Seq(EventType)
  BY DEF History
<1>3. /\ SubSeq(accepted, 1, Len(log)) \in Seq(EventType)
      /\ Len(SubSeq(accepted, 1, Len(log))) = Len(log)
      /\ \A i \in 1 .. Len(log) : SubSeq(accepted, 1, Len(log))[i] = accepted[i]
  BY <1>1, <1>2
<1>4. \A i \in 1 .. Len(log) : log[i] = accepted[i]
  BY <1>1 DEF LinesAreSettled
<1> DEFINE pre == SubSeq(accepted, 1, Len(log))
<1>5. /\ pre \in Seq(EventType) /\ Len(pre) = Len(log)
      /\ \A i \in 1 .. Len(log) : log[i] = pre[i]
  BY <1>3, <1>4
<1> HIDE DEF pre
<1>6. log = pre
  BY <1>2, <1>5, SeqEqual
<1> QED
  BY <1>6 DEF pre

(* When no write has failed the log is a full timeline up to where it      *)
(* ends: what the writer has not written by then is newer than all it has. *)
THEOREM TimelineIsPrefix == WriterSpec => []LogIsPrefix
<1>1. WriterInit => WriterInv /\ LinesAreSettled
  BY InitControl, InitHistory, InitLines DEF WriterInv
<1>2. WriterInv /\ LinesAreSettled /\ [WriterNext]_writerVars
        => WriterInv' /\ LinesAreSettled'
  BY NextControl, NextHistory, NextLines DEF WriterInv
<1>3. WriterInv /\ LinesAreSettled => LogIsPrefix
  BY LinesPrefix DEF WriterInv
<1> QED
  BY <1>1, <1>2, <1>3, PTL DEF WriterSpec

-----------------------------------------------------------------------------
\* Every step of the writer is one of its thread's, or none of the thread's.
LEMMA WriterStepOfThread ==
  ASSUME ThreadTypeOK, [WriterNext]_writerVars
  PROVE  [ThreadNext]_threadVars
<1>1. ASSUME Start \/ Stop PROVE [ThreadNext]_threadVars
  BY <1>1
     DEF Start, OpenFile, OpenFileFails, StartThread, StartThreadFails,
         ReferenceThread, ReferenceThreadFails, Stop, RequestStop, JoinThread, ThreadNext
<1>2. ASSUME WriterStep PROVE ThreadNext
  BY <1>2 DEF WriterStep, ThreadMoves, WriteLogged, WriteLost, ThreadNext, ThreadStep
<1>3. ASSUME NEW d \in Contents, AcceptEvent(d) PROVE ThreadNext
  BY <1>3 DEF AcceptEvent, ThreadNext, Pushing, Push
<1>4. ASSUME DropEvent PROVE ThreadNext
  <2>1. PICK d : d \in Contents
    <3>1. fifo \in Seq(EventType) /\ Len(fifo) = Size /\ Size \in Nat \ {0}
      BY <1>4, SizeAssumption DEF DropEvent, PushDropped, ThreadTypeOK, FifoTypeOK
    <3>2. fifo[1] \in EventType
      BY <3>1
    <3> QED
      BY <3>2 DEF EventType
  <2> QED
    BY <1>4, <2>1 DEF DropEvent, ThreadNext, Pushing, Push
<1>5. ASSUME UNCHANGED writerVars PROVE UNCHANGED threadVars
  BY <1>5 DEF writerVars
<1> QED
  BY <1>1, <1>2, <1>3, <1>4, <1>5 DEF WriterNext, WriterPush

(* Start and Stop, their failures and what becomes of an event drive the   *)
(* thread only in ways LogWriterThread foresees, so that what is proved of *)
(* the thread alone holds of the whole writer.                             *)
THEOREM WriterUsesThread == WriterSpec => ThreadInit /\ [][ThreadNext]_threadVars
<1>1. WriterInit => ThreadInit
  BY DEF WriterInit
<1>2. WriterInv /\ [WriterNext]_writerVars => [ThreadNext]_threadVars
  BY WriterStepOfThread DEF WriterInv, Control, WriterTypeOK
<1> QED
  BY <1>1, <1>2, WriterInvAlways, PTL DEF WriterSpec
=============================================================================
