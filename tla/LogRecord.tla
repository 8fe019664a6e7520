----------------------------- MODULE LogRecord -----------------------------
(***************************************************************************)
(* KdaMonLogWriterWriteEvent of driver/src/log_writer.c: how an observed   *)
(* operation, captured in an event, becomes a line of the log.  The line   *)
(* is put together in buffers on the stack of the writer thread, each of   *)
(* fixed size.  Text is abstracted to its length, which leaves out the     *)
(* terminator.                                                             *)
(***************************************************************************)
EXTENDS Capture

ValueSize == 600      \* sizeof(FormattedValueData)

\* Faulty: the size of a path, which escaping can double.
PlainSize == PathMax

EscapeSize == 520     \* sizeof(EscapedImage), (EscapedPath), ..., (Escaped)

\* Faulty: the size of EventBuffer before version 0.5.
OldBufferSize == 256

BufferSize == 1000    \* sizeof(EventBuffer)

CONSTANTS
  Operations,    \* what the kernel does
  Escapes,       \* per number of characters, lengths its escape can have
  Extremes,      \* per format, lengths of a line without the strings in it
  Garbage,       \* what an uninitialised buffer holds
  MayFail        \* whether ZwWriteFile may fail

\* Per format, the length of a line without the strings in it: from the shortest
\* to the longest numbers and words the format can meet.
ProcessOverhead == 85 .. 132
ImageOverhead == 228 .. 306
NetworkOverhead == 174 .. 240
RegistryOverhead == 124 .. 164

Overhead ==
  [process |-> ProcessOverhead, image |-> ImageOverhead,
   network |-> NetworkOverhead, registry |-> RegistryOverhead]

ASSUME OperationsAssumption == \A op \in Operations : IsOperation(op)

(* The escape drops characters, copies or doubles them (JsonEscape.tla).   *)
ASSUME LengthsAssumption ==
  /\ Escapes \in [0 .. PathMax - 1 -> SUBSET Nat]
  /\ \A n \in DOMAIN Escapes : Escapes[n] \subseteq 0 .. 2 * n
  /\ Extremes \in [DOMAIN Overhead -> SUBSET Nat]
  /\ \A t \in DOMAIN Overhead : Extremes[t] \subseteq Overhead[t]
ASSUME GarbageAssumption == Garbage \notin Nat
ASSUME RecordFailAssumption == MayFail \in BOOLEAN

Locals == {"path", "name", "data", "status"}

VARIABLES
  operation,  \* what the kernel did
  event,      \* Event
  at,         \* what WriteEvent is about to do
  local,      \* the lengths in the escape buffers, FormattedValueData, StatusField
  cut,        \* an escape or KdaMonRegistryFormatValueData reported a truncation
  line,       \* the length of what is in EventBuffer
  outcome     \* of the latest WriteEvent that returned

recordVars == <<operation, event, at, local, cut, line, outcome>>

NewFrame == [f \in Locals |-> Garbage]

RecordInit ==
  /\ operation \in {o \in Operations : Observed(o)}
  /\ event = Capture(operation)
  /\ at = "path"
  /\ local = NewFrame
  /\ cut = FALSE
  /\ line = 0
  /\ outcome = "none"

Goto(from, to) == at = from /\ at' = to
IsRegistry(e) == e.Type = "registry"

-----------------------------------------------------------------------------
(* An operation is observed and its event popped by the writer thread.     *)
(* Operations that go by unobserved leave nothing to write.                *)
NextEvent ==
  /\ Goto("return", "path")
  /\ operation' \in {o \in Operations : Observed(o)}
  /\ event' = Capture(operation')
  /\ outcome' = "none"
  /\ UNCHANGED <<local, cut, line>>

\* What KdaMonJsonEscapeW can make of n characters.
Escaped(n) ==
  {[Length |-> m, Cut |-> FALSE] : m \in {m \in Escapes[n] : m < EscapeSize}} \cup
  {[Length |-> m, Cut |-> TRUE] :
     m \in {m \in {EscapeSize - 2, EscapeSize - 1} : \E k \in Escapes[n] : k >= EscapeSize}}

\* A buffer is filled in.
Fill(buffer, result) ==
  /\ local' = [local EXCEPT ![buffer] = result.Length]
  /\ cut' = (cut \/ result.Cut)

EscapePath ==
  /\ Goto("path", IF IsRegistry(event) THEN "name" ELSE "print")
  /\ \E e \in Escaped(event.Path.Chars) : Fill("path", e)
  /\ UNCHANGED <<operation, event, line, outcome>>

(* KdaMonLogWriterWriteRegistryEvent.  A key creation has neither a value  *)
(* nor data.                                                               *)

\* Faulty: the data of a key creation is forgotten.
KeyFieldsNoData ==
  /\ Goto("name", "status")
  /\ event.Action = "create_key"
  /\ local' = [local EXCEPT !["name"] = 0]
  /\ UNCHANGED <<operation, event, cut, line, outcome>>

KeyFields ==
  /\ Goto("name", "status")
  /\ event.Action = "create_key"
  /\ local' = [local EXCEPT !["name"] = 0, !["data"] = 4]
  /\ UNCHANGED <<operation, event, cut, line, outcome>>

EscapeName ==
  /\ Goto("name", "data")
  /\ event.Action # "create_key"
  /\ \E e \in Escaped(event.Name.Chars) : Fill("name", e)
  /\ UNCHANGED <<operation, event, line, outcome>>

\* A number whose data is shorter than its type is printed as 0.
Digits(bytes, width, most) == IF bytes < width THEN {1} ELSE 1 .. most

\* What KdaMonRegistryFormatValueData prints: quoted text, a number, quoted hex.
Formatted(type, data) ==
  CASE type = "sz" ->
         {[Length |-> e.Length + 2, Cut |-> e.Cut] : e \in Escaped(data.Chars)}
    [] type = "dword" -> {[Length |-> n, Cut |-> FALSE] : n \in Digits(data.Bytes, 4, 10)}
    [] type = "qword" -> {[Length |-> n, Cut |-> FALSE] : n \in Digits(data.Bytes, 8, 20)}
    [] type = "other" -> {[Length |-> 2 * Smaller(data.Bytes, DataMax) + 2, Cut |-> FALSE]}

InValueBuffer(r) ==
  [Length |-> Smaller(r.Length, ValueSize - 1), Cut |-> r.Cut \/ r.Length >= ValueSize]

\* Its status is not looked at.
FormatData ==
  /\ Goto("data", "status")
  /\ event.Action = "set_value"
  /\ \E r \in Formatted(event.ValueType, event.Data) : Fill("data", InValueBuffer(r))
  /\ UNCHANGED <<operation, event, line, outcome>>

NullData ==
  /\ Goto("data", "status")
  /\ event.Action = "delete_value"
  /\ local' = [local EXCEPT !["data"] = 4]
  /\ UNCHANGED <<operation, event, cut, line, outcome>>

FillStatus ==
  /\ Goto("status", "print")
  /\ local' = [local EXCEPT !["status"] = IF event.Action = "create_key" THEN 12 ELSE 4]
  /\ UNCHANGED <<operation, event, cut, line, outcome>>

-----------------------------------------------------------------------------
(* The line is printed into EventBuffer, measured and written.             *)

StringsLength ==
  IF IsRegistry(event)
    THEN local["path"] + local["name"] + local["data"] + local["status"]
    ELSE local["path"]

LineLengths == {n + StringsLength : n \in Extremes[event.Type]}

\* Faulty: forgets the terminator.
FitsWithout(n) == n <= BufferSize

Fits(n) == n < BufferSize

\* WriteEvent returns, and its stack frame is gone.
Return(from, result) ==
  /\ Goto(from, "return")
  /\ outcome' = result
  /\ local' = NewFrame /\ cut' = FALSE
  /\ line' = 0
  /\ UNCHANGED <<operation, event>>

PrintTooLong ==
  /\ Return("print", "too long")
  /\ \E n \in LineLengths : ~ Fits(n)

PrintLine ==
  /\ Goto("print", "write")
  /\ line' \in {n \in LineLengths : Fits(n)}
  /\ UNCHANGED <<operation, event, local, cut, outcome>>

Write == Return("write", "written")

WriteFails == MayFail /\ Return("write", "write failed")

RegistryFields == KeyFields \/ EscapeName \/ FormatData \/ NullData \/ FillStatus

RecordNext ==
  \/ NextEvent
  \/ EscapePath \/ RegistryFields
  \/ PrintTooLong \/ PrintLine
  \/ Write \/ WriteFails

RecordSpec == RecordInit /\ [][RecordNext]_recordVars

-----------------------------------------------------------------------------
(* Correctness.                                                            *)

(* The record's step, buffers and length: EventBuffer always holds a       *)
(* terminated string.                                                      *)
RecordTypeOK ==
  /\ operation \in Operations
  /\ event = Capture(operation)
  /\ at \in {"path", "name", "data", "status", "print", "write", "return"}
  /\ local \in [Locals -> Nat \cup {Garbage}]
  /\ cut \in BOOLEAN
  /\ line \in 0 .. BufferSize - 1
  /\ outcome \in {"none", "written", "too long", "write failed"}

(* The four ways the sensors copy text, by bytes and by characters, agree: *)
(* each terminates its field inside the array, and the field shows the     *)
(* whole text or the part of it that the field has room for.  A text that  *)
(* is not there, or whose resolution failed, shows as empty.               *)
FieldsFaithful ==
  LET o == operation IN
    /\ o.Kind \in PathKinds \cup RegistryKinds => Shows(event.Path, o.Path, PathMax)
    /\ o.Kind \in RegistryKinds => Shows(event.Process, o.Process, PathMax)
    /\ o.Kind \in ValueKinds => Shows(event.Name, o.Name, NameMax)

(* On every path through the branches for the actions of the registry and  *)
(* the types of value data, each string that the line's format refers to   *)
(* has been written before: no %s meets an uninitialised buffer.           *)
NothingPrintedUnset ==
  at = "print" =>
    \A f \in IF IsRegistry(event) THEN Locals ELSE {"path"} : local[f] # Garbage

(* Of what the sensors captured, no name, path or value data is cut off on *)
(* the way to the line, whatever has to be escaped in it: the callers only *)
(* warn of a truncated escape and ignore the status of the value's, and    *)
(* the sizes of the buffers entitle them to.                               *)
NothingCut == ~ cut

(* No process, image load or network event is ever lost for its length,    *)
(* however long its path and whatever has to be escaped in it, nor is the  *)
(* creation of a registry key.  A value that is set can be once key and    *)
(* name together exceed 158 characters, one that is deleted beyond 413.    *)
OnlyRegistryValuesTooLong ==
  outcome = "too long" =>
    /\ event.Action \in ValueKinds
    /\ event.Path.Chars + event.Name.Chars >
         (IF event.Action = "set_value" THEN 158 ELSE 413)
=============================================================================
