-------------------------- MODULE LogRecord_proofs --------------------------
(***************************************************************************)
(* The fields of an event and the buffers of KdaMonLogWriterWriteEvent,    *)
(* for every operation that the sensors can observe.                       *)
(***************************************************************************)
EXTENDS LogRecord, TLAPS

-----------------------------------------------------------------------------
(* The copies into the fields.                                             *)

\* Both ways to copy do the same, whatever the lengths.
LEMMA CopiesFaithful ==
  ASSUME NEW t, MaybeText(t), NEW n \in Nat \ {0}
  PROVE  /\ Shows(CopyBytes(t, n), t, n)
         /\ Shows(CopyChars(t, n), t, n)
         /\ CopyBytes(t, n).Chars \in 0 .. n - 1
         /\ CopyChars(t, n).Chars \in 0 .. n - 1
  <1>1. CASE t = NoText
    BY <1>1 DEF CopyBytes, CopyChars, Shows, EmptyField
  <1>2. CASE t # NoText
    <2>1. t.Bytes \in Nat /\ t.Chars \in Nat /\ 2 * t.Chars <= t.Bytes
      BY <1>2 DEF MaybeText, IsText, CharSize
    <2>2. Smaller(t.Bytes, 2 * (n - 1)) \div 2 = Smaller(t.Bytes \div 2, n - 1)
      BY <2>1 DEF Smaller
    <2>3. Smaller(t.Bytes \div 2, n - 1) \in 0 .. n - 1
      BY <2>1 DEF Smaller
    <2>4. Smaller(t.Chars, Smaller(t.Bytes \div 2, n - 1)) = Smaller(t.Chars, n - 1)
      BY <2>1 DEF Smaller
    <2>5. Smaller(t.Chars, n - 1) \in 0 .. n - 1
      BY <2>1 DEF Smaller
    <2>6. CopyBytes(t, n) = Terminated(t, Smaller(t.Bytes \div 2, n - 1))
      BY <1>2, <2>2 DEF CopyBytes, CharSize
    <2>7. CopyChars(t, n) = Terminated(t, Smaller(t.Bytes \div 2, n - 1))
      BY <1>2 DEF CopyChars, CharSize
    <2>8. ASSUME NEW f, f = Terminated(t, Smaller(t.Bytes \div 2, n - 1))
          PROVE  Shows(f, t, n) /\ f.Chars \in 0 .. n - 1
      BY <1>2, <2>3, <2>4, <2>5, <2>8 DEF Terminated, Shows
    <2> QED
      BY <2>6, <2>7, <2>8
  <1> QED
    BY <1>1, <1>2

LEMMA DataBound ==
  ASSUME NEW d, d.Given \in BOOLEAN, IsText(d.Text)
  PROVE  CopyData(d).Bytes \in 0 .. DataMax /\ CopyData(d).Chars \in 0 .. DataMax \div 2
  <1>1. d.Text.Bytes \in Nat /\ d.Text.Chars \in Nat
    BY DEF IsText
  <1> DEFINE n == Smaller(d.Text.Bytes, DataMax)
  <1>2. n \in 0 .. 256
    BY <1>1 DEF Smaller, DataMax
  <1>3. Smaller(d.Text.Chars, n \div 2) \in 0 .. 128
    BY <1>1, <1>2, SMTT(40) DEF Smaller
  <1>4. CopyData(d) = [Bytes |-> n,
          Chars |-> IF d.Given THEN Smaller(d.Text.Chars, n \div 2) ELSE 0]
    BY DEF CopyData, CharSize
  <1> QED
    BY <1>2, <1>3, <1>4, SMTT(40) DEF DataMax

\* What an event can be that a sensor has pushed.
WellCaptured(e) ==
  /\ e.Type \in DOMAIN Overhead
  /\ e.Path.Chars \in 0 .. PathMax - 1
  /\ e.Name.Chars \in 0 .. NameMax - 1
  /\ e.Data.Bytes \in 0 .. DataMax
  /\ e.Data.Chars \in 0 .. DataMax \div 2
  /\ IF IsRegistry(e) THEN e.Action \in RegistryKinds ELSE e.Action = "none"
  /\ e.Action = "set_value" => e.ValueType \in ValueTypes

CapturedFaithfully(e, o) ==
  /\ o.Kind \in PathKinds \cup RegistryKinds => Shows(e.Path, o.Path, PathMax)
  /\ o.Kind \in RegistryKinds => Shows(e.Process, o.Process, PathMax)
  /\ o.Kind \in ValueKinds => Shows(e.Name, o.Name, NameMax)

LEMMA CaptureFaithful ==
  ASSUME NEW o, IsOperation(o), Observed(o)
  PROVE  WellCaptured(Capture(o)) /\ CapturedFaithfully(Capture(o), o)
  <1>1. DOMAIN Overhead = {"process", "image", "network", "registry"}
    BY DEF Overhead
  <1>2. PathMax \in Nat \ {0} /\ NameMax \in Nat \ {0}
    BY DEF PathMax, NameMax
  <1>3. 0 \in 0 .. PathMax - 1 /\ 0 \in 0 .. NameMax - 1
        /\ 0 \in 0 .. DataMax /\ 0 \in 0 .. DataMax \div 2
    BY DEF PathMax, NameMax, DataMax
  <1>4. CASE o.Kind = "end_process"
    <2>1. Capture(o) = Blank("process")
      BY <1>4 DEF Capture, ProcessNotify
    <2> QED
      BY <1>1, <1>3, <1>4, <2>1 DEF Blank, EmptyField, WellCaptured, CapturedFaithfully,
         IsRegistry, PathKinds, RegistryKinds, ValueKinds
  <1>5. CASE o.Kind \in PathKinds
    <2>1. PICK type \in {"process", "image", "network"} :
            Capture(o) = [Blank(type) EXCEPT !.Path = CopyBytes(o.Path, PathMax)]
      BY <1>5 DEF Capture, ProcessNotify, ImageNotify, ClassifyCommon, PathKinds
    <2>2. MaybeText(o.Path)
      BY <1>5 DEF IsOperation
    <2>3. Shows(CopyBytes(o.Path, PathMax), o.Path, PathMax)
          /\ CopyBytes(o.Path, PathMax).Chars \in 0 .. PathMax - 1
      BY <1>2, <2>2, CopiesFaithful
    <2>4. /\ Capture(o).Type = type /\ Capture(o).Action = "none"
          /\ Capture(o).Path = CopyBytes(o.Path, PathMax)
          /\ Capture(o).Name = EmptyField
          /\ Capture(o).Data = [Bytes |-> 0, Chars |-> 0]
      BY <2>1 DEF Blank
    <2> QED
      BY <1>1, <1>3, <1>5, <2>3, <2>4 DEF EmptyField, WellCaptured, CapturedFaithfully,
         IsRegistry, PathKinds, RegistryKinds, ValueKinds
  <1>6. CASE o.Kind \in RegistryKinds
    <2>1. /\ RegistryEvent(o).Type = "registry"
          /\ RegistryEvent(o).Action = o.Kind
          /\ RegistryEvent(o).Path = CopyChars(o.Path, PathMax)
          /\ RegistryEvent(o).Process = CopyChars(o.Process, PathMax)
          /\ RegistryEvent(o).Name = EmptyField
          /\ RegistryEvent(o).Data = [Bytes |-> 0, Chars |-> 0]
      BY DEF RegistryEvent, Blank
    <2>2. MaybeText(o.Path) /\ MaybeText(o.Process)
      BY <1>6 DEF IsOperation
    <2>3. /\ Shows(CopyChars(o.Path, PathMax), o.Path, PathMax)
          /\ CopyChars(o.Path, PathMax).Chars \in 0 .. PathMax - 1
          /\ Shows(CopyChars(o.Process, PathMax), o.Process, PathMax)
      BY <1>2, <2>2, CopiesFaithful
    <2>4. CASE o.Kind = "create_key"
      <3>1. Capture(o) = RegistryEvent(o)
        BY <2>4 DEF Capture, HandlePostCreateKeyEx
      <3> QED
        BY <1>1, <1>3, <1>6, <2>1, <2>3, <2>4, <3>1 DEF EmptyField, WellCaptured,
           CapturedFaithfully, IsRegistry, ValueKinds
    <2>5. CASE o.Kind \in ValueKinds
      <3>1. MaybeText(o.Name)
        BY <2>5 DEF IsOperation
      <3>2. Shows(CopyChars(o.Name, NameMax), o.Name, NameMax)
            /\ CopyChars(o.Name, NameMax).Chars \in 0 .. NameMax - 1
        BY <1>2, <3>1, CopiesFaithful
      <3>3. /\ Capture(o).Type = "registry" /\ Capture(o).Action = o.Kind
            /\ Capture(o).Path = CopyChars(o.Path, PathMax)
            /\ Capture(o).Process = CopyChars(o.Process, PathMax)
            /\ Capture(o).Name = CopyChars(o.Name, NameMax)
        BY <2>1, <2>5 DEF Capture, HandleDeleteValueKey, HandleSetValueKey, ValueKinds,
           RegistryEvent, Blank
      <3>4. CASE o.Kind = "delete_value"
        <4>1. Capture(o).Data = [Bytes |-> 0, Chars |-> 0]
          BY <2>1, <3>4 DEF Capture, HandleDeleteValueKey, RegistryEvent, Blank
        <4> QED
          BY <1>1, <1>3, <1>6, <2>3, <3>2, <3>3, <3>4, <4>1 DEF WellCaptured,
             CapturedFaithfully, IsRegistry
      <3>5. CASE o.Kind = "set_value"
        <4>1. Capture(o).Data = CopyData(o.Data) /\ Capture(o).ValueType = o.ValueType
          BY <3>5 DEF Capture, HandleSetValueKey, RegistryEvent, Blank
        <4>2. o.ValueType \in ValueTypes /\ o.Data.Given \in BOOLEAN /\ IsText(o.Data.Text)
          BY <3>5 DEF IsOperation
        <4>3. CopyData(o.Data).Bytes \in 0 .. DataMax
              /\ CopyData(o.Data).Chars \in 0 .. DataMax \div 2
          BY <4>2, DataBound
        <4> QED
          BY <1>1, <1>6, <2>3, <3>2, <3>3, <3>5, <4>1, <4>2, <4>3 DEF WellCaptured,
             CapturedFaithfully, IsRegistry
      <3> QED
        BY <2>5, <3>4, <3>5 DEF ValueKinds
    <2> QED
      BY <1>6, <2>4, <2>5 DEF RegistryKinds
  <1> QED
    BY <1>4, <1>5, <1>6 DEF IsOperation, Observed

-----------------------------------------------------------------------------
(* The buffers of the line.                                                *)

\* KdaMonJsonEscapeW never cuts off what a field holds.
LEMMA EscapeBound ==
  ASSUME NEW n \in 0 .. PathMax - 1, NEW e \in Escaped(n)
  PROVE  e.Length \in 0 .. 2 * n /\ e.Cut = FALSE
  <1>1. Escapes[n] \subseteq 0 .. 2 * n
    BY LengthsAssumption
  <1>2. \A k \in Escapes[n] : k \in 0 .. 2 * n /\ ~ (k >= EscapeSize)
    BY <1>1 DEF EscapeSize, PathMax
  <1> QED
    BY <1>2 DEF Escaped

\* KdaMonRegistryFormatValueData needs at most 514 of its 600 bytes.
LEMMA FormattedBound ==
  ASSUME NEW d, d.Bytes \in 0 .. DataMax, d.Chars \in 0 .. DataMax \div 2,
         NEW type \in ValueTypes, NEW r \in Formatted(type, d)
  PROVE  InValueBuffer(r).Length \in 0 .. 514 /\ InValueBuffer(r).Cut = FALSE
  <1>1. r.Length \in 0 .. 514 /\ r.Cut = FALSE
    <2>1. CASE type = "sz"
      <3>1. PICK e \in Escaped(d.Chars) : r = [Length |-> e.Length + 2, Cut |-> e.Cut]
        BY <2>1 DEF Formatted
      <3>2. d.Chars \in 0 .. PathMax - 1 /\ d.Chars \in 0 .. 128
        BY DEF PathMax, DataMax
      <3>3. e.Length \in 0 .. 2 * d.Chars /\ e.Cut = FALSE
        BY <3>1, <3>2, EscapeBound
      <3> QED
        BY <3>1, <3>2, <3>3
    <2>2. CASE type \in {"dword", "qword"}
      BY <2>2 DEF Formatted, Digits
    <2>3. CASE type = "other"
      BY <2>3 DEF Formatted, Smaller, DataMax
    <2> QED
      BY <2>1, <2>2, <2>3 DEF ValueTypes
  <1>2. r.Length < ValueSize /\ ~ (r.Length >= ValueSize) /\ Smaller(r.Length, ValueSize - 1) = r.Length
    BY <1>1 DEF Smaller, ValueSize
  <1>3. InValueBuffer(r).Length = r.Length
    BY <1>2 DEF InValueBuffer
  <1>4. InValueBuffer(r).Cut = FALSE
    BY <1>1, <1>2 DEF InValueBuffer
  <1> QED
    BY <1>1, <1>3, <1>4

\* The rest of a line, without its strings.
LEMMA RestBound ==
  ASSUME NEW e, e.Type \in DOMAIN Overhead, NEW n \in Extremes[e.Type]
  PROVE  n \in 0 .. 306 /\ (IsRegistry(e) => n <= 164)
  <1>1. n \in Overhead[e.Type]
    BY LengthsAssumption
  <1> QED
    BY <1>1 DEF Overhead, ProcessOverhead, ImageOverhead, NetworkOverhead,
                RegistryOverhead, IsRegistry

\* Which events are in which branch,
Branches ==
  /\ at \in {"name", "status"} => IsRegistry(event)
  /\ at = "data" => IsRegistry(event) /\ event.Action # "create_key"

\* what the branch has filled in so far, and how long it can be.
PathFilled == local["path"] \in 0 .. 2 * event.Path.Chars
NameFilled == local["name"] \in 0 .. 2 * event.Name.Chars
DataFilled ==
  local["data"] \in 0 .. 514 /\ (event.Action # "set_value" => local["data"] = 4)
StatusFilled ==
  local["status"] \in 0 .. 12 /\ (event.Action # "create_key" => local["status"] = 4)

Filled ==
  /\ at \in {"name", "data", "status", "print"} => PathFilled
  /\ at \in {"data", "status"} \/ (at = "print" /\ IsRegistry(event)) => NameFilled
  /\ at = "status" \/ (at = "print" /\ IsRegistry(event)) => DataFilled
  /\ at = "print" /\ IsRegistry(event) => StatusFilled

RInv ==
  /\ RecordTypeOK /\ Observed(operation) /\ Branches /\ Filled
  /\ NothingCut /\ OnlyRegistryValuesTooLong

\* An event in WriteEvent is one that Capture made.
LEMMA EventCaptured ==
  ASSUME RecordTypeOK, Observed(operation)
  PROVE  WellCaptured(event) /\ CapturedFaithfully(event, operation)
  BY CaptureFaithful, OperationsAssumption DEF RecordTypeOK

\* Printing overflows only with long names around a value set or deleted.
LEMMA LineBound ==
  ASSUME RInv, NEW n \in LineLengths,
         PathFilled, IsRegistry(event) => NameFilled /\ DataFilled /\ StatusFilled
  PROVE  /\ n \in Nat
         /\ ~ Fits(n) =>
              /\ event.Action \in ValueKinds
              /\ event.Path.Chars + event.Name.Chars >
                   (IF event.Action = "set_value" THEN 158 ELSE 413)
  <1>1. PICK k \in Extremes[event.Type] : n = k + StringsLength
    BY DEF LineLengths
  <1>2. WellCaptured(event)
    BY EventCaptured DEF RInv
  <1>3. k \in 0 .. 306 /\ (IsRegistry(event) => k <= 164)
    BY <1>1, <1>2, RestBound DEF WellCaptured
  <1>4. event.Path.Chars \in 0 .. 259 /\ event.Name.Chars \in 0 .. 259
    BY <1>2 DEF WellCaptured, PathMax, NameMax
  <1>5. local["path"] \in 0 .. 2 * event.Path.Chars
    BY DEF PathFilled
  <1>6. CASE ~ IsRegistry(event)
    <2>1. n = k + local["path"]
      BY <1>1, <1>6 DEF StringsLength
    <2> QED
      BY <1>3, <1>4, <1>5, <2>1, SMTT(40) DEF Fits, BufferSize
  <1>7. CASE IsRegistry(event)
    <2> DEFINE path == event.Path.Chars
               name == event.Name.Chars
               p == local["path"]
               m == local["name"]
               d == local["data"]
               s == local["status"]
    <2>1. n = k + (p + m + d + s) /\ k \in 0 .. 164
      BY <1>1, <1>3, <1>7 DEF StringsLength
    <2>2. path \in 0 .. 259 /\ name \in 0 .. 259 /\ p \in 0 .. 2 * path
      BY <1>4, <1>5
    <2>3. m \in 0 .. 2 * name /\ d \in 0 .. 514 /\ s \in 0 .. 12
      BY <1>7 DEF NameFilled, DataFilled, StatusFilled
    <2>4. /\ event.Action # "set_value" => d = 4
          /\ event.Action # "create_key" => s = 4
      BY <1>7 DEF DataFilled, StatusFilled
    <2>5. event.Action = "create_key" => name = 0
      <3>1. IsOperation(operation) /\ Observed(operation) /\ event = Capture(operation)
        BY OperationsAssumption DEF RInv, RecordTypeOK
      <3>2. event.Action = "create_key" => event.Name = EmptyField
        BY <3>1 DEF IsOperation, Capture, ProcessNotify, ImageNotify,
           ClassifyCommon, HandleSetValueKey, HandleDeleteValueKey,
           HandlePostCreateKeyEx, RegistryEvent, Blank, RegistryKinds,
           ValueKinds, PathKinds, Observed
      <3> QED
        BY <3>2 DEF EmptyField
    <2>6. event.Action \in {"set_value", "delete_value", "create_key"}
      BY <1>2, <1>7 DEF WellCaptured, RegistryKinds, ValueKinds
    <2>7. event.Path.Chars = path /\ event.Name.Chars = name
      OBVIOUS
    <2> HIDE DEF path, name, p, m, d, s
    <2>8. n \in Nat /\ (~ Fits(n) => 2 * (path + name) >= 836 - d - s)
      BY <2>1, <2>2, <2>3 DEF Fits, BufferSize
    <2>9. s = 4 /\ ~ Fits(n) => path + name > 158
      BY <2>2, <2>3, <2>8
    <2>10. s = 4 /\ d = 4 /\ ~ Fits(n) => path + name > 413
      BY <2>2, <2>8
    <2>11. d = 4 /\ name = 0 => Fits(n)
      BY <2>2, <2>3, <2>8
    <2>12. CASE event.Action = "set_value"
      BY <2>4, <2>7, <2>8, <2>9, <2>12 DEF ValueKinds
    <2>13. CASE event.Action = "delete_value"
      BY <2>4, <2>7, <2>8, <2>10, <2>13 DEF ValueKinds
    <2>14. CASE event.Action = "create_key"
      BY <2>4, <2>5, <2>8, <2>11, <2>14
    <2> QED
      BY <2>6, <2>12, <2>13, <2>14
  <1> QED
    BY <1>6, <1>7

LEMMA InitRInv == RecordInit => RInv
  <1> SUFFICES ASSUME RecordInit PROVE RInv
    OBVIOUS
  <1>1. RecordTypeOK
    <2>1. line \in 0 .. BufferSize - 1
      BY DEF RecordInit, BufferSize
    <2> QED
      BY <2>1 DEF RecordInit, RecordTypeOK, NewFrame
  <1>2. Observed(operation) /\ Branches /\ Filled
    BY DEF RecordInit, Branches, Filled
  <1>3. NothingCut /\ OnlyRegistryValuesTooLong
    BY DEF RecordInit, NothingCut, OnlyRegistryValuesTooLong
  <1> QED
    BY <1>1, <1>2, <1>3 DEF RInv

\* A step of WriteEvent that fills one buffer touches nothing else.
LEMMA FillKeeps ==
  ASSUME RInv, NEW buffer \in Locals, NEW r, Fill(buffer, r),
         r.Length \in Nat, r.Cut = FALSE, UNCHANGED <<operation, event, line, outcome>>,
         at' \in {"path", "name", "data", "status", "print", "write", "return"}
  PROVE  /\ RecordTypeOK' /\ Observed(operation)' /\ NothingCut'
         /\ OnlyRegistryValuesTooLong'
         /\ local'[buffer] = r.Length
         /\ \A f \in Locals \ {buffer} : local'[f] = local[f]
  <1>1. local' \in [Locals -> Nat \cup {Garbage}]
        /\ local'[buffer] = r.Length
        /\ \A f \in Locals \ {buffer} : local'[f] = local[f]
    BY DEF Fill, RInv, RecordTypeOK
  <1>2. cut' = FALSE
    BY DEF Fill, RInv, NothingCut
  <1>3. RecordTypeOK'
    BY <1>1, <1>2 DEF RInv, RecordTypeOK, BufferSize
  <1>4. Observed(operation)'
    BY DEF RInv
  <1>5. NothingCut'
    BY <1>2 DEF NothingCut
  <1>6. OnlyRegistryValuesTooLong'
    BY DEF RInv, OnlyRegistryValuesTooLong
  <1> QED
    BY <1>1, <1>3, <1>4, <1>5, <1>6

LEMMA EmptyLine == 0 \in 0 .. BufferSize - 1
  BY DEF BufferSize

\* WriteEvent returns.
LEMMA ReturnKeeps ==
  ASSUME RInv, NEW from, NEW result \in {"written", "too long", "write failed"},
         Return(from, result),
         result = "too long" => OnlyRegistryValuesTooLong'
  PROVE  RInv'
  <1>1. /\ at' = "return" /\ outcome' = result /\ local' = NewFrame /\ cut' = FALSE
        /\ line' = 0 /\ UNCHANGED <<operation, event>>
    BY DEF Return, Goto
  <1>2. RecordTypeOK'
    <2>1. line' \in 0 .. BufferSize - 1
      BY <1>1, EmptyLine
    <2> QED
      BY <1>1, <2>1 DEF RInv, RecordTypeOK, NewFrame
  <1>3. Observed(operation)' /\ Branches' /\ Filled'
    BY <1>1 DEF RInv, Branches, Filled
  <1>4. NothingCut'
    BY <1>1 DEF NothingCut
  <1>5. OnlyRegistryValuesTooLong'
    BY <1>1 DEF OnlyRegistryValuesTooLong
  <1> QED
    BY <1>2, <1>3, <1>4, <1>5 DEF RInv

\* Every step of WriteEvent keeps the invariant.
LEMMA NextRInv == RInv /\ [RecordNext]_recordVars => RInv'
  <1> SUFFICES ASSUME RInv, [RecordNext]_recordVars PROVE RInv'
    OBVIOUS
  <1>0. WellCaptured(event) /\ local \in [Locals -> Nat \cup {Garbage}]
    BY EventCaptured DEF RInv, RecordTypeOK
  <1>c. event.Path.Chars \in 0 .. PathMax - 1 /\ event.Name.Chars \in 0 .. PathMax - 1
    BY <1>0 DEF WellCaptured, PathMax, NameMax
  <1>1. CASE NextEvent
    <2>1. /\ at' = "path" /\ operation' \in Operations /\ Observed(operation')
          /\ event' = Capture(operation') /\ outcome' = "none"
          /\ UNCHANGED <<local, cut, line>>
      BY <1>1 DEF NextEvent, Goto
    <2>2. RecordTypeOK'
      BY <2>1 DEF RInv, RecordTypeOK, BufferSize
    <2>3. Branches' /\ Filled'
      BY <2>1 DEF Branches, Filled
    <2>4. NothingCut' /\ OnlyRegistryValuesTooLong'
      BY <2>1 DEF RInv, NothingCut, OnlyRegistryValuesTooLong
    <2> QED
      BY <2>1, <2>2, <2>3, <2>4 DEF RInv
  <1>2. CASE EscapePath
    <2>1. PICK e \in Escaped(event.Path.Chars) : Fill("path", e)
      BY <1>2 DEF EscapePath
    <2>2. e.Length \in 0 .. 2 * event.Path.Chars /\ e.Cut = FALSE
      BY <1>c, <2>1, EscapeBound
    <2>n. e.Length \in Nat
      BY <1>c, <2>2 DEF PathMax
    <2>3. /\ at' = (IF IsRegistry(event) THEN "name" ELSE "print")
          /\ at' \in {"path", "name", "data", "status", "print", "write", "return"}
          /\ UNCHANGED <<operation, event, line, outcome>>
      BY <1>2 DEF EscapePath, Goto
    <2>4. /\ RecordTypeOK' /\ Observed(operation)' /\ NothingCut'
          /\ OnlyRegistryValuesTooLong'
          /\ local'["path"] = e.Length
      BY <2>1, <2>2, <2>3, <2>n, FillKeeps DEF Locals
    <2>5. Branches' /\ Filled'
      BY <2>2, <2>3, <2>4 DEF Branches, Filled, PathFilled, IsRegistry
    <2> QED
      BY <2>4, <2>5 DEF RInv
  <1>3. CASE KeyFields
    <2>1. /\ at = "name" /\ at' = "status" /\ event.Action = "create_key"
          /\ UNCHANGED <<operation, event, cut, line, outcome>>
          /\ local' \in [Locals -> Nat \cup {Garbage}]
          /\ local'["path"] = local["path"] /\ local'["name"] = 0 /\ local'["data"] = 4
      BY <1>0, <1>3 DEF KeyFields, Goto, Locals
    <2>2. RecordTypeOK' /\ Observed(operation)'
      BY <2>1 DEF RInv, RecordTypeOK, BufferSize
    <2>3. IsRegistry(event) /\ PathFilled
      BY <2>1 DEF RInv, Branches, Filled
    <2>4. PathFilled' /\ NameFilled' /\ DataFilled'
      BY <1>c, <2>1, <2>3 DEF PathFilled, NameFilled, DataFilled, PathMax
    <2>5. Branches' /\ Filled'
      BY <2>1, <2>3, <2>4 DEF Branches, Filled, IsRegistry
    <2>6. NothingCut' /\ OnlyRegistryValuesTooLong'
      BY <2>1 DEF RInv, NothingCut, OnlyRegistryValuesTooLong
    <2> QED
      BY <2>2, <2>5, <2>6 DEF RInv
  <1>4. CASE EscapeName
    <2>1. PICK e \in Escaped(event.Name.Chars) : Fill("name", e)
      BY <1>4 DEF EscapeName
    <2>2. e.Length \in 0 .. 2 * event.Name.Chars /\ e.Cut = FALSE
      BY <1>c, <2>1, EscapeBound
    <2>n. e.Length \in Nat
      BY <1>c, <2>2 DEF PathMax
    <2>3. /\ at = "name" /\ at' = "data" /\ event.Action # "create_key"
          /\ UNCHANGED <<operation, event, line, outcome>>
      BY <1>4 DEF EscapeName, Goto
    <2>4. /\ RecordTypeOK' /\ Observed(operation)' /\ NothingCut'
          /\ OnlyRegistryValuesTooLong'
          /\ local'["name"] = e.Length /\ local'["path"] = local["path"]
      BY <2>1, <2>2, <2>3, <2>n, FillKeeps DEF Locals
    <2>5. IsRegistry(event) /\ PathFilled
      BY <2>3 DEF RInv, Branches, Filled
    <2>6. PathFilled' /\ NameFilled'
      BY <2>2, <2>3, <2>4, <2>5 DEF PathFilled, NameFilled
    <2>7. Branches' /\ Filled'
      BY <2>3, <2>5, <2>6 DEF Branches, Filled, IsRegistry
    <2> QED
      BY <2>4, <2>7 DEF RInv
  <1>5. CASE FormatData
    <2>1. PICK r \in Formatted(event.ValueType, event.Data) : Fill("data", InValueBuffer(r))
      BY <1>5 DEF FormatData
    <2>2. /\ at = "data" /\ at' = "status" /\ event.Action = "set_value"
          /\ UNCHANGED <<operation, event, line, outcome>>
      BY <1>5 DEF FormatData, Goto
    <2>3. InValueBuffer(r).Length \in 0 .. 514 /\ InValueBuffer(r).Cut = FALSE
      BY <1>0, <2>1, <2>2, FormattedBound, ZenonT(40) DEF WellCaptured
    <2>n. InValueBuffer(r).Length \in Nat
      BY <2>3
    <2>4. /\ RecordTypeOK' /\ Observed(operation)' /\ NothingCut'
          /\ OnlyRegistryValuesTooLong'
          /\ local'["data"] = InValueBuffer(r).Length
          /\ local'["name"] = local["name"] /\ local'["path"] = local["path"]
      BY <2>1, <2>2, <2>3, <2>n, FillKeeps DEF Locals
    <2>5. IsRegistry(event) /\ PathFilled /\ NameFilled
      BY <2>2 DEF RInv, Branches, Filled
    <2>6. PathFilled' /\ NameFilled' /\ DataFilled'
      BY <2>2, <2>3, <2>4, <2>5 DEF PathFilled, NameFilled, DataFilled
    <2>7. Branches' /\ Filled'
      BY <2>2, <2>5, <2>6 DEF Branches, Filled, IsRegistry
    <2> QED
      BY <2>4, <2>7 DEF RInv
  <1>6. CASE NullData
    <2>1. /\ at = "data" /\ at' = "status" /\ event.Action = "delete_value"
          /\ UNCHANGED <<operation, event, cut, line, outcome>>
          /\ local' \in [Locals -> Nat \cup {Garbage}]
          /\ local'["path"] = local["path"] /\ local'["name"] = local["name"]
          /\ local'["data"] = 4
      BY <1>0, <1>6 DEF NullData, Goto, Locals
    <2>2. RecordTypeOK' /\ Observed(operation)'
      BY <2>1 DEF RInv, RecordTypeOK, BufferSize
    <2>3. IsRegistry(event) /\ PathFilled /\ NameFilled
      BY <2>1 DEF RInv, Branches, Filled
    <2>4. PathFilled' /\ NameFilled' /\ DataFilled'
      BY <2>1, <2>3 DEF PathFilled, NameFilled, DataFilled
    <2>5. Branches' /\ Filled'
      BY <2>1, <2>3, <2>4 DEF Branches, Filled, IsRegistry
    <2>6. NothingCut' /\ OnlyRegistryValuesTooLong'
      BY <2>1 DEF RInv, NothingCut, OnlyRegistryValuesTooLong
    <2> QED
      BY <2>2, <2>5, <2>6 DEF RInv
  <1>7. CASE FillStatus
    <2>1. /\ at = "status" /\ at' = "print"
          /\ UNCHANGED <<operation, event, cut, line, outcome>>
          /\ local' \in [Locals -> Nat \cup {Garbage}]
          /\ local'["path"] = local["path"] /\ local'["name"] = local["name"]
          /\ local'["data"] = local["data"]
          /\ local'["status"] = (IF event.Action = "create_key" THEN 12 ELSE 4)
      BY <1>0, <1>7 DEF FillStatus, Goto, Locals
    <2>2. RecordTypeOK' /\ Observed(operation)'
      BY <2>1 DEF RInv, RecordTypeOK, BufferSize
    <2>3. IsRegistry(event) /\ PathFilled /\ NameFilled /\ DataFilled
      BY <2>1 DEF RInv, Branches, Filled
    <2>4. PathFilled' /\ NameFilled' /\ DataFilled' /\ StatusFilled'
      BY <2>1, <2>3 DEF PathFilled, NameFilled, DataFilled, StatusFilled
    <2>5. Branches' /\ Filled'
      BY <2>1, <2>4 DEF Branches, Filled, IsRegistry
    <2>6. NothingCut' /\ OnlyRegistryValuesTooLong'
      BY <2>1 DEF RInv, NothingCut, OnlyRegistryValuesTooLong
    <2> QED
      BY <2>2, <2>5, <2>6 DEF RInv
  <1>8. CASE PrintTooLong
    <2>1. PICK n \in LineLengths : ~ Fits(n)
      BY <1>8 DEF PrintTooLong
    <2>2. at = "print" /\ Return("print", "too long") /\ event' = event
      BY <1>8 DEF PrintTooLong, Return, Goto
    <2>f. PathFilled /\ (IsRegistry(event) => NameFilled /\ DataFilled /\ StatusFilled)
      BY <2>2 DEF RInv, Filled
    <2>3. OnlyRegistryValuesTooLong'
      BY <2>1, <2>2, <2>f, LineBound DEF OnlyRegistryValuesTooLong
    <2> QED
      BY <2>2, <2>3, ReturnKeeps
  <1>9. CASE PrintLine
    <2>1. /\ at = "print" /\ at' = "write" /\ line' \in LineLengths /\ Fits(line')
          /\ UNCHANGED <<operation, event, local, cut, outcome>>
      BY <1>9 DEF PrintLine, Goto
    <2>f. PathFilled /\ (IsRegistry(event) => NameFilled /\ DataFilled /\ StatusFilled)
      BY <2>1 DEF RInv, Filled
    <2>g. line' \in Nat
      BY <2>1, <2>f, LineBound
    <2>2. line' \in 0 .. BufferSize - 1
      BY <2>1, <2>g DEF Fits, BufferSize
    <2>3. RecordTypeOK' /\ Observed(operation)'
      BY <2>1, <2>2 DEF RInv, RecordTypeOK
    <2>4. Branches' /\ Filled'
      BY <2>1 DEF Branches, Filled
    <2>5. NothingCut' /\ OnlyRegistryValuesTooLong'
      BY <2>1 DEF RInv, NothingCut, OnlyRegistryValuesTooLong
    <2> QED
      BY <2>3, <2>4, <2>5 DEF RInv
  <1>10. CASE Write \/ WriteFails
    <2>1. CASE Return("write", "written")
      BY <2>1, ReturnKeeps
    <2>2. CASE Return("write", "write failed")
      BY <2>2, ReturnKeeps
    <2> QED
      BY <1>10, <2>1, <2>2 DEF Write, WriteFails
  <1>11. CASE UNCHANGED recordVars
    <2>1. UNCHANGED <<operation, event, at, local, cut, line, outcome>>
      BY <1>11 DEF recordVars
    <2>2. RecordTypeOK' /\ Observed(operation)'
      BY <2>1 DEF RInv, RecordTypeOK
    <2>3. Branches' /\ Filled'
      BY <2>1 DEF RInv, Branches, Filled, PathFilled, NameFilled, DataFilled, StatusFilled, IsRegistry
    <2>4. NothingCut' /\ OnlyRegistryValuesTooLong'
      BY <2>1 DEF RInv, NothingCut, OnlyRegistryValuesTooLong
    <2> QED
      BY <2>2, <2>3, <2>4 DEF RInv
  <1> QED
    BY <1>1, <1>2, <1>3, <1>4, <1>5, <1>6, <1>7, <1>8, <1>9, <1>10, <1>11
       DEF RecordNext, RegistryFields

LEMMA RInvAlways == RecordSpec => []RInv
  BY InitRInv, NextRInv, PTL DEF RecordSpec

-----------------------------------------------------------------------------
(* The buffers stay typed: EventBuffer never holds more than 999 bytes.    *)
THEOREM RecordTypeCorrect == RecordSpec => []RecordTypeOK
  BY RInvAlways, PTL DEF RInv

(* Every copy of a sensor stays inside its field and shows all of the text *)
(* that the field has room for, for every length and parity of the source. *)
THEOREM FieldsAreFaithful == RecordSpec => []FieldsFaithful
  <1>1. RInv => FieldsFaithful
    BY EventCaptured DEF RInv, CapturedFaithfully, FieldsFaithful
  <1> QED
    BY <1>1, RInvAlways, PTL

(* RtlStringCbPrintfA reads no string buffer that was not written before.  *)
THEOREM BuffersAreSet == RecordSpec => []NothingPrintedUnset
  <1>1. RInv => NothingPrintedUnset
    <2> SUFFICES ASSUME RInv, at = "print" PROVE NothingPrintedUnset
      BY DEF NothingPrintedUnset
    <2>1. event.Path.Chars \in Nat /\ event.Name.Chars \in Nat
      BY EventCaptured DEF RInv, WellCaptured, PathMax, NameMax
    <2>2. local["path"] \in Nat
      BY <2>1 DEF RInv, Filled, PathFilled
    <2>3. IsRegistry(event) =>
            local["name"] \in Nat /\ local["data"] \in Nat /\ local["status"] \in Nat
      BY <2>1 DEF RInv, Filled, NameFilled, DataFilled, StatusFilled
    <2> QED
      BY <2>2, <2>3, GarbageAssumption DEF NothingPrintedUnset, Locals
  <1> QED
    BY <1>1, RInvAlways, PTL

(* The escape buffers and FormattedValueData are large enough for all that *)
(* an event can hold.                                                      *)
THEOREM NothingIsCut == RecordSpec => []NothingCut
  BY RInvAlways, PTL DEF RInv

(* Only the record of a registry value can be too long for EventBuffer,    *)
(* and only if its key and its name are long.                              *)
THEOREM OnlyValuesTooLong == RecordSpec => []OnlyRegistryValuesTooLong
  BY RInvAlways, PTL DEF RInv
=============================================================================
