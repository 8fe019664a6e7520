------------------------------ MODULE Capture ------------------------------
(***************************************************************************)
(* What the sensors copy of an observed operation into the fixed fields of *)
(* a KDAMON_EVENT: KdaMonProcessNotifyRoutine, KdaMonImageNotifyRoutine,   *)
(* KdaMonRegistryCallback and its handlers, KdaMonWfpClassifyCommon.       *)
(*                                                                         *)
(* A text of the kernel's has a length in Bytes, which may be odd, and     *)
(* Chars characters before its first zero or its end.  A field has the     *)
(* index End of the terminator that the copy wrote, and Chars characters   *)
(* before the first zero that a reader of the field meets.                 *)
(***************************************************************************)
EXTENDS Naturals

CharSize == 2         \* sizeof(WCHAR)
PathMax == 260        \* KDAMON_REG_PATH_MAX
NameMax == 260        \* KDAMON_REG_VALUENAME_MAX
DataMax == 256        \* KDAMON_REG_VALUEDATA_MAX, in bytes

CONSTANT NoText       \* a name that is not there, or could not be resolved

IsText(t) ==
  /\ t.Bytes \in Nat /\ t.Chars \in Nat
  /\ CharSize * t.Chars <= t.Bytes

MaybeText(t) == t = NoText \/ IsText(t)

Smaller(a, b) == IF a < b THEN a ELSE b

EmptyField == [End |-> 0, Chars |-> 0]

\* The field of n characters once `copied` characters of the text are in it.
Terminated(t, copied) == [End |-> copied, Chars |-> Smaller(t.Chars, copied)]

\* Process, image and network events compare lengths in bytes,
CopyBytes(t, n) ==
  IF t = NoText THEN EmptyField
  ELSE Terminated(t, Smaller(t.Bytes, CharSize * (n - 1)) \div CharSize)

\* Faulty: bytes on one side, characters on the other, as the annotation
\* _Out_writes_bytes_ of KdaMonRegistryResolveKeyPath would have it.
CopyCharsOfBytes(t, n) ==
  IF t = NoText THEN EmptyField
  ELSE Terminated(t, Smaller(t.Bytes \div CharSize, CharSize * n - 1))

\* registry events lengths in characters.
CopyChars(t, n) ==
  IF t = NoText THEN EmptyField
  ELSE Terminated(t, Smaller(t.Bytes \div CharSize, n - 1))

\* A caller may give the size of a value without its data: zeros, then.
CopyData(d) ==
  LET n == Smaller(d.Text.Bytes, DataMax) IN
    [Bytes |-> n, Chars |-> IF d.Given THEN Smaller(d.Text.Chars, n \div CharSize) ELSE 0]

\* KDAMON_EVENT Event = { 0 }
Blank(type) ==
  [Type |-> type, Action |-> "none", Process |-> EmptyField, Path |-> EmptyField,
   Name |-> EmptyField, ValueType |-> "none", Data |-> [Bytes |-> 0, Chars |-> 0]]

-----------------------------------------------------------------------------
(* The callbacks.  An operation of the kernel's is a record with a Kind.   *)

PathKinds == {"create_process", "load_image", "connect"}
ValueKinds == {"set_value", "delete_value"}
RegistryKinds == ValueKinds \cup {"create_key"}
ValueTypes == {"sz", "dword", "qword", "other"}

IsOperation(op) ==
  /\ op.Kind \in PathKinds \cup RegistryKinds \cup {"end_process", "other"}
  /\ op.Kind \in PathKinds \cup RegistryKinds => MaybeText(op.Path)
  /\ op.Kind \in RegistryKinds => MaybeText(op.Process)
  /\ op.Kind \in ValueKinds => MaybeText(op.Name)
  /\ op.Kind = "set_value" =>
       op.ValueType \in ValueTypes /\ op.Data.Given \in BOOLEAN /\ IsText(op.Data.Text)

ProcessNotify(op) ==
  IF op.Kind = "create_process"
    THEN [Blank("process") EXCEPT !.Path = CopyBytes(op.Path, PathMax)]
    ELSE Blank("process")

ImageNotify(op) == [Blank("image") EXCEPT !.Path = CopyBytes(op.Path, PathMax)]

ClassifyCommon(op) == [Blank("network") EXCEPT !.Path = CopyBytes(op.Path, PathMax)]

RegistryEvent(op) ==
  [Blank("registry") EXCEPT
     !.Action = op.Kind,
     !.Process = CopyChars(op.Process, PathMax),
     !.Path = CopyChars(op.Path, PathMax)]

HandleSetValueKey(op) ==
  [RegistryEvent(op) EXCEPT
     !.Name = CopyChars(op.Name, NameMax),
     !.ValueType = op.ValueType,
     !.Data = CopyData(op.Data)]

HandleDeleteValueKey(op) == [RegistryEvent(op) EXCEPT !.Name = CopyChars(op.Name, NameMax)]

HandlePostCreateKeyEx(op) == RegistryEvent(op)

\* An operation on a value without a name, and every other one, goes by.
Observed(op) ==
  /\ op.Kind # "other"
  /\ op.Kind \in ValueKinds => op.Name # NoText

Capture(op) ==
  CASE op.Kind \in {"create_process", "end_process"} -> ProcessNotify(op)
    [] op.Kind = "load_image"   -> ImageNotify(op)
    [] op.Kind = "connect"      -> ClassifyCommon(op)
    [] op.Kind = "set_value"    -> HandleSetValueKey(op)
    [] op.Kind = "delete_value" -> HandleDeleteValueKey(op)
    [] op.Kind = "create_key"   -> HandlePostCreateKeyEx(op)

-----------------------------------------------------------------------------
(* What a field should hold: the text, cut off where the field ends.       *)
Shows(field, t, n) ==
  IF t = NoText THEN field = EmptyField
  ELSE /\ field.End < n
       /\ field.Chars = Smaller(t.Chars, n - 1)
=============================================================================
