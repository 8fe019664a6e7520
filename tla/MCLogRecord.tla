---------------------------- MODULE MCLogRecord ----------------------------
(***************************************************************************)
(* The real sizes.  Texts are absent, empty, of an odd number of bytes, as *)
(* long as a field has room for and one byte, one character and much more  *)
(* than that, with a zero inside.  A value under an ordinary key has every *)
(* kind of data; with short text for data its name and key take every      *)
(* length.  The name of 155 brings a line to exactly BufferSize.           *)
(***************************************************************************)
EXTENDS LogRecord

Text(bytes, chars) == [Bytes |-> bytes, Chars |-> chars]
Given(text) == [Given |-> TRUE, Text |-> text]

MCTexts ==
  {NoText, Text(0, 0), Text(7, 3), Text(180, 90), Text(518, 259), Text(519, 259),
   Text(520, 260), Text(1400, 700), Text(600, 4)}
MCNames == {Text(24, 12), Text(310, 155), Text(518, 259), Text(65534, 32767), NoText}

MCDatas ==
  {Given(Text(n, n \div 2)) : n \in {0, 3, 4, 7, 8, 256, 257, 600}} \cup
  {Given(Text(256, 5)), [Given |-> FALSE, Text |-> Text(12, 0)]}

Registry(kind, processes, paths) ==
  [Kind : {kind}, Process : processes, Path : paths]
WithName(o, names) ==
  {[Kind |-> r.Kind, Process |-> r.Process, Path |-> r.Path, Name |-> n] :
     r \in o, n \in names}
WithData(o, types, datas) ==
  {[Kind |-> r.Kind, Process |-> r.Process, Path |-> r.Path, Name |-> r.Name,
    ValueType |-> t, Data |-> d] : r \in o, t \in types, d \in datas}

MCOperations ==
  [Kind : PathKinds, Path : MCTexts] \cup
  [Kind : {"end_process", "other"}] \cup
  Registry("create_key", MCTexts, MCTexts) \cup
  WithName(Registry("delete_value", {NoText}, MCTexts), MCTexts) \cup
  WithData(WithName(Registry("set_value", {Text(180, 90)}, {Text(180, 90)}), MCNames),
           ValueTypes, MCDatas) \cup
  WithData(WithName(Registry("set_value", {NoText}, MCTexts), MCNames),
           {"other"}, {Given(Text(256, 128))})

MCEscapes == [n \in 0 .. PathMax - 1 |-> {0, n, 2 * n}]
MCExtremes ==
  [process |-> {85, 132}, image |-> {228, 306},
   network |-> {174, 240}, registry |-> {124, 164}]
=============================================================================
