---------------------------- MODULE MCJsonEscape ----------------------------
(***************************************************************************)
(* Every source of up to five characters over the two special ones, a      *)
(* plain and an unprintable one, and every buffer from none at all to one  *)
(* that takes any of them.                                                 *)
(***************************************************************************)
EXTENDS JsonEscape

CONSTANTS quote, letter, control

MCSpecial == {quote, Backslash}
MCPlain == {letter}
MCOther == {control}
MCSources == UNION {[1 .. n -> MCSpecial \cup MCPlain \cup MCOther] : n \in 0 .. 5}
MCSizes == 0 .. 11
=============================================================================
