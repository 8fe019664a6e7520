----------------------------- MODULE JsonEscape -----------------------------
(***************************************************************************)
(* KdaMonJsonEscapeW of driver/src/log_writer.c: copies a wide string into *)
(* a narrow buffer, a backslash before every quote and backslash, dropping *)
(* what is not printable ASCII, and stops in time if the buffer is small.  *)
(* The text of every path, name and string in the log went through it.     *)
(***************************************************************************)
EXTENDS Naturals, Sequences, SequencesExt

CONSTANTS
  Special,    \* the characters that are escaped: quote and backslash
  Plain,      \* the other characters from 0x20 to 0x7E
  Other,      \* control characters and all beyond 0x7E
  Backslash,
  Nul,
  Sources,    \* the source strings of a run, without their terminator
  Sizes       \* the values of DestSize in a run

Chars == Special \cup Plain \cup Other

ASSUME CharsAssumption ==
  /\ Backslash \in Special
  /\ Nul \notin Chars
  /\ Special \cap Plain = {} /\ Special \cap Other = {} /\ Plain \cap Other = {}
ASSUME SourcesAssumption == Sources \subseteq Seq(Chars)
ASSUME SizesAssumption == Sizes \subseteq Nat

VARIABLES
  source,     \* Source
  destSize,   \* DestSize
  i,          \* characters of Source consumed
  dest,       \* the bytes written; Out is their number while the loop runs
  result      \* "running", or what was returned: "whole" or "truncated"

escapeVars == <<source, destSize, i, dest, result>>

EscapeInit ==
  /\ source \in Sources
  /\ destSize \in Sizes
  /\ i = 0
  /\ dest = <<>>
  /\ result = "running"

Looping == result = "running" /\ destSize # 0
More == Looping /\ i < Len(source)
Ch == source[i + 1]

-----------------------------------------------------------------------------
\* There is no room even for the terminator.
RefuseEmpty ==
  /\ result = "running" /\ destSize = 0
  /\ result' = "truncated"
  /\ UNCHANGED <<source, destSize, i, dest>>

\* Faulty: checks the room for one byte and writes two.
CopySpecialTight ==
  /\ More /\ Ch \in Special
  /\ Len(dest) + 1 < destSize
  /\ dest' = dest \o <<Backslash, Ch>>
  /\ i' = i + 1
  /\ UNCHANGED <<source, destSize, result>>

CopySpecial ==
  /\ More /\ Ch \in Special
  /\ Len(dest) + 2 < destSize
  /\ dest' = dest \o <<Backslash, Ch>>
  /\ i' = i + 1
  /\ UNCHANGED <<source, destSize, result>>

CopyPlain ==
  /\ More /\ Ch \in Plain
  /\ Len(dest) + 1 < destSize
  /\ dest' = Append(dest, Ch)
  /\ i' = i + 1
  /\ UNCHANGED <<source, destSize, result>>

\* Faulty: copies a character that it should leave out.
KeepOther ==
  /\ More /\ Ch \in Other
  /\ Len(dest) + 1 < destSize
  /\ dest' = Append(dest, Ch)
  /\ i' = i + 1
  /\ UNCHANGED <<source, destSize, result>>

SkipOther ==
  /\ More /\ Ch \in Other
  /\ i' = i + 1
  /\ UNCHANGED <<source, destSize, dest, result>>

\* Faulty: one rule for all characters.
TruncateEarly ==
  /\ More /\ Ch \notin Other
  /\ Len(dest) + 3 >= destSize
  /\ dest' = Append(dest, Nul)
  /\ result' = "truncated"
  /\ UNCHANGED <<source, destSize, i>>

\* The next character does not fit in front of the terminator.
Truncate ==
  /\ More
  /\ \/ Ch \in Special /\ Len(dest) + 2 >= destSize
     \/ Ch \in Plain /\ Len(dest) + 1 >= destSize
  /\ dest' = Append(dest, Nul)
  /\ result' = "truncated"
  /\ UNCHANGED <<source, destSize, i>>

Terminate ==
  /\ Looping /\ i = Len(source)
  /\ dest' = Append(dest, Nul)
  /\ result' = "whole"
  /\ UNCHANGED <<source, destSize, i>>

EscapeNext ==
  RefuseEmpty \/ CopySpecial \/ CopyPlain \/ SkipOther \/ Truncate \/ Terminate

EscapeSpec == EscapeInit /\ [][EscapeNext]_escapeVars

-----------------------------------------------------------------------------
(* Correctness.                                                            *)

EscapeTypeOK ==
  /\ source \in Seq(Chars)
  /\ destSize \in Nat
  /\ i \in 0 .. Len(source)
  /\ dest \in Seq(Special \cup Plain \cup {Nul})
  /\ result \in {"running", "whole", "truncated"}

(* Nothing is written beyond the buffer, in whatever combination escaped   *)
(* and plain characters meet its end; on return the buffer holds a string, *)
(* its only Nul the last byte written.                                     *)
StaysInBuffer ==
  /\ Len(dest) <= destSize
  /\ \A k \in 1 .. Len(dest) :
       dest[k] = Nul <=> result # "running" /\ k = Len(dest)
  /\ result # "running" /\ destSize # 0 => dest # <<>>

\* What one character, and what a string, becomes in a buffer without end.
EscapeOf(c) ==
  IF c \in Special THEN <<Backslash, c>> ELSE IF c \in Plain THEN <<c>> ELSE <<>>
Escaped(s) == FlattenSeq([k \in DOMAIN s |-> EscapeOf(s[k])])

(* The string returned is the escape of a prefix of the source, of all of  *)
(* it if TRUE was returned and otherwise of the longest that fits: the     *)
(* buffer never ends between a backslash and the character it escapes.     *)
LongestPrefix ==
  result # "running" /\ destSize # 0 =>
    /\ dest = Append(Escaped(SubSeq(source, 1, i)), Nul)
    /\ result = "whole" <=> i = Len(source)
    /\ result = "truncated" => Len(Escaped(SubSeq(source, 1, i + 1))) >= destSize

(* A buffer of more than twice the length of the source always suffices.   *)
(* The callers rely on it for their 520 bytes and 259 characters at most.  *)
RoomyNeverTruncates ==
  2 * Len(source) < destSize => result # "truncated"
=============================================================================
