-------------------------- MODULE JsonEscape_proofs --------------------------
(***************************************************************************)
(* KdaMonJsonEscapeW stays inside its buffer and terminates what it writes *)
(* for every source and every buffer, and a buffer of more than twice the  *)
(* source's length always takes the whole of it.  What it writes is the    *)
(* escape of the longest prefix that fits, which a reader takes for the    *)
(* inside of one JSON string, and the loop has a variant.                  *)
(*                                                                         *)
(* The reference definition flattens a sequence of sequences, which the    *)
(* library defines by recursion: what it does to a sequence with one more  *)
(* element is proved by induction over a set of naturals first.            *)
(***************************************************************************)
EXTENDS JsonEscape, WellFoundedInduction, TLAPS

(* Before the call returns the bytes written leave room for the terminator *)
(* and are at most two for each character consumed.                        *)
Room ==
  /\ result = "running" /\ destSize # 0 => Len(dest) < destSize
  /\ result = "running" => Len(dest) <= 2 * i
  /\ destSize = 0 => dest = <<>>

EInv == EscapeTypeOK /\ StaysInBuffer /\ Room /\ RoomyNeverTruncates

\* The character at hand is one of exactly three kinds, and not Nul.
LEMMA NextChar ==
  ASSUME EscapeTypeOK, More
  PROVE  /\ Ch \in Chars /\ Ch # Nul
         /\ i + 1 \in 0 .. Len(source)
         /\ i \in Nat /\ Len(source) \in Nat /\ i < Len(source)
  BY CharsAssumption DEF EscapeTypeOK, More, Looping, Ch

\* Initially nothing is written.
LEMMA InitEInv == EscapeInit => EInv
  <1> SUFFICES ASSUME EscapeInit PROVE EInv
    OBVIOUS
  <1>1. source \in Seq(Chars) /\ destSize \in Nat
    BY SourcesAssumption, SizesAssumption DEF EscapeInit
  <1> QED
    BY <1>1 DEF EscapeInit, EInv, EscapeTypeOK, StaysInBuffer, Room, RoomyNeverTruncates

\* Every step of the loop, and either way out of it, keeps the invariant.
LEMMA NextEInv == EInv /\ [EscapeNext]_escapeVars => EInv'
  <1> SUFFICES ASSUME EInv, [EscapeNext]_escapeVars PROVE EInv'
    OBVIOUS
  <1> USE DEF EInv, EscapeTypeOK, StaysInBuffer, Room, RoomyNeverTruncates
  <1>nul. Nul \notin Special /\ Nul \notin Plain /\ Backslash \in Special
    BY CharsAssumption DEF Chars
  <1>1. CASE RefuseEmpty
    BY <1>1 DEF RefuseEmpty
  <1>2. CASE CopySpecial
    <2>1. Ch \in Special /\ i + 1 \in 0 .. Len(source) /\ i \in Nat
          /\ Len(dest) + 2 < destSize /\ i' = i + 1 /\ dest' = dest \o <<Backslash, Ch>>
          /\ result = "running" /\ destSize # 0 /\ UNCHANGED <<source, destSize, result>>
      BY <1>2, NextChar DEF CopySpecial, More, Looping
    <2>2. /\ dest' \in Seq(Special \cup Plain \cup {Nul})
          /\ Len(dest') = Len(dest) + 2
          /\ \A k \in 1 .. Len(dest) : dest'[k] = dest[k]
          /\ dest'[Len(dest) + 1] = Backslash /\ dest'[Len(dest) + 2] = Ch
      BY <2>1, <1>nul
    <2>3. \A k \in 1 .. Len(dest') : dest'[k] # Nul
      BY <2>1, <2>2, <1>nul
    <2>4. EscapeTypeOK' /\ Room'
      BY <2>1, <2>2
    <2>5. StaysInBuffer' /\ RoomyNeverTruncates'
      BY <2>1, <2>2, <2>3
    <2> QED
      BY <2>4, <2>5
  <1>3. CASE CopyPlain
    <2>1. Ch \in Plain /\ i + 1 \in 0 .. Len(source) /\ i \in Nat
          /\ Len(dest) + 1 < destSize /\ i' = i + 1 /\ dest' = Append(dest, Ch)
          /\ result = "running" /\ destSize # 0 /\ UNCHANGED <<source, destSize, result>>
      BY <1>3, NextChar DEF CopyPlain, More, Looping
    <2>2. /\ dest' \in Seq(Special \cup Plain \cup {Nul})
          /\ Len(dest') = Len(dest) + 1
          /\ \A k \in 1 .. Len(dest) : dest'[k] = dest[k]
          /\ dest'[Len(dest) + 1] = Ch
      BY <2>1
    <2>3. \A k \in 1 .. Len(dest') : dest'[k] # Nul
      BY <2>1, <2>2, <1>nul
    <2> QED
      BY <2>1, <2>2, <2>3
  <1>4. CASE SkipOther
    <2>1. i + 1 \in 0 .. Len(source) /\ i \in Nat
      BY <1>4, NextChar DEF SkipOther
    <2> QED
      BY <1>4, <2>1 DEF SkipOther, More, Looping
  <1>5. CASE Truncate
    <2>1. result = "running" /\ destSize # 0 /\ dest' = Append(dest, Nul)
          /\ result' = "truncated" /\ UNCHANGED <<source, destSize, i>>
      BY <1>5 DEF Truncate, More, Looping
    <2>2. i \in Nat /\ Len(source) \in Nat /\ i < Len(source) /\ Len(dest) + 2 >= destSize
      BY <1>5, NextChar DEF Truncate
    <2>3. ~ (2 * Len(source) < destSize)
      BY <2>1, <2>2
    <2>4. /\ dest' \in Seq(Special \cup Plain \cup {Nul})
          /\ Len(dest') = Len(dest) + 1
          /\ \A k \in 1 .. Len(dest) : dest'[k] = dest[k]
          /\ dest'[Len(dest) + 1] = Nul
      BY <2>1
    <2> QED
      BY <2>1, <2>3, <2>4
  <1>6. CASE Terminate
    <2>1. result = "running" /\ destSize # 0 /\ dest' = Append(dest, Nul)
          /\ result' = "whole" /\ UNCHANGED <<source, destSize, i>>
      BY <1>6 DEF Terminate, Looping
    <2>2. /\ dest' \in Seq(Special \cup Plain \cup {Nul})
          /\ Len(dest') = Len(dest) + 1
          /\ \A k \in 1 .. Len(dest) : dest'[k] = dest[k]
          /\ dest'[Len(dest) + 1] = Nul
      BY <2>1
    <2> QED
      BY <2>1, <2>2
  <1>7. CASE UNCHANGED escapeVars
    BY <1>7 DEF escapeVars
  <1> QED
    BY <1>1, <1>2, <1>3, <1>4, <1>5, <1>6, <1>7 DEF EscapeNext

LEMMA EInvAlways == EscapeSpec => []EInv
  BY InitEInv, NextEInv, PTL DEF EscapeSpec

-----------------------------------------------------------------------------
(* The types of the call's variables are kept for every source and buffer. *)
THEOREM EscapeTypeCorrect == EscapeSpec => []EscapeTypeOK
  BY EInvAlways, PTL DEF EInv

(* KdaMonJsonEscapeW writes no byte beyond DestSize and leaves exactly one *)
(* terminator behind, at the end.                                          *)
THEOREM EscapeStaysInBuffer == EscapeSpec => []StaysInBuffer
  BY EInvAlways, PTL DEF EInv

(* A field of N - 1 characters never loses any to a buffer of 2 * N bytes, *)
(* which is what every caller of the function provides.                    *)
THEOREM EscapeOfRoomyIsWhole == EscapeSpec => []RoomyNeverTruncates
  BY EInvAlways, PTL DEF EInv

-----------------------------------------------------------------------------
(* The lemmas about FlattenSeq.                                            *)

\* A set with 0 and the successor of each of its naturals has them all: the
\* least natural outside it would have neither.
LEMMA NatSetInduction ==
  ASSUME NEW S, 0 \in S, \A n \in Nat : n \in S => n + 1 \in S
  PROVE  Nat \subseteq S
  <1> DEFINE R == OpToRel(<, Nat)
             T == Nat \ S
  <1> SUFFICES ASSUME T # {} PROVE FALSE
    OBVIOUS
  <1>1. IsWellFoundedOn(R, Nat)
    BY NatLessThanWellFounded
  <1>2. PICK x \in T : \A y \in T : ~ (<<y, x>> \in R)
    <2> HIDE DEF R
    <2>1. T \subseteq Nat
      OBVIOUS
    <2> HIDE DEF T
    <2> QED
      BY <1>1, <2>1, WFMin
  <1>3. x \in Nat /\ x # 0 /\ x - 1 \in Nat /\ x - 1 \notin S
    OBVIOUS
  <1>4. <<x - 1, x>> \in R
    BY <1>3 DEF OpToRel
  <1> QED
    BY <1>2, <1>3, <1>4

\* f holds, for each k up to n, the first k sequences of seqs joined together.
Joins(f, seqs, n) ==
  f = [k \in 1 .. n |-> IF k = 1 THEN seqs[k] ELSE f[k - 1] \o seqs[k]]

\* What such an f is at each place.
LEMMA JoinsAt ==
  ASSUME NEW f, NEW seqs, NEW n \in Nat, Joins(f, seqs, n)
  PROVE  \A k \in 1 .. n : f[k] = IF k = 1 THEN seqs[k] ELSE f[k - 1] \o seqs[k]
  BY DEF Joins

\* There is one for each n, got from the one for n - 1.
LEMMA JoinsExists ==
  ASSUME NEW seqs
  PROVE  \A n \in Nat : \E f : Joins(f, seqs, n)
  <1> DEFINE S == {n \in Nat : \E f : Joins(f, seqs, n)}
  <1>1. 0 \in S
    <2>1. Joins([k \in 1 .. 0 |-> seqs[k]], seqs, 0)
      BY DEF Joins
    <2> QED
      BY <2>1
  <1>2. \A n \in Nat : n \in S => n + 1 \in S
    <2> SUFFICES ASSUME NEW n \in Nat, n \in S PROVE n + 1 \in S
      OBVIOUS
    <2>1. PICK f : Joins(f, seqs, n)
      OBVIOUS
    <2> DEFINE g == [k \in 1 .. n + 1 |-> IF k \in 1 .. n THEN f[k]
                                          ELSE IF k = 1 THEN seqs[k] ELSE f[k - 1] \o seqs[k]]
    <2>2. \A k \in 1 .. n : f[k] = IF k = 1 THEN seqs[k] ELSE f[k - 1] \o seqs[k]
      BY <2>1, JoinsAt
    <2>3. \A k \in 1 .. n + 1 : g[k] = IF k = 1 THEN seqs[k] ELSE g[k - 1] \o seqs[k]
      <3> SUFFICES ASSUME NEW k \in 1 .. n + 1
                   PROVE  g[k] = IF k = 1 THEN seqs[k] ELSE g[k - 1] \o seqs[k]
        OBVIOUS
      <3>1. k # 1 => k - 1 \in 1 .. n
        OBVIOUS
      <3>2. k # 1 => g[k - 1] = f[k - 1]
        BY <3>1
      <3>3. CASE k \in 1 .. n
        BY <3>2, <3>3, <2>2
      <3>4. CASE k \notin 1 .. n
        BY <3>2, <3>4
      <3> QED
        BY <3>3, <3>4
    <2>4. Joins(g, seqs, n + 1)
      <3>1. g = [k \in 1 .. n + 1 |-> g[k]]
        OBVIOUS
      <3> HIDE DEF g
      <3> QED
        BY <3>1, <2>3 DEF Joins
    <2> QED
      BY <2>4
  <1> HIDE DEF S
  <1>3. Nat \subseteq S
    BY <1>1, <1>2, NatSetInduction
  <1> QED
    BY <1>3 DEF S

\* A last sequence more changes nothing in the places before it.
LEMMA JoinsAgree ==
  ASSUME NEW C, NEW s \in Seq(Seq(C)), NEW e \in Seq(C), NEW f, NEW g,
         Joins(f, s, Len(s)), Joins(g, Append(s, e), Len(s) + 1)
  PROVE  \A k \in 1 .. Len(s) : f[k] = g[k] /\ f[k] \in Seq(C)
  <1> DEFINE l == Len(s)
             S == {k \in Nat : k \in 1 .. l => f[k] = g[k] /\ f[k] \in Seq(C)}
  <1>f. \A k \in 1 .. l : f[k] = IF k = 1 THEN s[k] ELSE f[k - 1] \o s[k]
    BY JoinsAt
  <1>g. \A k \in 1 .. l : g[k] = IF k = 1 THEN s[k] ELSE g[k - 1] \o s[k]
    <2>1. \A k \in 1 .. l + 1 :
            g[k] = IF k = 1 THEN Append(s, e)[k] ELSE g[k - 1] \o Append(s, e)[k]
      <3>1. l + 1 \in Nat /\ Joins(g, Append(s, e), l + 1)
        OBVIOUS
      <3> HIDE DEF l
      <3> QED
        BY <3>1, JoinsAt, ZenonT(40)
    <2>2. \A k \in 1 .. l : k \in 1 .. l + 1 /\ Append(s, e)[k] = s[k]
      OBVIOUS
    <2> QED
      BY <2>1, <2>2
  <1>s. \A k \in 1 .. l : s[k] \in Seq(C)
    OBVIOUS
  <1>1. 0 \in S
    OBVIOUS
  <1>2. \A k \in Nat : k \in S => k + 1 \in S
    <2> SUFFICES ASSUME NEW k \in Nat, k \in S, k + 1 \in 1 .. l
                 PROVE  f[k + 1] = g[k + 1] /\ f[k + 1] \in Seq(C)
      OBVIOUS
    <2>1. CASE k = 0
      BY <2>1, <1>f, <1>g, <1>s
    <2>2. CASE k # 0
      <3>1. k \in 1 .. l /\ k + 1 # 1 /\ (k + 1) - 1 = k
        BY <2>2
      <3>2. f[k] = g[k] /\ f[k] \in Seq(C)
        BY <3>1
      <3>3. f[k + 1] = f[k] \o s[k + 1] /\ g[k + 1] = g[k] \o s[k + 1]
        BY <3>1, <1>f, <1>g
      <3>4. s[k + 1] \in Seq(C)
        BY <1>s
      <3> QED
        BY <3>2, <3>3, <3>4
    <2> QED
      BY <2>1, <2>2
  <1> HIDE DEF S
  <1>3. Nat \subseteq S
    BY <1>1, <1>2, NatSetInduction
  <1> QED
    BY <1>3 DEF S

\* FlattenSeq takes the last place of such an f.
LEMMA FlattenJoins ==
  ASSUME NEW seqs, Len(seqs) \in Nat \ {0}
  PROVE  \E f : Joins(f, seqs, Len(seqs)) /\ FlattenSeq(seqs) = f[Len(seqs)]
  <1>1. \E f : Joins(f, seqs, Len(seqs))
    BY JoinsExists
  <1>2. FlattenSeq(seqs) = (CHOOSE f : Joins(f, seqs, Len(seqs)))[Len(seqs)]
    BY DEF FlattenSeq, Joins
  <1> QED
    BY <1>1, <1>2

\* Flattening one sequence more appends that sequence to the rest, flattened.
LEMMA FlattenAppend ==
  ASSUME NEW C, NEW s \in Seq(Seq(C)), NEW e \in Seq(C)
  PROVE  FlattenSeq(Append(s, e)) = FlattenSeq(s) \o e /\ FlattenSeq(s) \in Seq(C)
  <1> DEFINE t == Append(s, e)
             n == Len(s)
  <1>t. /\ t \in Seq(Seq(C)) /\ n \in Nat /\ Len(t) = n + 1
        /\ t[n + 1] = e /\ \A k \in 1 .. n : t[k] = s[k]
    OBVIOUS
  <1>1. PICK g : Joins(g, t, n + 1) /\ FlattenSeq(t) = g[n + 1]
    <2> HIDE DEF t, n
    <2> QED
      BY <1>t, FlattenJoins, SMTT(40)
  <1>2. g[n + 1] = IF n + 1 = 1 THEN t[n + 1] ELSE g[(n + 1) - 1] \o t[n + 1]
    <2>1. n + 1 \in Nat /\ n + 1 \in 1 .. n + 1
      BY <1>t
    <2> HIDE DEF t, n
    <2> QED
      BY <1>1, <2>1, JoinsAt
  <1>3. CASE n = 0
    <2>1. s = <<>> /\ FlattenSeq(s) = s
      BY <1>3 DEF FlattenSeq
    <2>2. FlattenSeq(t) = e
      BY <1>1, <1>2, <1>3, <1>t
    <2>3. <<>> \o e = e /\ <<>> \in Seq(C)
      OBVIOUS
    <2> HIDE DEF t
    <2>4. FlattenSeq(t) = FlattenSeq(s) \o e /\ FlattenSeq(s) \in Seq(C)
      BY <2>1, <2>2, <2>3
    <2> QED
      BY <2>4 DEF t
  <1>4. CASE n # 0
    <2>1. PICK f : Joins(f, s, n) /\ FlattenSeq(s) = f[n]
      BY <1>4, FlattenJoins
    <2>2. f[n] = g[n] /\ f[n] \in Seq(C)
      <3>1. n \in 1 .. n
        BY <1>4, <1>t
      <3>2. \A k \in 1 .. n : f[k] = g[k] /\ f[k] \in Seq(C)
        BY <2>1, <1>1, JoinsAgree
      <3> QED
        BY <3>1, <3>2
    <2>3. g[n + 1] = g[n] \o e
      BY <1>2, <1>4, <1>t
    <2> QED
      BY <1>1, <2>1, <2>2, <2>3
  <1> QED
    BY <1>3, <1>4

-----------------------------------------------------------------------------
(* The copy is the longest that fits.                                      *)

\* Two characters, one or none for one of the source.
LEMMA EscapeOfType ==
  ASSUME NEW c
  PROVE  /\ EscapeOf(c) \in Seq(Special \cup Plain)
         /\ c \in Special => EscapeOf(c) = <<Backslash, c>>
         /\ c \in Plain => EscapeOf(c) = <<c>>
         /\ c \in Other => EscapeOf(c) = <<>>
  <1>1. CASE c \in Special
    <2>1. EscapeOf(c) = <<Backslash, c>> /\ c \notin Plain /\ c \notin Other
      BY <1>1, CharsAssumption DEF EscapeOf
    <2> QED
      BY <1>1, <2>1, CharsAssumption
  <1>2. CASE c \notin Special /\ c \in Plain
    <2>1. EscapeOf(c) = <<c>> /\ c \notin Other
      BY <1>2, CharsAssumption DEF EscapeOf
    <2> QED
      BY <1>2, <2>1
  <1>3. CASE c \notin Special /\ c \notin Plain
    BY <1>3 DEF EscapeOf
  <1> QED
    BY <1>1, <1>2, <1>3

\* The escape of a prefix grows by the escape of the character that follows.
LEMMA EscapedPrefix ==
  ASSUME NEW s \in Seq(Chars), NEW n \in 0 .. Len(s)
  PROVE  /\ Escaped(SubSeq(s, 1, n)) \in Seq(Special \cup Plain)
         /\ n = 0 => Escaped(SubSeq(s, 1, n)) = <<>>
         /\ n < Len(s) => Escaped(SubSeq(s, 1, n + 1)) =
                            Escaped(SubSeq(s, 1, n)) \o EscapeOf(s[n + 1])
  <1> DEFINE C == Special \cup Plain
             E(m) == [k \in 1 .. m |-> EscapeOf(s[k])]
  <1>1. \A m \in 0 .. Len(s) : E(m) \in Seq(Seq(C)) /\ Len(E(m)) = m
    <2> SUFFICES ASSUME NEW m \in 0 .. Len(s) PROVE E(m) \in Seq(Seq(C)) /\ Len(E(m)) = m
      OBVIOUS
    <2>1. \A k \in 1 .. m : EscapeOf(s[k]) \in Seq(C)
      BY EscapeOfType
    <2> QED
      BY <2>1
  <1>2. \A m \in 0 .. Len(s) : Escaped(SubSeq(s, 1, m)) = FlattenSeq(E(m))
    <2> SUFFICES ASSUME NEW m \in 0 .. Len(s)
                 PROVE  Escaped(SubSeq(s, 1, m)) = FlattenSeq(E(m))
      OBVIOUS
    <2>1. /\ DOMAIN SubSeq(s, 1, m) = 1 .. m
          /\ \A k \in 1 .. m : SubSeq(s, 1, m)[k] = s[k]
      OBVIOUS
    <2>2. [k \in DOMAIN SubSeq(s, 1, m) |-> EscapeOf(SubSeq(s, 1, m)[k])] = E(m)
      BY <2>1
    <2> QED
      BY <2>2 DEF Escaped
  <1>3. n < Len(s) => E(n + 1) = Append(E(n), EscapeOf(s[n + 1]))
    <2> SUFFICES ASSUME n < Len(s) PROVE E(n + 1) = Append(E(n), EscapeOf(s[n + 1]))
      OBVIOUS
    <2>1. n \in Nat /\ n + 1 \in 0 .. Len(s)
      OBVIOUS
    <2>2. E(n + 1) \in Seq(Seq(C)) /\ Len(E(n + 1)) = n + 1 /\ E(n) \in Seq(Seq(C)) /\ Len(E(n)) = n
      BY <2>1, <1>1
    <2>3. EscapeOf(s[n + 1]) \in Seq(C)
      BY EscapeOfType
    <2>4. \A k \in 1 .. n + 1 : E(n + 1)[k] = Append(E(n), EscapeOf(s[n + 1]))[k]
      <3> SUFFICES ASSUME NEW k \in 1 .. n + 1
                   PROVE  E(n + 1)[k] = Append(E(n), EscapeOf(s[n + 1]))[k]
        OBVIOUS
      <3>1. E(n + 1)[k] = EscapeOf(s[k])
        OBVIOUS
      <3>2. k \in 1 .. n => E(n)[k] = EscapeOf(s[k])
        OBVIOUS
      <3> HIDE DEF E
      <3>3. k \in 1 .. n => Append(E(n), EscapeOf(s[n + 1]))[k] = E(n)[k]
        BY <2>2, <2>3
      <3>4. k = n + 1 => Append(E(n), EscapeOf(s[n + 1]))[k] = EscapeOf(s[k])
        <4> DEFINE x == E(n)
                   e == EscapeOf(s[n + 1])
        <4>1. x \in Seq(Seq(C)) /\ e \in Seq(C) /\ Len(x) = n
          BY <2>2, <2>3
        <4> HIDE DEF x, e
        <4>2. Append(x, e)[n + 1] = e
          BY <4>1
        <4>3. Append(E(n), EscapeOf(s[n + 1]))[n + 1] = EscapeOf(s[n + 1])
          BY <4>2 DEF x, e
        <4> QED
          BY <4>3
      <3>5. k \in 1 .. n \/ k = n + 1
        BY <2>1
      <3> QED
        BY <3>1, <3>2, <3>3, <3>4, <3>5, Zenon
    <2> HIDE DEF E
    <2> QED
      BY <2>1, <2>2, <2>3, <2>4
  <1> HIDE DEF E
  <1>4. Len(s) \in Nat /\ n \in 0 .. Len(s) /\ EscapeOf(s[n + 1]) \in Seq(C)
    BY EscapeOfType
  <1>5. FlattenSeq(E(n)) \in Seq(C)
    BY <1>1, <1>4, FlattenAppend
  <1>6. n = 0 => FlattenSeq(E(n)) = <<>>
    <2>1. n = 0 => E(n) = <<>>
      BY DEF E
    <2>2. FlattenSeq(<<>>) = <<>>
      BY DEF FlattenSeq
    <2> QED
      BY <2>1, <2>2
  <1>7. n < Len(s) => FlattenSeq(E(n + 1)) = FlattenSeq(E(n)) \o EscapeOf(s[n + 1])
    BY <1>1, <1>3, <1>4, FlattenAppend
  <1>8. n < Len(s) => n + 1 \in 0 .. Len(s)
    BY <1>4
  <1> QED
    BY <1>2, <1>5, <1>6, <1>7, <1>8

-----------------------------------------------------------------------------
(* While the loop runs, the bytes written are the escape of the characters *)
(* consumed.                                                               *)
CopiedSoFar ==
  result = "running" /\ destSize # 0 => dest = Escaped(SubSeq(source, 1, i))

PInv == EInv /\ CopiedSoFar /\ LongestPrefix

\* Nothing is the escape of nothing.
LEMMA InitPInv == EscapeInit => PInv
  <1> SUFFICES ASSUME EscapeInit PROVE PInv
    OBVIOUS
  <1>1. EInv /\ i = 0 /\ dest = <<>> /\ result = "running"
    BY InitEInv DEF EscapeInit
  <1>2. source \in Seq(Chars) /\ 0 \in 0 .. Len(source)
    BY <1>1 DEF EInv, EscapeTypeOK
  <1>3. Escaped(SubSeq(source, 1, 0)) = <<>>
    BY <1>2, EscapedPrefix
  <1> QED
    BY <1>1, <1>3 DEF PInv, CopiedSoFar, LongestPrefix

\* Every step of the loop copies the escape of one character or stops before it.
LEMMA NextPInv == PInv /\ [EscapeNext]_escapeVars => PInv'
  <1> SUFFICES ASSUME PInv, [EscapeNext]_escapeVars PROVE CopiedSoFar' /\ LongestPrefix'
    BY NextEInv DEF PInv
  <1>t. /\ source \in Seq(Chars) /\ destSize \in Nat /\ i \in 0 .. Len(source)
        /\ dest \in Seq(Special \cup Plain \cup {Nul}) /\ Len(source) \in Nat
    BY DEF PInv, EInv, EscapeTypeOK
  <1>e. /\ Escaped(SubSeq(source, 1, i)) \in Seq(Special \cup Plain)
        /\ i < Len(source) => Escaped(SubSeq(source, 1, i + 1)) =
                                Escaped(SubSeq(source, 1, i)) \o EscapeOf(Ch)
    BY <1>t, EscapedPrefix DEF Ch
  <1>1. CASE RefuseEmpty
    BY <1>1 DEF RefuseEmpty, CopiedSoFar, LongestPrefix
  <1>m. ASSUME More
        PROVE  /\ result = "running" /\ destSize # 0 /\ i < Len(source)
               /\ dest = Escaped(SubSeq(source, 1, i))
               /\ Escaped(SubSeq(source, 1, i + 1)) = dest \o EscapeOf(Ch)
    BY <1>m, <1>e DEF More, Looping, PInv, CopiedSoFar
  <1>2. CASE CopySpecial
    <2>1. EscapeOf(Ch) = <<Backslash, Ch>> /\ More
      BY <1>2, EscapeOfType DEF CopySpecial
    <2>2. dest' = Escaped(SubSeq(source, 1, i + 1)) /\ i' = i + 1 /\ source' = source
          /\ result' = "running"
      BY <1>2, <1>m, <2>1 DEF CopySpecial
    <2> QED
      BY <2>2 DEF CopiedSoFar, LongestPrefix
  <1>3. CASE CopyPlain
    <2>1. EscapeOf(Ch) = <<Ch>> /\ More /\ Ch \in Plain
      BY <1>3, EscapeOfType DEF CopyPlain
    <2>a. Append(dest, Ch) = dest \o <<Ch>>
      BY <1>t, <2>1
    <2>2. dest' = Escaped(SubSeq(source, 1, i + 1)) /\ i' = i + 1 /\ source' = source
          /\ result' = "running"
      BY <1>3, <1>m, <2>1, <2>a DEF CopyPlain
    <2> QED
      BY <2>2 DEF CopiedSoFar, LongestPrefix
  <1>4. CASE SkipOther
    <2>1. EscapeOf(Ch) = <<>> /\ More
      BY <1>4, EscapeOfType DEF SkipOther
    <2>a. dest = dest \o <<>>
      BY <1>t
    <2>2. dest' = Escaped(SubSeq(source, 1, i + 1)) /\ i' = i + 1 /\ source' = source
          /\ result' = "running"
      BY <1>4, <1>m, <2>1, <2>a DEF SkipOther
    <2> QED
      BY <2>2 DEF CopiedSoFar, LongestPrefix
  <1>5. CASE Truncate
    <2>1. More /\ dest' = Append(dest, Nul) /\ result' = "truncated"
          /\ UNCHANGED <<source, destSize, i>>
      BY <1>5 DEF Truncate
    <2>2. dest \in Seq(Special \cup Plain)
      BY <1>m, <1>e, <2>1
    <2>3. Len(dest \o EscapeOf(Ch)) >= destSize
      <3>1. CASE Ch \in Special /\ Len(dest) + 2 >= destSize
        <4>1. EscapeOf(Ch) = <<Backslash, Ch>>
          BY <3>1, EscapeOfType
        <4>2. Len(dest \o <<Backslash, Ch>>) = Len(dest) + 2
          BY <1>t, <3>1, CharsAssumption
        <4> QED
          BY <3>1, <4>1, <4>2
      <3>2. CASE Ch \in Plain /\ Len(dest) + 1 >= destSize
        <4>1. EscapeOf(Ch) = <<Ch>>
          BY <3>2, EscapeOfType
        <4>2. Len(dest \o <<Ch>>) = Len(dest) + 1
          BY <1>t, <3>2
        <4> QED
          BY <3>2, <4>1, <4>2
      <3> QED
        BY <1>5, <3>1, <3>2 DEF Truncate
    <2>4. Len(Escaped(SubSeq(source, 1, i + 1))) >= destSize
      BY <2>1, <1>m, <2>3
    <2>5. dest' = Append(Escaped(SubSeq(source, 1, i)), Nul) /\ i # Len(source)
      <3>1. i # Len(source)
        BY <2>1, <1>m, <1>t
      <3> QED
        BY <2>1, <1>m, <3>1
    <2> QED
      BY <2>1, <2>4, <2>5 DEF CopiedSoFar, LongestPrefix
  <1>6. CASE Terminate
    <2>1. dest' = Append(Escaped(SubSeq(source, 1, i)), Nul) /\ result' = "whole"
          /\ i = Len(source) /\ UNCHANGED <<source, destSize, i>>
      BY <1>6 DEF Terminate, Looping, PInv, CopiedSoFar
    <2> QED
      BY <2>1 DEF CopiedSoFar, LongestPrefix
  <1>7. CASE UNCHANGED escapeVars
    BY <1>7 DEF escapeVars, PInv, CopiedSoFar, LongestPrefix
  <1> QED
    BY <1>1, <1>2, <1>3, <1>4, <1>5, <1>6, <1>7 DEF EscapeNext

(* What the call leaves in the buffer is the escape of the longest prefix  *)
(* of the source that fits in front of the terminator.                     *)
THEOREM EscapeIsLongestPrefix == EscapeSpec => []LongestPrefix
  BY InitPInv, NextPInv, PTL DEF EscapeSpec, PInv

-----------------------------------------------------------------------------
(* What a reader of the log makes of it.                                   *)

(* The positions in starts are those of the backslashes that escape. Each  *)
(* stands before a quote or a backslash that is not one of them, and no    *)
(* quote or backslash stands without: a JSON parser that reads the bytes   *)
(* from left to right takes exactly starts for escapes, and no quote among *)
(* them for the end of the string.                                         *)
ReadsAsString(s) ==
  \E starts \in SUBSET (1 .. Len(s)) :
    /\ \A k \in starts :
         s[k] = Backslash /\ k + 1 \in (1 .. Len(s)) \ starts /\ s[k + 1] \in Special
    /\ \A k \in 1 .. Len(s) : s[k] \in Special => k \in starts \/ k - 1 \in starts

\* No bytes read as an empty string.
LEMMA ReadsNothing == ReadsAsString(<<>>)
  <1>1. {} \in SUBSET (1 .. Len(<<>>)) /\ ~ \E k \in 1 .. Len(<<>>) : TRUE
    OBVIOUS
  <1>2. /\ \A k \in {} :
             <<>>[k] = Backslash /\ k + 1 \in (1 .. Len(<<>>)) \ {} /\ <<>>[k + 1] \in Special
        /\ \A k \in 1 .. Len(<<>>) : <<>>[k] \in Special => k \in {} \/ k - 1 \in {}
    BY <1>1
  <1> QED
    BY <1>1, <1>2, Zenon DEF ReadsAsString

\* A pair of a backslash and what it escapes may follow,
LEMMA ReadsEscape ==
  ASSUME NEW T, NEW s \in Seq(T), NEW c, Backslash \in T, c \in T,
         c \in Special, ReadsAsString(s)
  PROVE  ReadsAsString(s \o <<Backslash, c>>)
  <1> DEFINE n == Len(s)
             t == s \o <<Backslash, c>>
  <1>1. PICK starts \in SUBSET (1 .. n) :
          /\ \A k \in starts :
               s[k] = Backslash /\ k + 1 \in (1 .. n) \ starts /\ s[k + 1] \in Special
          /\ \A k \in 1 .. n : s[k] \in Special => k \in starts \/ k - 1 \in starts
    BY DEF ReadsAsString
  <1>2. /\ Len(t) = n + 2 /\ n \in Nat
        /\ \A k \in 1 .. n : t[k] = s[k]
        /\ t[n + 1] = Backslash /\ t[n + 2] = c
    OBVIOUS
  <1> HIDE DEF n, t
  <1> DEFINE more == starts \cup {n + 1}
  <1>3. more \in SUBSET (1 .. Len(t))
    BY <1>2
  <1>4. ASSUME NEW k \in more
        PROVE  t[k] = Backslash /\ k + 1 \in (1 .. Len(t)) \ more /\ t[k + 1] \in Special
    <2>1. CASE k = n + 1
      BY <1>2, <2>1
    <2>2. CASE k \in starts
      <3>1. k \in 1 .. n /\ s[k] = Backslash /\ k + 1 \in (1 .. n) \ starts /\ s[k + 1] \in Special
        BY <1>1, <2>2
      <3> QED
        BY <1>2, <3>1
    <2> QED
      BY <2>1, <2>2
  <1>5. ASSUME NEW k \in 1 .. Len(t), t[k] \in Special
        PROVE  k \in more \/ k - 1 \in more
    <2>1. CASE k \in 1 .. n
      BY <1>1, <1>2, <1>5, <2>1
    <2>2. CASE k \notin 1 .. n
      BY <1>2, <2>2
    <2> QED
      BY <2>1, <2>2
  <1>6. ReadsAsString(t)
    <2> HIDE DEF more
    <2> QED
      BY <1>3, <1>4, <1>5 DEF ReadsAsString
  <1> QED
    BY <1>6 DEF t

\* and so may a character that needs no escape.
LEMMA ReadsOther ==
  ASSUME NEW T, NEW s \in Seq(T), NEW c \in T, c \notin Special, ReadsAsString(s)
  PROVE  ReadsAsString(Append(s, c))
  <1> DEFINE n == Len(s)
             t == Append(s, c)
  <1>1. PICK starts \in SUBSET (1 .. n) :
          /\ \A k \in starts :
               s[k] = Backslash /\ k + 1 \in (1 .. n) \ starts /\ s[k + 1] \in Special
          /\ \A k \in 1 .. n : s[k] \in Special => k \in starts \/ k - 1 \in starts
    BY DEF ReadsAsString
  <1>2. /\ Len(t) = n + 1 /\ n \in Nat
        /\ \A k \in 1 .. n : t[k] = s[k]
        /\ t[n + 1] = c
    OBVIOUS
  <1> HIDE DEF n, t
  <1>3. starts \in SUBSET (1 .. Len(t))
    BY <1>2
  <1>4. ASSUME NEW k \in starts
        PROVE  t[k] = Backslash /\ k + 1 \in (1 .. Len(t)) \ starts /\ t[k + 1] \in Special
    <2>1. k \in 1 .. n /\ s[k] = Backslash /\ k + 1 \in (1 .. n) \ starts /\ s[k + 1] \in Special
      BY <1>1, <1>4
    <2> QED
      BY <1>2, <2>1
  <1>5. ASSUME NEW k \in 1 .. Len(t), t[k] \in Special
        PROVE  k \in starts \/ k - 1 \in starts
    <2>1. k \in 1 .. n
      BY <1>2, <1>5
    <2> QED
      BY <1>1, <1>2, <1>5, <2>1
  <1>6. ReadsAsString(t)
    BY <1>3, <1>4, <1>5 DEF ReadsAsString
  <1> QED
    BY <1>6 DEF t

\* The bytes in the buffer.
DestReadsAsString == ReadsAsString(dest)

(* The bytes in the buffer are the inside of a JSON string at every moment *)
(* and on return, wherever the source was cut: nothing in a path or value  *)
(* ends the string early, and no backslash is left over to swallow the     *)
(* quote that the caller puts behind it.                                   *)
THEOREM FieldReadsAsString == EscapeSpec => []DestReadsAsString
  <1>1. EscapeInit => DestReadsAsString
    BY ReadsNothing DEF EscapeInit, DestReadsAsString
  <1>2. EInv /\ DestReadsAsString /\ [EscapeNext]_escapeVars => DestReadsAsString'
    <2> SUFFICES ASSUME EInv, ReadsAsString(dest), [EscapeNext]_escapeVars
                 PROVE  ReadsAsString(dest')
      BY DEF DestReadsAsString
    <2> DEFINE T == Special \cup Plain \cup {Nul}
    <2>1. dest \in Seq(T) /\ Backslash \in T /\ Nul \in T /\ Nul \notin Special
      BY CharsAssumption DEF EInv, EscapeTypeOK, Chars
    <2>2. CASE CopySpecial
      <3>1. Ch \in Special /\ Ch \in T /\ dest' = dest \o <<Backslash, Ch>>
        BY <2>2 DEF CopySpecial
      <3> HIDE DEF T
      <3> QED
        BY <2>1, <3>1, ReadsEscape
    <2>3. CASE CopyPlain
      <3>1. Ch \notin Special /\ Ch \in T /\ dest' = Append(dest, Ch)
        BY <2>3, CharsAssumption DEF CopyPlain
      <3> HIDE DEF T
      <3> QED
        BY <2>1, <3>1, ReadsOther
    <2>4. CASE Truncate \/ Terminate
      <3>1. dest' = Append(dest, Nul)
        BY <2>4 DEF Truncate, Terminate
      <3> HIDE DEF T
      <3> QED
        BY <2>1, <3>1, ReadsOther
    <2>5. CASE RefuseEmpty \/ SkipOther \/ UNCHANGED escapeVars
      <3>1. dest' = dest
        BY <2>5 DEF RefuseEmpty, SkipOther, escapeVars
      <3> QED
        BY <3>1
    <2> QED
      BY <2>2, <2>3, <2>4, <2>5 DEF EscapeNext
  <1> QED
    BY <1>1, <1>2, EInvAlways, PTL DEF EscapeSpec

\* One step for each character not yet consumed, and the one that returns.
StepsLeft == IF result = "running" THEN 1 + Len(source) - i ELSE 0

(* The loop has a variant: each of its steps reduces a natural number, and *)
(* so does the step that leaves it.  A call takes no more than one step    *)
(* per character and one more.                                             *)
THEOREM EscapeTerminates ==
  EscapeSpec => [](StepsLeft \in Nat) /\ [][StepsLeft' < StepsLeft]_escapeVars
  <1>1. EInv => StepsLeft \in Nat
    BY DEF EInv, EscapeTypeOK, StepsLeft
  <1>2. EInv /\ [EscapeNext]_escapeVars => [StepsLeft' < StepsLeft]_escapeVars
    <2> SUFFICES ASSUME EInv, EscapeNext PROVE StepsLeft' < StepsLeft
      OBVIOUS
    <2>1. source \in Seq(Chars) /\ Len(source) \in Nat /\ i \in 0 .. Len(source)
      BY DEF EInv, EscapeTypeOK
    <2>2. CASE CopySpecial \/ CopyPlain \/ SkipOther
      <3>1. i' = i + 1 /\ source' = source /\ result = "running" /\ result' = "running"
        BY <2>2 DEF CopySpecial, CopyPlain, SkipOther, More, Looping
      <3> QED
        BY <2>1, <3>1 DEF StepsLeft
    <2>3. CASE RefuseEmpty \/ Truncate \/ Terminate
      <3>1. result = "running" /\ result' # "running"
        BY <2>3 DEF RefuseEmpty, Truncate, Terminate, More, Looping
      <3>2. StepsLeft' = 0 /\ StepsLeft = 1 + Len(source) - i
        BY <3>1 DEF StepsLeft
      <3> QED
        BY <2>1, <3>2
    <2> QED
      BY <2>2, <2>3 DEF EscapeNext
  <1> QED
    BY <1>1, <1>2, EInvAlways, PTL DEF EscapeSpec
-----------------------------------------------------------------------------
(* What the log record relies on.                                          *)

\* The escape grows by at most two characters for each character of its source.
LEMMA EscapedLengths ==
  ASSUME NEW s \in Seq(Chars)
  PROVE  /\ \A n \in 0 .. Len(s) : Len(Escaped(SubSeq(s, 1, n))) \in 0 .. 2 * n
         /\ \A n \in 0 .. Len(s) :
              n < Len(s) =>
                Len(Escaped(SubSeq(s, 1, n + 1))) \in
                  Len(Escaped(SubSeq(s, 1, n))) .. Len(Escaped(SubSeq(s, 1, n))) + 2
         /\ \A n \in 0 .. Len(s) : Len(Escaped(SubSeq(s, 1, n))) <= Len(Escaped(s))
  <1> DEFINE L(n) == Len(Escaped(SubSeq(s, 1, n)))
             l == Len(s)
  <1>1. l \in Nat
    OBVIOUS
  <1>2. \A n \in 0 .. l : L(n) \in Nat /\ (n = 0 => L(n) = 0)
    BY EscapedPrefix
  <1>3. ASSUME NEW n \in 0 .. l, n < l PROVE L(n + 1) \in L(n) .. L(n) + 2
    <2> DEFINE e == EscapeOf(s[n + 1])
               p == Escaped(SubSeq(s, 1, n))
    <2>1. Escaped(SubSeq(s, 1, n + 1)) = p \o e /\ p \in Seq(Special \cup Plain)
      BY <1>3, EscapedPrefix
    <2>2. s[n + 1] \in Chars
      BY <1>1, <1>3
    <2>3. e \in Seq(Special \cup Plain) /\ Len(e) \in 0 .. 2
      BY <2>2, EscapeOfType DEF Chars
    <2>4. L(n + 1) = Len(p \o e) /\ L(n) = Len(p)
      BY <2>1
    <2> HIDE DEF e, p, L
    <2>5. Len(p \o e) = Len(p) + Len(e) /\ Len(p) \in Nat
      BY <2>1, <2>3
    <2>6. \A a \in Nat, b \in 0 .. 2 : a + b \in a .. a + 2
      OBVIOUS
    <2>7. Len(e) \in 0 .. 2 /\ Len(p) \in Nat
      BY <2>3, <2>5
    <2>8. Len(p) + Len(e) \in Len(p) .. Len(p) + 2
      BY <2>6, <2>7
    <2> QED
      BY <2>4, <2>5, <2>8, Zenon
  <1> HIDE DEF L
  <1>4. \A n \in 0 .. l : L(n) \in 0 .. 2 * n
    <2> DEFINE S == {n \in Nat : n <= l => L(n) \in 0 .. 2 * n}
    <2>1. 0 \in S
      BY <1>1, <1>2
    <2>2. ASSUME NEW n \in Nat, n \in S PROVE n + 1 \in S
      <3>1. CASE n + 1 <= l
        <4>1. n \in 0 .. l /\ n < l
          BY <1>1, <3>1
        <4>2. L(n) \in 0 .. 2 * n /\ L(n + 1) \in L(n) .. L(n) + 2
          BY <1>3, <2>2, <4>1
        <4> QED
          BY <4>2
      <3>2. CASE ~ n + 1 <= l
        BY <3>2
      <3> QED
        BY <3>1, <3>2
    <2> HIDE DEF S
    <2>3. Nat \subseteq S
      BY <2>1, <2>2, NatSetInduction
    <2> QED
      BY <1>1, <2>3 DEF S
  <1>5. \A n \in 0 .. l : L(n) <= L(l)
    <2> DEFINE S == {k \in Nat : k <= l => L(l - k) <= L(l)}
    <2>1. 0 \in S
      BY <1>1, <1>2
    <2>2. ASSUME NEW k \in Nat, k \in S PROVE k + 1 \in S
      <3>1. CASE k + 1 <= l
        <4>1. l - k \in 0 .. l /\ l - (k + 1) \in 0 .. l /\ l - (k + 1) < l /\ l \in 0 .. l
          BY <1>1, <3>1
        <4>2. L(l - k) <= L(l)
          BY <1>1, <2>2, <3>1
        <4>3. L((l - (k + 1)) + 1) \in L(l - (k + 1)) .. L(l - (k + 1)) + 2
          BY <1>3, <4>1
        <4>4. (l - (k + 1)) + 1 = l - k
          BY <1>1
        <4>5. L(l - k) \in Nat /\ L(l - (k + 1)) \in Nat /\ L(l) \in Nat
          BY <1>2, <4>1
        <4>6. L(l - (k + 1)) <= L(l)
          BY <4>2, <4>3, <4>4, <4>5
        <4> QED
          BY <4>6
      <3>2. CASE ~ k + 1 <= l
        BY <3>2
      <3> QED
        BY <3>1, <3>2
    <2> HIDE DEF S
    <2>3. Nat \subseteq S
      BY <2>1, <2>2, NatSetInduction
    <2>4. ASSUME NEW n \in 0 .. l PROVE L(n) <= L(l)
      <3>1. l - n \in Nat /\ l - n <= l /\ l - (l - n) = n
        BY <1>1
      <3>2. L(l - (l - n)) <= L(l)
        BY <2>3, <3>1 DEF S
      <3> QED
        BY <3>1, <3>2
    <2> QED
      BY <2>4
  <1>6. SubSeq(s, 1, l) = s
    OBVIOUS
  <1>7. L(l) = Len(Escaped(s))
    BY <1>6 DEF L
  <1>8. \A n \in 0 .. l : L(n) <= Len(Escaped(s))
    BY <1>5, <1>7
  <1>9. \A n \in 0 .. l : n < l => L(n + 1) \in L(n) .. L(n) + 2
    BY <1>3
  <1> QED
    BY <1>4, <1>8, <1>9 DEF L

\* What a call makes of its source, in lengths.
LengthsOfEscape ==
  LET whole == Len(Escaped(source))
      length == Len(dest) - 1
  IN  result # "running" /\ destSize # 0 =>
        /\ whole \in 0 .. 2 * Len(source)
        /\ result = "whole" => length = whole /\ whole < destSize
        /\ result = "truncated" =>
             length \in {destSize - 2, destSize - 1} /\ whole >= destSize

(* KdaMonJsonEscapeW keeps the contract under which LogRecord.tla uses it  *)
(* there (Escaped and LengthsAssumption): of n characters it makes at most *)
(* 2 * n, all of them if they are fewer than the bytes of the buffer, and  *)
(* otherwise fills the buffer but for one byte at most.                    *)
THEOREM EscapeKeepsContract == EscapeSpec => []LengthsOfEscape
  <1>1. ASSUME PInv PROVE LengthsOfEscape
    <2> SUFFICES ASSUME result # "running", destSize # 0
                 PROVE  /\ Len(Escaped(source)) \in 0 .. 2 * Len(source)
                        /\ result = "whole" => /\ Len(dest) - 1 = Len(Escaped(source))
                                               /\ Len(Escaped(source)) < destSize
                        /\ result = "truncated" =>
                             /\ Len(dest) - 1 \in {destSize - 2, destSize - 1}
                             /\ Len(Escaped(source)) >= destSize
      BY DEF LengthsOfEscape
    <2> DEFINE p == Escaped(SubSeq(source, 1, i))
               q == Escaped(SubSeq(source, 1, i + 1))
    <2>1. /\ source \in Seq(Chars) /\ Len(source) \in Nat /\ i \in 0 .. Len(source)
          /\ destSize \in Nat /\ Len(dest) <= destSize
      BY <1>1 DEF PInv, EInv, EscapeTypeOK, StaysInBuffer
    <2>2. /\ dest = Append(p, Nul)
          /\ result = "whole" <=> i = Len(source)
          /\ result = "truncated" => Len(q) >= destSize
      BY <1>1 DEF PInv, LongestPrefix
    <2>3. p \in Seq(Special \cup Plain) /\ Len(p) \in Nat
      BY <2>1, EscapedPrefix
    <2>4. Len(dest) = Len(p) + 1
      BY <2>2, <2>3
    <2>5. SubSeq(source, 1, Len(source)) = source
      BY <2>1
    <2>6. Len(Escaped(source)) \in 0 .. 2 * Len(source)
      <3>1. Len(source) \in 0 .. Len(source)
        BY <2>1
      <3> QED
        BY <2>1, <2>5, <3>1, EscapedLengths
    <2>7. ASSUME result = "whole"
          PROVE  Len(dest) - 1 = Len(Escaped(source)) /\ Len(Escaped(source)) < destSize
      <3>1. p = Escaped(source)
        BY <2>2, <2>5, <2>7
      <3> HIDE DEF p
      <3> QED
        BY <2>1, <2>3, <2>4, <3>1
    <2>8. ASSUME result = "truncated"
          PROVE  Len(dest) - 1 \in {destSize - 2, destSize - 1} /\ Len(Escaped(source)) >= destSize
      <3>1. i # Len(source)
        BY <2>2, <2>8
      <3>2. i < Len(source) /\ i + 1 \in 0 .. Len(source)
        BY <2>1, <3>1
      <3>3. Len(q) \in Len(p) .. Len(p) + 2 /\ Len(q) <= Len(Escaped(source))
        BY <2>1, <3>2, EscapedLengths
      <3>4. Len(q) >= destSize
        BY <2>2, <2>8
      <3> HIDE DEF p, q
      <3> QED
        BY <2>1, <2>3, <2>4, <2>6, <3>3, <3>4
    <2> QED
      BY <2>6, <2>7, <2>8
  <1> QED
    BY <1>1, InitPInv, NextPInv, PTL DEF EscapeSpec
=============================================================================
