----------------------------- MODULE LabsProofs -----------------------------
(***************************************************************************)
(* Proofs about the small servers: StringServer (LK_3 and YB_3), FirstLabs *)
(* (LK_1 and YB_1) and QuadrantServer (CN1), for any number of clients and *)
(* any texts, words, numbers and points.                                   *)
(*                                                                         *)
(* The three specifications are stated over the same variables: server,    *)
(* net and client.  Every theorem is about the behaviours of one of them.  *)
(***************************************************************************)
EXTENDS StringServer, FiniteSetTheorems, SequenceTheorems, WellFoundedInduction, TLAPS

CONSTANTS
  Conns, MaxAsked, Numbers, Words, Exit,  \* of FirstLabs
  MaxConns, MaxPoints, Coords, Backlog    \* of QuadrantServer

First == INSTANCE FirstLabs

Quadrants == INSTANCE QuadrantServer

Chars == {Blank, Char, Nul}

\* The buffers that hold a string.
Strings == {buf \in Buffers : At(Nul, buf) # {}}

-----------------------------------------------------------------------------
(* Sequences.                                                              *)

LEMMA HeadTail ==
  ASSUME NEW S, NEW s \in Seq(S), s # <<>>
  PROVE  /\ Len(s) \in Nat \ {0} /\ Head(s) = s[1] /\ Head(s) \in S
         /\ Tail(s) \in Seq(S) /\ Len(Tail(s)) = Len(s) - 1
         /\ \A i \in 1 .. Len(s) - 1 : Tail(s)[i] = s[i + 1]
  OBVIOUS

LEMMA Appended ==
  ASSUME NEW S, NEW s \in Seq(S), NEW x \in S
  PROVE  /\ Append(s, x) \in Seq(S) /\ Len(Append(s, x)) = Len(s) + 1 /\ Len(s) \in Nat
         /\ Append(s, x) # <<>> /\ Append(s, x)[Len(s) + 1] = x
         /\ \A i \in 1 .. Len(s) : Append(s, x)[i] = s[i]
  OBVIOUS

LEMMA EmptyLength == Len(<<>>) = 0
  OBVIOUS

\* Two frames one after the other are both.
LEMMA Joined ==
  ASSUME NEW S, NEW a \in S, NEW b \in S PROVE <<a>> \o <<b>> = <<a, b>>
<1> DEFINE s == <<a>>
           t == <<b>>
           st == s \o t
<1>1. s \in Seq(S) /\ t \in Seq(S) /\ Len(s) = 1 /\ Len(t) = 1 /\ s[1] = a /\ t[1] = b
  OBVIOUS
<1> HIDE DEF s, t
<1>2. st \in Seq(S) /\ Len(st) = 2 /\ \A i \in 1 .. 2 : st[i] = IF i <= 1 THEN s[i] ELSE t[i - 1]
  BY <1>1, ConcatProperties
<1>3. st[1] = a /\ st[2] = b
  BY <1>1, <1>2
<1> HIDE DEF st
<1>4. st = <<a, b>>
  BY <1>2, <1>3
<1> QED
  BY <1>4 DEF st, s, t

-----------------------------------------------------------------------------
(* StringServer: strings in buffers.                                       *)

\* The first place at which a buffer holds a character.
LEMMA FirstAt ==
  ASSUME NEW buf, NEW ch, At(ch, buf) # {}
  PROVE  /\ Min(At(ch, buf)) \in At(ch, buf)
         /\ \A i \in At(ch, buf) : Min(At(ch, buf)) <= i
<1> DEFINE S == At(ch, buf)
           R == OpToRel(<, Nat)
<1>1. S \subseteq Nat
  BY DEF At
<1>2. \E x \in S : \A y \in S : ~(<<y, x>> \in R)
  <2>1. IsWellFoundedOn(R, Nat)
    BY NatLessThanWellFounded, Zenon
  <2> HIDE DEF R, S
  <2> QED
    BY <1>1, <2>1, WFMin DEF S
<1>3. \E x \in S : \A y \in S : x <= y
  <2>1. PICK x \in S : \A y \in S : ~(<<y, x>> \in R)
    BY <1>2
  <2>2. \A y \in S : ~(y < x)
    BY <1>1, <2>1, Zenon DEF OpToRel
  <2> QED
    BY <1>1, <2>2
<1> QED
  BY <1>3 DEF Min

LEMMA LengthBounds ==
  ASSUME StringAssumption, NEW buf \in Strings
  PROVE  /\ Length(buf) \in 0 .. BufSize - 1
         /\ buf[Length(buf) + 1] = Nul
         /\ \A i \in 1 .. Length(buf) : buf[i] # Nul
         /\ \A i \in 1 .. BufSize : buf[i] \in Chars
<1>1. /\ Min(At(Nul, buf)) \in At(Nul, buf)
      /\ \A i \in At(Nul, buf) : Min(At(Nul, buf)) <= i
  BY FirstAt DEF Strings
<1>2. Min(At(Nul, buf)) \in 1 .. BufSize /\ buf[Min(At(Nul, buf))] = Nul
  BY <1>1 DEF At
<1>3. \A i \in 1 .. BufSize : buf[i] = Nul => Min(At(Nul, buf)) <= i
  BY <1>1 DEF At
<1> QED
  BY <1>2, <1>3 DEF Length, StringAssumption, Strings, Buffers, Chars

\* checkLength of any buffer.
LEMMA AnyLength ==
  ASSUME StringAssumption, NEW buf \in Buffers
  PROVE  Length(buf) \in -1 .. BufSize - 1
<1>1. CASE buf \in Strings
  BY <1>1, LengthBounds DEF StringAssumption
<1>2. CASE buf \notin Strings
  BY <1>2 DEF Strings, Length, StringAssumption
<1> QED
  BY <1>1, <1>2

\* A string ends at its first terminator.
LEMMA LengthIs ==
  ASSUME StringAssumption, NEW buf \in Buffers, NEW n \in 0 .. BufSize - 1,
         buf[n + 1] = Nul, \A i \in 1 .. n : buf[i] # Nul
  PROVE  buf \in Strings /\ Length(buf) = n
<1>1. n + 1 \in At(Nul, buf)
  BY DEF At, StringAssumption
<1>2. buf \in Strings
  BY <1>1 DEF Strings
<1>3. /\ Length(buf) \in 0 .. BufSize - 1 /\ buf[Length(buf) + 1] = Nul
      /\ \A i \in 1 .. Length(buf) : buf[i] # Nul
  BY <1>2, LengthBounds
<1>4. ~(n < Length(buf))
  BY <1>3
<1>5. ~(Length(buf) < n)
  BY <1>3
<1> QED
  BY <1>2, <1>3, <1>4, <1>5 DEF StringAssumption

LEMMA StringElements ==
  ASSUME StringAssumption, NEW buf \in Strings
  PROVE  /\ String(buf) \in Seq(Chars) /\ Len(String(buf)) = Length(buf)
         /\ \A i \in 1 .. Length(buf) : String(buf)[i] = buf[i]
<1>1. /\ Length(buf) \in 0 .. BufSize - 1
      /\ \A i \in 1 .. BufSize : buf[i] \in Chars
  BY LengthBounds
<1>2. \A i \in 1 .. Length(buf) : buf[i] \in Chars
  BY <1>1 DEF StringAssumption
<1>3. String(buf) = [i \in 1 .. Length(buf) |-> buf[i]]
  BY <1>1 DEF String
<1> QED
  BY <1>1, <1>2, <1>3

\* Two strings with the same characters are the same.
LEMMA SameString ==
  ASSUME NEW S, NEW s \in Seq(S), NEW t \in Seq(S), Len(s) = Len(t),
         \A i \in 1 .. Len(s) : s[i] = t[i]
  PROVE  s = t
  OBVIOUS

\* What is written into a buffer can be read from it again.
LEMMA WriteString ==
  ASSUME StringAssumption, NEW buf \in Buffers, NEW text \in Seq({Blank, Char}), Len(text) < BufSize
  PROVE  /\ Write(text, buf) \in Strings
         /\ Length(Write(text, buf)) = Len(text) /\ String(Write(text, buf)) = text
<1> DEFINE w == Write(text, buf)
<1>0. Len(text) \in 0 .. BufSize - 1 /\ \A i \in 1 .. Len(text) : text[i] \in {Blank, Char}
  BY DEF StringAssumption
<1>1. /\ \A i \in 1 .. BufSize : w[i] = IF i <= Len(text) THEN text[i]
                                       ELSE IF i = Len(text) + 1 THEN Nul ELSE buf[i]
      /\ w \in Buffers
  BY <1>0 DEF Write, Buffers, StringAssumption
<1>2. w[Len(text) + 1] = Nul /\ \A i \in 1 .. Len(text) : w[i] = text[i]
  BY <1>0, <1>1 DEF StringAssumption
<1>3. \A i \in 1 .. Len(text) : w[i] # Nul
  BY <1>0, <1>2 DEF StringAssumption
<1> HIDE DEF w
<1>4. w \in Strings /\ Length(w) = Len(text)
  BY <1>0, <1>1, <1>2, <1>3, LengthIs
<1>5. /\ String(w) \in Seq(Chars) /\ Len(String(w)) = Len(text)
      /\ \A i \in 1 .. Len(text) : String(w)[i] = text[i]
  BY <1>2, <1>4, StringElements
<1>6. text \in Seq(Chars)
  BY DEF Chars
<1>7. String(w) = text
  BY <1>5, <1>6, SameString
<1> QED
  BY <1>4, <1>7 DEF w

LEMMA EmptyString == StringAssumption => Empty \in Strings
<1> SUFFICES ASSUME StringAssumption PROVE Empty \in Strings
  OBVIOUS
<1>1. Empty \in Buffers /\ Empty[1] = Nul
  BY DEF Empty, Buffers, StringAssumption
<1>2. 1 \in At(Nul, Empty)
  BY <1>1 DEF At, StringAssumption
<1> QED
  BY <1>1, <1>2 DEF Strings

-----------------------------------------------------------------------------
(* StringServer: the second replies.                                       *)

\* LK_3: what precedes the first blank, or the whole text when there is a blank
\* behind its terminator only.
LEMMA PrefixReply ==
  ASSUME StringAssumption, Program = "LK", NEW buf \in Strings, HasSecond(buf)
  PROVE  Prefix(buf) \in Buffers /\ IsSecond(Prefix(buf), buf)
<1> DEFINE m == Min(At(Blank, buf))
           head == SubSeq(buf, 1, m - 1)
           reply == Prefix(buf)
           text == String(buf)
<1>1. /\ m \in 1 .. BufSize /\ buf[m] = Blank
      /\ \A i \in 1 .. BufSize : buf[i] = Blank => m <= i
  <2>1. At(Blank, buf) # {}
    BY DEF HasSecond
  <2>2. /\ Min(At(Blank, buf)) \in At(Blank, buf)
        /\ \A i \in At(Blank, buf) : Min(At(Blank, buf)) <= i
    BY <2>1, FirstAt
  <2> QED
    BY <2>2 DEF At
<1> HIDE DEF m
<1>2. /\ Length(buf) \in 0 .. BufSize - 1 /\ buf[Length(buf) + 1] = Nul
      /\ \A i \in 1 .. Length(buf) : buf[i] # Nul
      /\ \A i \in 1 .. BufSize : buf[i] \in Chars
  BY LengthBounds
<1>3. m # Length(buf) + 1
  BY <1>1, <1>2 DEF StringAssumption
<1>4. head = [i \in 1 .. m - 1 |-> buf[i]] /\ Len(head) = m - 1
  BY <1>1
<1> HIDE DEF head
<1>5. /\ reply \in [1 .. BufSize -> Chars]
      /\ \A i \in 1 .. BufSize : reply[i] = IF i = m THEN Nul ELSE buf[i]
  <2>1. reply = [i \in 1 .. BufSize |-> IF i <= m - 1 THEN head[i] ELSE IF i = m THEN Nul ELSE buf[i]]
    BY <1>1, <1>4 DEF Prefix, Write, m, head
  <2>2. \A i \in 1 .. BufSize : i <= m - 1 => head[i] = buf[i]
    BY <1>1, <1>4
  <2>3. \A i \in 1 .. BufSize : reply[i] = IF i = m THEN Nul ELSE buf[i]
    BY <1>1, <2>1, <2>2
  <2> HIDE DEF reply
  <2> QED
    BY <1>2, <2>1, <2>3 DEF Chars
<1>6. reply \in Buffers
  BY <1>5 DEF Buffers, Chars
<1> HIDE DEF reply
<1>7. /\ text \in Seq(Chars) /\ Len(text) = Length(buf)
      /\ \A i \in 1 .. Length(buf) : text[i] = buf[i]
  BY StringElements
<1> HIDE DEF text
<1> DEFINE n == IF m <= Length(buf) THEN m - 1 ELSE Length(buf)
<1>8. /\ n \in 0 .. BufSize - 1 /\ n <= Length(buf) /\ n < m
      /\ n # Length(buf) => n + 1 = m
      /\ n = Length(buf) => n + 1 < m
  BY <1>1, <1>2, <1>3 DEF StringAssumption
<1> HIDE DEF n
<1>9. reply \in Strings /\ Length(reply) = n
  <2>1. n + 1 \in 1 .. BufSize /\ reply[n + 1] = Nul
    BY <1>2, <1>5, <1>8 DEF StringAssumption
  <2>2. \A i \in 1 .. n : reply[i] # Nul
    BY <1>2, <1>5, <1>8 DEF StringAssumption
  <2> QED
    BY <1>6, <1>8, <2>1, <2>2, LengthIs
<1> DEFINE words == String(reply)
<1>10. /\ words \in Seq(Chars) /\ Len(words) = n
       /\ \A i \in 1 .. n : words[i] = text[i] /\ words[i] # Blank
  <2>1. /\ words \in Seq(Chars) /\ Len(words) = n
        /\ \A i \in 1 .. n : words[i] = reply[i]
    BY <1>9, StringElements
  <2> QED
    BY <1>1, <1>2, <1>5, <1>7, <1>8, <2>1 DEF StringAssumption
<1> HIDE DEF words
<1>11. Blank \notin ToSet(words)
  BY <1>8, <1>10 DEF ToSet
<1>12. IsPrefix(words, text)
  <2>1. SubSeq(words, 1, n) = [i \in 1 .. n |-> words[i]]
    BY <1>8, <1>10
  <2>2. SubSeq(text, 1, n) = [i \in 1 .. n |-> text[i]]
    BY <1>2, <1>7, <1>8
  <2>3. [i \in 1 .. n |-> words[i]] = [i \in 1 .. n |-> text[i]]
    BY <1>10
  <2> QED
    BY <1>2, <1>7, <1>8, <1>10, <2>1, <2>2, <2>3 DEF IsPrefix
<1>13. words = text \/ text[Len(words) + 1] = Blank
  <2>1. CASE n = Length(buf)
    BY <1>7, <1>10, <2>1, SameString
  <2>2. CASE n # Length(buf)
    <3>1. n + 1 = m /\ n + 1 \in 1 .. Length(buf)
      BY <1>2, <1>8, <2>2
    <3> QED
      BY <1>1, <1>7, <1>10, <3>1
  <2> QED
    BY <2>1, <2>2
<1>14. IsSecond(reply, buf)
  BY <1>11, <1>12, <1>13 DEF IsSecond, words, text
<1> QED
  BY <1>6, <1>14 DEF reply

\* YB_3: the string without its middle character, and still a string.
LEMMA MiddleReply ==
  ASSUME StringAssumption, Program = "YB", NEW buf \in Strings, Announced(Length(buf))
  PROVE  WithoutMiddle(buf) \in Strings /\ IsSecond(WithoutMiddle(buf), buf)
<1> DEFINE n == Length(buf)
           reply == WithoutMiddle(buf)
           text == String(buf)
           k == n \div 2 + 1
<1>1. /\ n \in 0 .. BufSize - 1 /\ buf[n + 1] = Nul
      /\ \A i \in 1 .. n : buf[i] # Nul
      /\ \A i \in 1 .. BufSize : buf[i] \in Chars
  BY LengthBounds
<1>2. n % 2 = 1
  BY DEF Announced
<1>3. /\ text \in Seq(Chars) /\ Len(text) = n
      /\ \A i \in 1 .. n : text[i] = buf[i]
  BY StringElements
<1>4. reply = [i \in 1 .. BufSize |-> IF i \in k .. n THEN buf[i + 1] ELSE buf[i]]
  BY DEF WithoutMiddle
<1> HIDE DEF n, reply, text
<1>5. n >= 1 /\ k \in 1 .. n
  BY <1>1, <1>2 DEF StringAssumption
<1> HIDE DEF k
<1>6. \A i \in 1 .. BufSize : reply[i] = IF k <= i /\ i <= n THEN buf[i + 1] ELSE buf[i]
  BY <1>1, <1>4, <1>5 DEF StringAssumption
<1>7. reply \in Buffers
  <2>1. \A i \in 1 .. BufSize : reply[i] \in Chars
    BY <1>1, <1>5, <1>6 DEF StringAssumption
  <2> QED
    BY <1>4, <2>1 DEF Buffers, Chars
<1>8. reply \in Strings /\ Length(reply) = n - 1
  <2>1. n - 1 \in 0 .. BufSize - 1 /\ reply[(n - 1) + 1] = Nul
    BY <1>1, <1>5, <1>6 DEF StringAssumption
  <2>2. \A i \in 1 .. n - 1 : reply[i] # Nul
    BY <1>1, <1>5, <1>6 DEF StringAssumption
  <2> QED
    BY <1>7, <2>1, <2>2, LengthIs
<1> DEFINE words == String(reply)
           parts == SubSeq(text, 1, k - 1) \o SubSeq(text, k + 1, n)
<1>9. /\ words \in Seq(Chars) /\ Len(words) = n - 1
      /\ \A i \in 1 .. n - 1 : words[i] = reply[i]
  BY <1>8, StringElements
<1>10. /\ parts \in Seq(Chars) /\ Len(parts) = n - 1
       /\ \A i \in 1 .. n - 1 : parts[i] = IF i < k THEN text[i] ELSE text[i + 1]
  <2> DEFINE front == SubSeq(text, 1, k - 1)
             back == SubSeq(text, k + 1, n)
  <2>1. /\ front \in Seq(Chars) /\ Len(front) = k - 1
        /\ \A i \in 1 .. k - 1 : front[i] = text[i]
    BY <1>1, <1>3, <1>5
  <2>2. /\ back \in Seq(Chars) /\ Len(back) = n - k
        /\ \A i \in 1 .. n - k : back[i] = text[k + i]
    BY <1>1, <1>3, <1>5
  <2> HIDE DEF front, back
  <2>3. /\ front \o back \in Seq(Chars) /\ Len(front \o back) = n - 1
        /\ \A i \in 1 .. n - 1 : (front \o back)[i] = IF i <= k - 1 THEN front[i] ELSE back[i - (k - 1)]
    BY <1>1, <1>5, <2>1, <2>2
  <2>4. \A i \in 1 .. n - 1 : (front \o back)[i] = IF i < k THEN text[i] ELSE text[i + 1]
    <3> SUFFICES ASSUME NEW i \in 1 .. n - 1
                 PROVE  (front \o back)[i] = IF i < k THEN text[i] ELSE text[i + 1]
      OBVIOUS
    <3>1. CASE i < k
      BY <1>1, <1>5, <2>1, <2>3, <3>1
    <3>2. CASE ~(i < k)
      <4>1. i - (k - 1) \in 1 .. n - k /\ k + (i - (k - 1)) = i + 1
        BY <1>1, <1>5, <3>2
      <4>2. back[i - (k - 1)] = text[i + 1]
        BY <2>2, <4>1
      <4> QED
        BY <1>1, <1>5, <2>3, <3>2, <4>2
    <3> QED
      BY <3>1, <3>2
  <2> QED
    BY <2>3, <2>4 DEF front, back
<1> HIDE DEF words, parts
<1>11. \A i \in 1 .. n - 1 : words[i] = parts[i]
  <2> SUFFICES ASSUME NEW i \in 1 .. n - 1 PROVE words[i] = parts[i]
    OBVIOUS
  <2>1. words[i] = reply[i] /\ i \in 1 .. BufSize /\ i \in 1 .. n /\ i + 1 \in 1 .. n
    BY <1>1, <1>5, <1>9 DEF StringAssumption
  <2>2. CASE i < k
    BY <1>3, <1>5, <1>6, <1>10, <2>1, <2>2
  <2>3. CASE ~(i < k)
    <3>1. k <= i /\ i <= n
      BY <1>5, <2>1, <2>3
    <3> QED
      BY <1>3, <1>6, <1>10, <2>1, <2>3, <3>1
  <2> QED
    BY <2>2, <2>3
<1>12. words = parts
  BY <1>9, <1>10, <1>11, SameString
<1>13. words = RemoveAt(text, Len(text) \div 2 + 1)
  BY <1>3, <1>12 DEF RemoveAt, parts, k
<1> QED
  BY <1>8, <1>13 DEF IsSecond, words, text, reply

\* The loop of YB_3 stays in the buffer, whatever it holds.
LEMMA MiddleBuffer ==
  ASSUME StringAssumption, NEW buf \in Buffers
  PROVE  WithoutMiddle(buf) \in Buffers
<1>1. Length(buf) \in -1 .. BufSize - 1
  BY AnyLength
<1> DEFINE n == Length(buf)
           k == n \div 2
<1>2. k \in Int /\ (n >= 0 => k >= 0) /\ (n = -1 => k = -1)
  BY <1>1
<1>3. WithoutMiddle(buf) = [i \in 1 .. BufSize |-> IF i \in k + 1 .. n THEN buf[i + 1] ELSE buf[i]]
  BY DEF WithoutMiddle
<1> HIDE DEF k, n
<1>4. \A i \in 1 .. BufSize : i \in k + 1 .. n => i + 1 \in 1 .. BufSize
  BY <1>1, <1>2 DEF n, StringAssumption
<1> QED
  BY <1>3, <1>4 DEF Buffers

-----------------------------------------------------------------------------
(* StringServer: what a client and its thread know of each other.          *)

Threads == {"none", "backlog", "recv", "second", "ended", "closed"}
Places == {"off", "input", "length", "second", "gone"}
Clientele == [at : Places, str : Buffers, failed : BOOLEAN, entered : 0 .. MaxTexts]

Servers == [at : {"accept", "sleep", "ended"}, thread : [Clients -> Threads], str : [Clients -> Buffers]]
Nets == [c2s : [Clients -> Seq(Strings)], s2c : [Clients -> Seq(Nat \cup Buffers)]]

Typed ==
  /\ server \in Servers
  /\ net \in Nets
  /\ client \in [Clients -> Clientele]

\* The client waits for the length of its string: the string is on its way, or the
\* length is, followed by nothing but the second reply to this string, when the
\* server has one.
AwaitsLength(cl, thread, str, asked, replies) ==
  /\ thread \in {"backlog", "recv", "second", "closed"}
  /\ replies = <<>> =>
       thread = "closed" \/ (asked = <<cl.str>> /\ thread \in {"backlog", "recv"})
  /\ replies # <<>> =>
       /\ asked = <<>> /\ thread # "backlog" /\ replies[1] = Length(cl.str)
       /\ Len(replies) = 1 \/ Len(replies) = 2
       /\ Len(replies) = 1 /\ thread = "recv" /\ Announced(Length(cl.str)) => ~HasSecond(cl.str)
       /\ Len(replies) = 2 =>
            /\ thread # "second" /\ Announced(Length(cl.str))
            /\ replies[2] \in Buffers /\ IsSecond(replies[2], cl.str)
  /\ thread = "second" => str = cl.str

\* It waits for the second reply, which is to this string, or for ever.
AwaitsSecond(cl, thread, str, asked, replies) ==
  /\ thread \in {"recv", "second", "closed"}
  /\ thread # "closed" => asked = <<>>
  /\ replies = <<>> /\ thread = "recv" => ~HasSecond(cl.str)
  /\ replies # <<>> =>
       /\ thread # "second" /\ Len(replies) = 1
       /\ replies[1] \in Buffers /\ IsSecond(replies[1], cl.str)
  /\ thread = "second" => str = cl.str

Agree(cl, thread, str, asked, replies) ==
  /\ Len(asked) <= 1
  /\ thread = "second" => Announced(Length(str)) /\ (cl.at # "gone" => str \in Strings)
  /\ cl.at = "off" => asked = <<>> /\ replies = <<>> /\ thread \in {"none", "closed"}
  /\ cl.at = "gone" => replies = <<>>
  /\ cl.at = "input" =>
       /\ replies = <<>>
       /\ thread = "closed" \/ (asked = <<>> /\ thread \in {"backlog", "recv"})
  /\ cl.at \in {"length", "second"} => cl.str \in Strings /\ String(cl.str) # Quit
  /\ cl.at = "length" => AwaitsLength(cl, thread, str, asked, replies)
  /\ cl.at = "second" => AwaitsSecond(cl, thread, str, asked, replies)

OfClient(c) == Agree(client[c], server.thread[c], server.str[c], net.c2s[c], net.s2c[c])

Inv == Typed /\ \A c \in Clients : OfClient(c)

\* The steps of one connection leave the others as they are.
Elsewhere(c) ==
  \A d \in Clients \ {c} :
    /\ client'[d] = client[d]
    /\ server'.thread[d] = server.thread[d] /\ server'.str[d] = server.str[d]
    /\ net'.c2s[d] = net.c2s[d] /\ net'.s2c[d] = net.s2c[d]

LEMMA InvKept ==
  ASSUME Inv, NEW c \in Clients, Elsewhere(c), Typed',
         Agree(client'[c], server'.thread[c], server'.str[c], net'.c2s[c], net'.s2c[c])
  PROVE  Inv'
<1>1. \A d \in Clients \ {c} : OfClient(d)'
  BY DEF Inv, OfClient, Elsewhere
<1> QED
  BY <1>1 DEF Inv, OfClient

LEMMA Fields ==
  ASSUME Typed, NEW c \in Clients
  PROVE  /\ server.thread \in [Clients -> Threads] /\ server.str \in [Clients -> Buffers]
         /\ net.c2s \in [Clients -> Seq(Strings)] /\ net.s2c \in [Clients -> Seq(Nat \cup Buffers)]
         /\ server.at \in {"accept", "sleep", "ended"}
         /\ server.thread[c] \in Threads /\ server.str[c] \in Buffers
         /\ net.c2s[c] \in Seq(Strings) /\ net.s2c[c] \in Seq(Nat \cup Buffers)
         /\ client[c].at \in Places /\ client[c].str \in Buffers /\ client[c].failed \in BOOLEAN
         /\ client[c].entered \in 0 .. MaxTexts
  BY DEF Typed, Servers, Nets, Clientele

LEMMA InvInit == StringAssumption /\ Init => Inv
<1> SUFFICES ASSUME StringAssumption, Init PROVE Inv
  OBVIOUS
<1>1. Typed
  <2>1. server \in Servers
    BY EmptyString DEF Init, Threads, Servers, Strings
  <2>2. net \in Nets
    <3>1. <<>> \in Seq(Strings) /\ <<>> \in Seq(Nat \cup Buffers)
      OBVIOUS
    <3> QED
      BY <3>1 DEF Init, Nets
  <2>3. client \in [Clients -> Clientele]
    <3>1. client \in [Clients -> [at : {"off"}, str : Leftovers, failed : {FALSE}, entered : {0}]]
      BY DEF Init
    <3>2. Leftovers \subseteq Buffers /\ 0 \in 0 .. MaxTexts
      BY DEF StringAssumption
    <3>3. [at : {"off"}, str : Leftovers, failed : {FALSE}, entered : {0}] \subseteq Clientele
      BY <3>2 DEF Clientele, Places
    <3> QED
      BY <3>1, <3>3
  <2> QED
    BY <2>1, <2>2, <2>3 DEF Typed, Servers, Nets
<1>2. ASSUME NEW c \in Clients PROVE OfClient(c)
  <2>1. client[c].at = "off" /\ server.thread[c] = "none" /\ net.c2s[c] = <<>> /\ net.s2c[c] = <<>>
    BY DEF Init
  <2> QED
    BY <2>1 DEF OfClient, Agree
<1> QED
  BY <1>1, <1>2 DEF Inv

LEMMA AcceptStep ==
  ASSUME StringAssumption, Inv, NEW c \in Clients, Accept(c)
  PROVE  Inv'
<1>1. Typed /\ OfClient(c)
  BY DEF Inv
<1>2. /\ server.thread[c] = "backlog" /\ server'.thread[c] \in {"recv", "closed"}
      /\ net' = net /\ client' = client
      /\ \A d \in Clients \ {c} : server'.thread[d] = server.thread[d] /\ server'.str[d] = server.str[d]
      /\ server' \in Servers
  <2>1. server.thread[c] = "backlog" /\ net' = net /\ client' = client
    BY DEF Accept
  <2>2. ASSUME NEW buf \in Garbage, server' = [server EXCEPT !.thread[c] = "recv", !.str[c] = buf]
        PROVE  /\ server'.thread[c] \in {"recv", "closed"}
               /\ \A d \in Clients \ {c} : server'.thread[d] = server.thread[d] /\ server'.str[d] = server.str[d]
               /\ server' \in Servers
    <3>1. buf \in Buffers
      BY DEF StringAssumption
    <3> QED
      BY <1>1, <2>2, <3>1 DEF Typed, Servers, Threads
  <2>3. ASSUME server' = [server EXCEPT !.thread[c] = "closed", !.at = "sleep"]
        PROVE  /\ server'.thread[c] \in {"recv", "closed"}
               /\ \A d \in Clients \ {c} : server'.thread[d] = server.thread[d] /\ server'.str[d] = server.str[d]
               /\ server' \in Servers
    BY <1>1, <2>3 DEF Typed, Servers, Threads
  <2> QED
    BY <2>1, <2>2, <2>3 DEF Accept
<1>3. Elsewhere(c) /\ Typed'
  BY <1>1, <1>2 DEF Elsewhere, Typed, Servers, Nets
<1>4. Agree(client[c], server'.thread[c], server'.str[c], net.c2s[c], net.s2c[c])
  BY <1>1, <1>2 DEF OfClient, Agree, AwaitsLength, AwaitsSecond
<1> QED
  BY <1>2, <1>3, <1>4, InvKept

LEMMA AcceptFailsStep ==
  ASSUME Inv, AcceptFails
  PROVE  Inv'
<1>1. /\ net' = net /\ client' = client /\ server'.str = server.str
      /\ \A c \in Clients : server'.thread[c] = "closed"
      /\ server' \in Servers
  BY DEF AcceptFails, Inv, Typed, Servers, Nets, Threads
<1>2. ASSUME NEW c \in Clients PROVE OfClient(c)'
  BY <1>1 DEF Inv, OfClient, Agree, AwaitsLength, AwaitsSecond
<1> QED
  BY <1>1, <1>2 DEF Inv, Typed, Servers, Nets

LEMMA WakeUpStep ==
  ASSUME Inv, WakeUp
  PROVE  Inv'
<1>1. /\ net' = net /\ client' = client /\ server'.str = server.str /\ server'.thread = server.thread
      /\ server' \in Servers
  BY DEF WakeUp, Inv, Typed, Servers, Nets
<1> QED
  BY <1>1 DEF Inv, Typed, Servers, Nets, OfClient

LEMMA RecvFailsStep ==
  ASSUME StringAssumption, Inv, NEW c \in Clients, RecvFails(c)
  PROVE  Inv'
<1>1. Typed /\ OfClient(c)
  BY DEF Inv
<1>2. /\ server'.thread[c] = After(server.str[c]) /\ client[c].at = "gone"
      /\ net' = net /\ client' = client /\ server'.str = server.str
      /\ After(server.str[c]) \in Threads
      /\ After(server.str[c]) = "second" => Announced(Length(server.str[c]))
      /\ \A d \in Clients \ {c} : server'.thread[d] = server.thread[d] /\ server'.str[d] = server.str[d]
      /\ server' \in Servers
  BY <1>1 DEF RecvFails, After, Typed, Servers, Nets, Threads
<1>3. Elsewhere(c) /\ Typed'
  BY <1>1, <1>2 DEF Elsewhere, Typed, Servers, Nets
<1>4. Agree(client[c], server'.thread[c], server'.str[c], net.c2s[c], net.s2c[c])
  BY <1>1, <1>2 DEF OfClient, Agree
<1> QED
  BY <1>2, <1>3, <1>4, InvKept

LEMMA ConnectStep ==
  ASSUME Inv, NEW c \in Clients, Connect(c)
  PROVE  Inv'
<1>1. Typed /\ OfClient(c)
  BY DEF Inv
<1>2. /\ client[c].at = "off" /\ client'[c].at = "input" /\ server'.thread[c] = "backlog"
      /\ server'.str = server.str /\ net' = net
      /\ \A d \in Clients \ {c} : server'.thread[d] = server.thread[d] /\ client'[d] = client[d]
      /\ server' \in Servers
  BY <1>1 DEF Connect, Typed, Servers, Threads
<1>2a. client' \in [Clients -> Clientele]
  BY <1>1 DEF Connect, Typed, Clientele, Places
<1>3. Elsewhere(c) /\ Typed'
  BY <1>1, <1>2, <1>2a DEF Elsewhere, Typed, Servers, Nets
<1>4. Agree(client'[c], server'.thread[c], server'.str[c], net'.c2s[c], net'.s2c[c])
  BY <1>1, <1>2 DEF OfClient, Agree
<1> QED
  BY <1>3, <1>4, InvKept

\* What Sent adds to what is on its way to a client that is there.
LEMMA SentFrame ==
  ASSUME Typed, NEW c \in Clients, NEW frame \in Nat \cup Buffers
  PROVE  /\ Sent(c, frame) \in Nets
         /\ Sent(c, frame).c2s = net.c2s
         /\ \A d \in Clients \ {c} : Sent(c, frame).s2c[d] = net.s2c[d]
         /\ Sent(c, frame).s2c[c] =
              IF client[c].at = "gone" THEN net.s2c[c] ELSE Append(net.s2c[c], frame)
<1> DEFINE longer == Append(net.s2c[c], frame)
<1>1. longer \in Seq(Nat \cup Buffers) /\ net \in Nets
  BY Fields, Appended DEF Typed
<1>2. CASE client[c].at = "gone"
  BY <1>1, <1>2 DEF Sent
<1>3. CASE client[c].at # "gone"
  <2>1. Sent(c, frame) = [net EXCEPT !.s2c[c] = longer]
    BY <1>3 DEF Sent
  <2> HIDE DEF longer
  <2>2. /\ Sent(c, frame) \in Nets /\ Sent(c, frame).c2s = net.c2s /\ Sent(c, frame).s2c[c] = longer
        /\ \A d \in Clients \ {c} : Sent(c, frame).s2c[d] = net.s2c[d]
    BY <1>1, <2>1 DEF Nets
  <2> QED
    BY <1>3, <2>2 DEF longer
<1> QED
  BY <1>2, <1>3

LEMMA RecvStep ==
  ASSUME StringAssumption, Inv, NEW c \in Clients, Recv(c)
  PROVE  Inv'
<1> DEFINE buf == Head(net.c2s[c])
           next == After(buf)
           sent == IF next = "ended" THEN net ELSE Sent(c, Length(buf))
<1>1. Typed /\ OfClient(c)
  BY DEF Inv
<1>2. /\ server.thread[c] = "recv" /\ net.c2s[c] # <<>> /\ client' = client
      /\ server' = [server EXCEPT !.thread[c] = next, !.str[c] = buf]
      /\ net' = [sent EXCEPT !.c2s[c] = Tail(@)]
  BY DEF Recv
<1>3. /\ net.c2s[c] \in Seq(Strings) /\ buf \in Strings /\ buf = net.c2s[c][1]
      /\ Len(net.c2s[c]) \in Nat \ {0} /\ Len(Tail(net.c2s[c])) = Len(net.c2s[c]) - 1
      /\ Tail(net.c2s[c]) \in Seq(Strings) /\ net.s2c[c] \in Seq(Nat \cup Buffers)
  BY <1>1, <1>2, Fields, HeadTail
<1>4. Length(buf) \in Nat
  BY <1>3, LengthBounds DEF StringAssumption
<1>5. /\ next \in Threads /\ next # "closed"
      /\ next = "second" => Announced(Length(buf))
      /\ next = "recv" => ~Announced(Length(buf))
  BY DEF Threads, After
<1>6. /\ server' \in Servers
      /\ server'.thread[c] = next /\ server'.str[c] = buf
      /\ \A d \in Clients \ {c} : server'.thread[d] = server.thread[d] /\ server'.str[d] = server.str[d]
  <2> HIDE DEF next, buf
  <2> QED
    BY <1>1, <1>2, <1>3, <1>5 DEF Typed, Servers, Nets, Strings
<1>7. /\ sent \in Nets
      /\ sent.c2s = net.c2s
      /\ \A d \in Clients \ {c} : sent.s2c[d] = net.s2c[d]
      /\ sent.s2c[c] = IF next = "ended" \/ client[c].at = "gone" THEN net.s2c[c]
                       ELSE Append(net.s2c[c], Length(buf))
  <2> HIDE DEF next, buf
  <2>1. CASE next = "ended"
    BY <1>1, <2>1 DEF Typed
  <2>2. CASE next # "ended"
    <3>1. Length(buf) \in Nat \cup Buffers
      BY <1>4
    <3>2. sent = Sent(c, Length(buf))
      BY <2>2
    <3> QED
      BY <1>1, <2>2, <3>1, <3>2, SentFrame
  <2> QED
    BY <2>1, <2>2
<1> HIDE DEF sent
<1>8. /\ net' \in Nets
      /\ net'.c2s[c] = Tail(net.c2s[c]) /\ net'.s2c = sent.s2c
      /\ \A d \in Clients \ {c} : net'.c2s[d] = net.c2s[d]
  <2> DEFINE rest == Tail(net.c2s[c])
  <2>1. net' = [sent EXCEPT !.c2s[c] = rest] /\ rest \in Seq(Strings)
    BY <1>2, <1>3, <1>7
  <2> HIDE DEF rest
  <2>2. /\ net' \in Nets /\ net'.c2s[c] = rest /\ net'.s2c = sent.s2c
        /\ \A d \in Clients \ {c} : net'.c2s[d] = sent.c2s[d]
    BY <1>7, <2>1 DEF Nets
  <2> QED
    BY <1>7, <2>2 DEF rest
<1>9. Elsewhere(c) /\ Typed'
  BY <1>1, <1>2, <1>6, <1>7, <1>8 DEF Elsewhere, Typed, Servers, Nets
<1>10. Len(net.c2s[c]) = 1 /\ net'.c2s[c] = <<>>
  <2>1. Len(net.c2s[c]) <= 1
    BY <1>1 DEF OfClient, Agree
  <2> DEFINE n == Len(net.c2s[c])
             m == Len(Tail(net.c2s[c]))
  <2>1a. n <= 1 /\ n \in Nat \ {0} /\ m = n - 1
    BY <1>3, <2>1
  <2> HIDE DEF n, m
  <2>1b. n = 1 /\ m = 0
    BY <2>1a
  <2>2. Len(net.c2s[c]) = 1 /\ Len(Tail(net.c2s[c])) = 0
    BY <2>1b DEF n, m
  <2>3. Tail(net.c2s[c]) = <<>>
    BY <1>3, <2>2, EmptySeq
  <2> QED
    BY <1>8, <2>2, <2>3
<1>11. client[c].at = "length" \/ client[c].at = "gone"
  <2>1. client[c].at \in Places
    BY <1>1, Fields
  <2> QED
    BY <1>1, <1>2, <2>1 DEF OfClient, Agree, AwaitsSecond, Places
<1>12. CASE client[c].at = "gone"
  <2>1. net'.s2c[c] = net.s2c[c]
    BY <1>7, <1>8, <1>12
  <2> HIDE DEF buf, next
  <2>2. Len(net'.c2s[c]) <= 1
    BY <1>10
  <2>3. Agree(client'[c], server'.thread[c], server'.str[c], net'.c2s[c], net'.s2c[c])
    BY <1>1, <1>2, <1>5, <1>6, <1>12, <2>1, <2>2 DEF OfClient, Agree
  <2> QED
    BY <1>9, <2>3, InvKept
<1>13. CASE client[c].at = "length"
  <2>1. net.s2c[c] = <<>> /\ net.c2s[c] = <<client[c].str>>
    BY <1>1, <1>2, <1>13 DEF OfClient, Agree, AwaitsLength
  <2>2. buf = client[c].str
    BY <2>1
  <2>3. next # "ended" /\ next \in {"recv", "second"}
    BY <1>1, <1>13, <2>2 DEF OfClient, Agree, After
  <2> HIDE DEF buf, next
  <2>4. net'.s2c[c] = <<Length(buf)>>
    BY <1>7, <1>8, <1>13, <2>1, <2>3
  <2>5. /\ net'.s2c[c] # <<>> /\ net'.s2c[c][1] = Length(buf) /\ Len(net'.s2c[c]) = 1
        /\ Len(net'.c2s[c]) <= 1
    BY <1>10, <2>4
  <2>6. AwaitsLength(client[c], next, buf, net'.c2s[c], net'.s2c[c])
    BY <1>5, <1>10, <2>2, <2>3, <2>5 DEF AwaitsLength
  <2>7. Agree(client'[c], server'.thread[c], server'.str[c], net'.c2s[c], net'.s2c[c])
    BY <1>1, <1>2, <1>3, <1>5, <1>6, <1>13, <2>5, <2>6 DEF OfClient, Agree
  <2> QED
    BY <1>9, <2>7, InvKept
<1> QED
  BY <1>11, <1>12, <1>13

LEMMA SendSecondStep ==
  ASSUME StringAssumption, Inv, NEW c \in Clients, SendSecond(c)
  PROVE  Inv'
<1> DEFINE buf == server.str[c]
           reply == IF Program = "YB" THEN WithoutMiddle(buf) ELSE Prefix(buf)
           str == IF Program = "YB" THEN reply ELSE buf
<1>1. Typed /\ OfClient(c)
  BY DEF Inv
<1>2. /\ server.thread[c] = "second" /\ client' = client
      /\ server' = [server EXCEPT !.thread[c] = "recv", !.str[c] = str]
      /\ net' = IF HasSecond(buf) THEN Sent(c, reply) ELSE net
  BY <1>1 DEF SendSecond, Typed, Servers, Nets
<1>3. /\ buf \in Buffers /\ Announced(Length(buf)) /\ net.s2c[c] \in Seq(Nat \cup Buffers)
      /\ client[c].at # "gone" => buf \in Strings
  BY <1>1, <1>2, Fields DEF OfClient, Agree
<1>4. client[c].at # "gone" /\ HasSecond(buf) => reply \in Buffers /\ IsSecond(reply, buf)
  BY <1>3, PrefixReply, MiddleReply DEF StringAssumption, Strings
<1>5. str \in Buffers
  BY <1>3, MiddleBuffer DEF StringAssumption
<1> HIDE DEF buf, reply, str
<1>6. /\ server' \in Servers
      /\ server'.thread[c] = "recv"
      /\ \A d \in Clients \ {c} : server'.thread[d] = server.thread[d] /\ server'.str[d] = server.str[d]
  BY <1>1, <1>2, <1>5 DEF Typed, Servers, Nets, Threads
<1>7. /\ net' \in Nets
      /\ net'.c2s = net.c2s
      /\ \A d \in Clients \ {c} : net'.s2c[d] = net.s2c[d]
      /\ net'.s2c[c] = IF ~HasSecond(buf) \/ client[c].at = "gone" THEN net.s2c[c]
                       ELSE Append(net.s2c[c], reply)
  <2>1. CASE client[c].at = "gone"
    BY <1>1, <1>2, <2>1 DEF Sent, Typed
  <2>2. CASE client[c].at # "gone"
    BY <1>1, <1>2, <1>4, <2>2, SentFrame DEF Typed, Servers, Nets
  <2> QED
    BY <2>1, <2>2
<1>8. Elsewhere(c) /\ Typed'
  BY <1>1, <1>2, <1>6, <1>7 DEF Elsewhere, Typed, Servers, Nets
<1>9. client[c].at \in {"length", "second", "gone"}
  <2>1. client[c].at \in Places
    BY <1>1, Fields
  <2> QED
    BY <1>1, <1>2, <2>1 DEF OfClient, Agree, Places
<1>10. Len(net.c2s[c]) <= 1 /\ (client[c].at # "gone" => client[c].str = buf /\ net.c2s[c] = <<>>)
  BY <1>1, <1>2, <1>9 DEF OfClient, Agree, AwaitsLength, AwaitsSecond, buf
<1>11. CASE client[c].at = "gone"
  <2>1. net'.s2c[c] = net.s2c[c]
    BY <1>7, <1>11
  <2>2. Agree(client'[c], server'.thread[c], server'.str[c], net'.c2s[c], net'.s2c[c])
    BY <1>1, <1>2, <1>6, <1>7, <1>11, <2>1 DEF OfClient, Agree
  <2> QED
    BY <1>8, <2>2, InvKept
<1>12. CASE client[c].at = "length"
  <2>1. /\ net.s2c[c] # <<>> /\ Len(net.s2c[c]) = 1 /\ net.s2c[c][1] = Length(client[c].str)
    BY <1>1, <1>2, <1>12 DEF OfClient, Agree, AwaitsLength
  <2>2. AwaitsLength(client[c], "recv", server'.str[c], net'.c2s[c], net'.s2c[c])
    <3>1. CASE HasSecond(buf)
      <4>1. net'.s2c[c] = Append(net.s2c[c], reply) /\ reply \in Nat \cup Buffers
        BY <1>4, <1>7, <1>12, <3>1
      <4>2. /\ Len(net'.s2c[c]) = 2 /\ net'.s2c[c] # <<>> /\ net'.s2c[c][2] = reply
            /\ net'.s2c[c][1] = net.s2c[c][1]
        BY <1>3, <2>1, <4>1, Appended
      <4> QED
        BY <1>3, <1>4, <1>7, <1>10, <1>12, <2>1, <3>1, <4>2 DEF AwaitsLength
    <3>2. CASE ~HasSecond(buf)
      BY <1>7, <1>10, <1>12, <2>1, <3>2 DEF AwaitsLength
    <3> QED
      BY <3>1, <3>2
  <2>3. Agree(client'[c], server'.thread[c], server'.str[c], net'.c2s[c], net'.s2c[c])
    BY <1>1, <1>2, <1>6, <1>7, <1>12, <2>2 DEF OfClient, Agree
  <2> QED
    BY <1>8, <2>3, InvKept
<1>13. CASE client[c].at = "second"
  <2>1. net.s2c[c] = <<>>
    BY <1>1, <1>2, <1>13 DEF OfClient, Agree, AwaitsSecond
  <2>2. AwaitsSecond(client[c], "recv", server'.str[c], net'.c2s[c], net'.s2c[c])
    <3>1. CASE HasSecond(buf)
      <4>1. net'.s2c[c] = <<reply>>
        BY <1>7, <1>13, <2>1, <3>1
      <4>2. Len(net'.s2c[c]) = 1 /\ net'.s2c[c][1] = reply
        BY <4>1
      <4> QED
        BY <1>4, <1>7, <1>10, <1>13, <3>1, <4>2 DEF AwaitsSecond
    <3>2. CASE ~HasSecond(buf)
      BY <1>7, <1>10, <1>13, <2>1, <3>2 DEF AwaitsSecond
    <3> QED
      BY <3>1, <3>2
  <2>3. Agree(client'[c], server'.thread[c], server'.str[c], net'.c2s[c], net'.s2c[c])
    BY <1>1, <1>2, <1>6, <1>7, <1>13, <2>2 DEF OfClient, Agree
  <2> QED
    BY <1>8, <2>3, InvKept
<1> QED
  BY <1>9, <1>11, <1>12, <1>13

LEMMA EnterStep ==
  ASSUME StringAssumption, Inv, NEW c \in Clients,
         NEW text \in Texts \cup {Quit, <<>>}, NEW overlong \in BOOLEAN,
         text = <<>> \/ ~overlong, Enter(c, text, overlong)
  PROVE  Inv'
<1> DEFINE line == IF overlong THEN [i \in 1 .. BufSize - 1 |-> Char] ELSE text
           buf == Write(line, client[c].str)
           at == IF String(buf) = Quit THEN "gone" ELSE "length"
           failed == client[c].failed \/ overlong
           entered == client[c].entered + 1
           cl == [at |-> at, str |-> buf, failed |-> failed, entered |-> entered]
<1>1. Typed /\ OfClient(c)
  BY DEF Inv
<1>2. /\ client[c].at = "input" /\ client[c].entered < MaxTexts /\ server' = server
      /\ client' = [client EXCEPT ![c] = cl]
      /\ net' = IF server.thread[c] = "closed" THEN net ELSE [net EXCEPT !.c2s[c] = Append(@, buf)]
  BY <1>1 DEF Enter, Typed
<1>3. buf \in Strings
  <2>1. line \in Seq({Blank, Char}) /\ Len(line) < BufSize
    <3>1. CASE overlong
      <4> DEFINE full == [i \in 1 .. BufSize - 1 |-> Char]
      <4>1. BufSize - 1 \in Nat
        BY DEF StringAssumption
      <4>2. full \in Seq({Blank, Char}) /\ Len(full) = BufSize - 1
        BY <4>1
      <4> QED
        BY <3>1, <4>1, <4>2 DEF StringAssumption
    <3>2. CASE ~overlong /\ text = <<>>
      BY <3>2 DEF StringAssumption
    <3>3. CASE ~overlong /\ text # <<>>
      BY <3>3 DEF StringAssumption
    <3> QED
      BY <3>1, <3>2, <3>3
  <2> HIDE DEF line
  <2>2. client[c].str \in Buffers
    BY <1>1, Fields
  <2> QED
    BY <2>1, <2>2, WriteString
<1> HIDE DEF buf
<1>4. cl \in Clientele
  <2>1. client[c].entered \in 0 .. MaxTexts /\ client[c].failed \in BOOLEAN
    BY <1>1, Fields
  <2>2. entered \in 0 .. MaxTexts
    BY <1>2, <2>1 DEF StringAssumption
  <2>3. failed \in BOOLEAN
    OBVIOUS
  <2>4. at \in Places
    BY DEF Places
  <2> HIDE DEF entered, failed, at
  <2> QED
    BY <1>3, <2>2, <2>3, <2>4 DEF Clientele, Strings
<1>5. cl.at = at /\ cl.str = buf
  OBVIOUS
<1> HIDE DEF cl
<1>6. /\ client' \in [Clients -> Clientele] /\ client'[c] = cl
      /\ \A d \in Clients \ {c} : client'[d] = client[d]
  BY <1>1, <1>2, <1>4 DEF Typed
<1>7. net.s2c[c] = <<>> /\ (server.thread[c] = "closed" \/ (net.c2s[c] = <<>> /\ server.thread[c] \in {"backlog", "recv"}))
  BY <1>1, <1>2 DEF OfClient, Agree
<1>8. /\ net' \in Nets /\ net'.s2c = net.s2c
      /\ net'.c2s[c] = IF server.thread[c] = "closed" THEN net.c2s[c] ELSE <<buf>>
      /\ \A d \in Clients \ {c} : net'.c2s[d] = net.c2s[d]
  <2>1. CASE server.thread[c] = "closed"
    BY <1>1, <1>2, <2>1 DEF Typed
  <2>2. CASE server.thread[c] # "closed"
    <3> DEFINE asked == Append(net.c2s[c], buf)
    <3>1. net.c2s[c] = <<>>
      BY <1>7, <2>2
    <3>2. asked = <<buf>>
      BY <3>1
    <3>3. asked = <<buf>> /\ asked \in Seq(Strings)
      BY <1>3, <3>2
    <3>4. net' = [net EXCEPT !.c2s[c] = asked] /\ net \in Nets
      BY <1>1, <1>2, <2>2 DEF Typed
    <3> HIDE DEF asked
    <3>5. /\ net' \in Nets /\ net'.s2c = net.s2c /\ net'.c2s[c] = asked
          /\ \A d \in Clients \ {c} : net'.c2s[d] = net.c2s[d]
      BY <3>3, <3>4 DEF Nets
    <3> QED
      BY <2>2, <3>3, <3>5
  <2> QED
    BY <2>1, <2>2
<1>9. Elsewhere(c) /\ Typed'
  BY <1>1, <1>2, <1>6, <1>8 DEF Elsewhere, Typed
<1>10. Agree(cl, server.thread[c], server.str[c], net'.c2s[c], net.s2c[c])
  <2>1. Len(net'.c2s[c]) <= 1
    <3>1. CASE server.thread[c] = "closed"
      BY <1>1, <1>8, <3>1 DEF OfClient, Agree
    <3>2. CASE server.thread[c] # "closed"
      BY <1>8, <3>2
    <3> QED
      BY <3>1, <3>2
  <2>2. AwaitsLength(cl, server.thread[c], server.str[c], net'.c2s[c], net.s2c[c])
    BY <1>5, <1>7, <1>8 DEF AwaitsLength
  <2>3. server.thread[c] # "second"
    BY <1>7
  <2>4. CASE at = "gone"
    BY <1>5, <1>7, <2>1, <2>3, <2>4 DEF Agree
  <2>5. CASE at = "length" /\ String(buf) # Quit
    BY <1>3, <1>5, <2>1, <2>2, <2>3, <2>5 DEF Agree
  <2> QED
    BY <2>4, <2>5
<1> QED
  BY <1>2, <1>6, <1>8, <1>9, <1>10, InvKept

\* What is left of one or two replies when the first is taken.
LEMMA Taken ==
  ASSUME Typed, NEW c \in Clients, net.s2c[c] # <<>>
  PROVE  /\ Tail(net.s2c[c]) \in Seq(Nat \cup Buffers)
         /\ Head(net.s2c[c]) = net.s2c[c][1]
         /\ Len(net.s2c[c]) = 1 => Tail(net.s2c[c]) = <<>>
         /\ Len(net.s2c[c]) = 2 => Len(Tail(net.s2c[c])) = 1 /\ Tail(net.s2c[c])[1] = net.s2c[c][2]
<1> DEFINE rest == Tail(net.s2c[c])
           n == Len(net.s2c[c])
<1>1. net.s2c[c] \in Seq(Nat \cup Buffers)
  BY Fields
<1>2. rest \in Seq(Nat \cup Buffers) /\ Head(net.s2c[c]) = net.s2c[c][1]
  BY <1>1, HeadTail
<1>3. n \in Nat \ {0} /\ Len(rest) = n - 1 /\ \A i \in 1 .. n - 1 : rest[i] = net.s2c[c][i + 1]
  BY <1>1, HeadTail
<1> HIDE DEF rest, n
<1>4. ASSUME n = 1 PROVE rest = <<>>
  <2>1. Len(rest) = 0
    BY <1>3, <1>4
  <2> QED
    BY <1>2, <2>1, EmptySeq
<1>5. ASSUME n = 2 PROVE Len(rest) = 1 /\ rest[1] = net.s2c[c][2]
  BY <1>3, <1>5
<1> QED
  BY <1>2, <1>4, <1>5 DEF rest, n

LEMMA GotLengthStep ==
  ASSUME StringAssumption, Inv, NEW c \in Clients, GotLength(c)
  PROVE  Inv'
<1> DEFINE rest == Tail(net.s2c[c])
           at == IF Announced(Head(net.s2c[c])) THEN "second" ELSE "input"
           str == client[c].str
<1>1. Typed /\ OfClient(c)
  BY DEF Inv
<1>2. /\ client[c].at = "length" /\ net.s2c[c] # <<>> /\ server' = server
      /\ client' = [client EXCEPT ![c].at = at]
      /\ net' = [net EXCEPT !.s2c[c] = Tail(@)]
  BY DEF GotLength
<1>3. /\ Head(net.s2c[c]) = net.s2c[c][1]
      /\ Len(net.s2c[c]) = 1 => rest = <<>>
      /\ Len(net.s2c[c]) = 2 => Len(rest) = 1 /\ rest[1] = net.s2c[c][2]
  BY <1>1, <1>2, Taken
<1>3a. net' = [net EXCEPT !.s2c[c] = rest] /\ net \in Nets /\ rest \in Seq(Nat \cup Buffers)
  BY <1>1, <1>2, Taken DEF Typed
<1>4. at \in Places /\ at \in {"second", "input"}
  BY DEF Places
<1>5. at = "second" <=> Announced(Length(str))
  BY <1>1, <1>2, <1>3 DEF OfClient, Agree, AwaitsLength
<1> HIDE DEF at, rest
<1>3b. /\ net' \in Nets /\ net'.c2s = net.c2s /\ net'.s2c[c] = rest
      /\ \A d \in Clients \ {c} : net'.s2c[d] = net.s2c[d]
  BY <1>3a DEF Nets
<1>6. /\ client' \in [Clients -> Clientele]
      /\ client'[c].at = at /\ client'[c].str = str
      /\ \A d \in Clients \ {c} : client'[d] = client[d]
  BY <1>1, <1>2, <1>4 DEF Typed, Clientele
<1>7. Elsewhere(c) /\ Typed'
  BY <1>1, <1>2, <1>3b, <1>6 DEF Elsewhere, Typed
<1>8. /\ server.thread[c] \in {"recv", "second", "closed"} /\ net.c2s[c] = <<>>
      /\ server.thread[c] = "second" => server.str[c] = str /\ Announced(Length(str))
      /\ str \in Strings /\ String(str) # Quit /\ Len(net.c2s[c]) <= 1
      /\ Len(net.s2c[c]) = 1 \/ Len(net.s2c[c]) = 2
      /\ Len(net.s2c[c]) = 1 /\ server.thread[c] = "recv" /\ Announced(Length(str)) => ~HasSecond(str)
      /\ Len(net.s2c[c]) = 2 =>
           /\ server.thread[c] # "second" /\ Announced(Length(str))
           /\ net.s2c[c][2] \in Buffers /\ IsSecond(net.s2c[c][2], str)
  BY <1>1, <1>2 DEF OfClient, Agree, AwaitsLength
<1>9. CASE Announced(Length(str))
  <2>1. ASSUME rest # <<>>
        PROVE  /\ server.thread[c] # "second" /\ Len(rest) = 1
               /\ rest[1] \in Buffers /\ IsSecond(rest[1], str)
    BY <1>3, <1>8, <2>1
  <2>1a. ASSUME rest = <<>>, server.thread[c] = "recv" PROVE ~HasSecond(str)
    <3>1. Len(rest) # 1
      BY <2>1a
    <3> QED
      BY <1>3, <1>8, <1>9, <2>1a, <3>1
  <2>2. AwaitsSecond(client'[c], server.thread[c], server.str[c], net.c2s[c], rest)
    BY <1>6, <1>8, <2>1, <2>1a DEF AwaitsSecond
  <2>3. Agree(client'[c], server.thread[c], server.str[c], net.c2s[c], rest)
    BY <1>5, <1>6, <1>8, <1>9, <2>2 DEF Agree
  <2> QED
    BY <1>2, <1>3b, <1>7, <2>3, InvKept
<1>10. CASE ~Announced(Length(str))
  <2>1. rest = <<>> /\ at = "input"
    BY <1>3, <1>4, <1>5, <1>8, <1>10
  <2>2. Agree(client'[c], server.thread[c], server.str[c], net.c2s[c], rest)
    BY <1>6, <1>8, <1>10, <2>1 DEF Agree
  <2> QED
    BY <1>2, <1>3b, <1>7, <2>2, InvKept
<1> QED
  BY <1>9, <1>10

LEMMA GotSecondStep ==
  ASSUME StringAssumption, Inv, NEW c \in Clients, GotSecond(c)
  PROVE  Inv'
<1> DEFINE rest == Tail(net.s2c[c])
           str == IF Program = "YB" THEN Head(net.s2c[c]) ELSE client[c].str
<1>1. Typed /\ OfClient(c)
  BY DEF Inv
<1>2. /\ client[c].at = "second" /\ net.s2c[c] # <<>> /\ server' = server
      /\ client' = [client EXCEPT ![c].at = "input", ![c].str = str]
      /\ net' = [net EXCEPT !.s2c[c] = Tail(@)]
  BY <1>1 DEF GotSecond, Typed, Clientele
<1>3. /\ Head(net.s2c[c]) = net.s2c[c][1]
      /\ Len(net.s2c[c]) = 1 => rest = <<>>
  BY <1>1, <1>2, Taken
<1>3a. net' = [net EXCEPT !.s2c[c] = rest] /\ net \in Nets /\ rest \in Seq(Nat \cup Buffers)
  BY <1>1, <1>2, Taken DEF Typed
<1>4. /\ server.thread[c] \in {"recv", "closed"} /\ Len(net.s2c[c]) = 1 /\ net.s2c[c][1] \in Buffers
      /\ server.thread[c] = "closed" \/ net.c2s[c] = <<>>
      /\ Len(net.c2s[c]) <= 1
  BY <1>1, <1>2 DEF OfClient, Agree, AwaitsSecond
<1>5. rest = <<>> /\ str \in Buffers
  BY <1>1, <1>3, <1>4, Fields
<1> HIDE DEF rest, str
<1>3b. /\ net' \in Nets /\ net'.c2s = net.c2s /\ net'.s2c[c] = rest
      /\ \A d \in Clients \ {c} : net'.s2c[d] = net.s2c[d]
  BY <1>3a DEF Nets
<1>6. /\ client' \in [Clients -> Clientele]
      /\ client'[c].at = "input"
      /\ \A d \in Clients \ {c} : client'[d] = client[d]
  BY <1>1, <1>2, <1>5 DEF Typed, Clientele, Places
<1>7. Elsewhere(c) /\ Typed'
  BY <1>1, <1>2, <1>3b, <1>6 DEF Elsewhere, Typed
<1>8. Agree(client'[c], server.thread[c], server.str[c], net.c2s[c], rest)
  BY <1>4, <1>5, <1>6 DEF Agree
<1> QED
  BY <1>2, <1>3b, <1>7, <1>8, InvKept

LEMMA GotNothingStep ==
  ASSUME Inv, NEW c \in Clients, GotNothing(c)
  PROVE  Inv'
<1>1. Typed /\ OfClient(c)
  BY DEF Inv
<1>2. /\ net.s2c[c] = <<>> /\ server.thread[c] = "closed" /\ server' = server /\ net' = net
      /\ client' = [client EXCEPT ![c].at = "input"]
  BY DEF GotNothing
<1>3. /\ client' \in [Clients -> Clientele]
      /\ client'[c].at = "input"
      /\ \A d \in Clients \ {c} : client'[d] = client[d]
  BY <1>1, <1>2 DEF Typed, Clientele, Places
<1>4. Elsewhere(c) /\ Typed'
  BY <1>1, <1>2, <1>3 DEF Elsewhere, Typed
<1>5. Agree(client'[c], server.thread[c], server.str[c], net.c2s[c], net.s2c[c])
  BY <1>1, <1>2, <1>3 DEF OfClient, Agree
<1> QED
  BY <1>2, <1>4, <1>5, InvKept

LEMMA KillStep ==
  ASSUME StringAssumption, Inv, NEW c \in Clients, Kill(c)
  PROVE  Inv'
<1>1. Typed /\ OfClient(c)
  BY DEF Inv
<1>2. PICK n \in 0 .. Len(net.c2s[c]) : net' = [net EXCEPT !.c2s[c] = SubSeq(@, 1, n), !.s2c[c] = <<>>]
  BY DEF Kill
<1> DEFINE asked == SubSeq(net.c2s[c], 1, n)
<1>3. net.c2s[c] \in Seq(Strings) /\ Len(net.c2s[c]) <= 1
  BY <1>1, Fields DEF OfClient, Agree
<1>4. asked \in Seq(Strings) /\ Len(asked) <= 1
  BY <1>3
<1>5. net' = [net EXCEPT !.c2s[c] = asked, !.s2c[c] = <<>>] /\ net \in Nets
  BY <1>1, <1>2 DEF Typed
<1> HIDE DEF asked
<1>6. /\ net' \in Nets /\ net'.c2s[c] = asked /\ net'.s2c[c] = <<>>
      /\ \A d \in Clients \ {c} : net'.c2s[d] = net.c2s[d] /\ net'.s2c[d] = net.s2c[d]
  <2>1. <<>> \in Seq(Nat \cup Buffers)
    OBVIOUS
  <2> QED
    BY <1>4, <1>5, <2>1 DEF Nets
<1>7. /\ client' \in [Clients -> Clientele]
      /\ client'[c].at = "gone"
      /\ \A d \in Clients \ {c} : client'[d] = client[d]
      /\ server' = server
  <2>1. Empty \in Buffers
    BY EmptyString DEF Strings
  <2>2. client' = [client EXCEPT ![c].at = "gone", ![c].str = Empty] /\ server' = server
    BY DEF Kill
  <2> QED
    BY <1>1, <2>1, <2>2 DEF Typed, Clientele, Places
<1>8. Elsewhere(c) /\ Typed'
  BY <1>1, <1>6, <1>7 DEF Elsewhere, Typed
<1>9. Agree(client'[c], server.thread[c], server.str[c], asked, <<>>)
  BY <1>1, <1>4, <1>7 DEF OfClient, Agree
<1> QED
  BY <1>6, <1>7, <1>8, <1>9, InvKept

LEMMA InvStep == StringAssumption /\ Inv /\ [Next]_vars => Inv'
<1> SUFFICES ASSUME StringAssumption, Inv, [Next]_vars PROVE Inv'
  OBVIOUS
<1>1. CASE WakeUp
  BY <1>1, WakeUpStep
<1>2. CASE AcceptFails
  BY <1>2, AcceptFailsStep
<1>3. ASSUME NEW c \in Clients, ThreadStep(c) PROVE Inv'
  BY <1>3, AcceptStep, RecvStep, SendSecondStep, RecvFailsStep DEF ThreadStep
<1>4. ASSUME NEW c \in Clients, ClientStep(c) PROVE Inv'
  BY <1>4, GotLengthStep, GotSecondStep, GotNothingStep DEF ClientStep
<1>5. ASSUME NEW c \in Clients, Connect(c) \/ Kill(c) PROVE Inv'
  BY <1>5, ConnectStep, KillStep
<1>6. ASSUME NEW c \in Clients, NEW text \in Texts \cup {Quit}, Enter(c, text, FALSE) PROVE Inv'
  BY <1>6, EnterStep
<1>7. ASSUME NEW c \in Clients, Enter(c, <<>>, TRUE) PROVE Inv'
  BY <1>7, EnterStep
<1>8. CASE UNCHANGED vars
  BY <1>8 DEF vars, Inv, Typed, OfClient
<1> QED
  BY <1>1, <1>2, <1>3, <1>4, <1>5, <1>6, <1>7, <1>8 DEF Next

LEMMA InvAlways == StringAssumption => (Spec => []Inv)
<1> SUFFICES ASSUME StringAssumption PROVE Spec => []Inv
  OBVIOUS
<1>1. Init => Inv
  BY InvInit
<1>2. Inv /\ [Next]_vars => Inv'
  BY InvStep
<1> QED
  BY <1>1, <1>2, PTL DEF Spec

-----------------------------------------------------------------------------
(* StringServer: the theorems.                                             *)

\* No connection ever holds more than two frames, and no thread whose client is still
\* there makes a second reply of a buffer without a terminator: only the thread of a
\* client that died before its first string works on an uninitialised one.
THEOREM TypeCorrect ==
  ASSUME StringAssumption PROVE Spec => []TypeOK
<1>1. ASSUME Inv PROVE TypeOK
  <2>1. server.at \in {"accept", "sleep", "ended"}
    BY <1>1 DEF Inv, Typed, Servers
  <2>2. ASSUME NEW c \in Clients
        PROVE  /\ server.thread[c] \in {"none", "backlog", "recv", "second", "ended", "closed"}
               /\ server.str[c] \in Buffers
               /\ client[c].at \in {"off", "input", "length", "second", "gone"}
               /\ client[c].str \in Buffers /\ client[c].failed \in BOOLEAN
               /\ client[c].entered \in 0 .. MaxTexts
    BY <1>1, Fields DEF Inv, Threads, Places
  <2>2a. ASSUME NEW c \in Clients
         PROVE  server.thread[c] = "second" /\ client[c].at # "gone" => At(Nul, server.str[c]) # {}
    BY <1>1, Fields DEF Inv, Places, Strings, OfClient, Agree
  <2>3. ASSUME NEW c \in Clients PROVE Len(net.c2s[c]) + Len(net.s2c[c]) <= 2
    <3> DEFINE asked == net.c2s[c]
               replies == net.s2c[c]
    <3>1. asked \in Seq(Strings) /\ replies \in Seq(Nat \cup Buffers) /\ client[c].at \in Places
      BY <1>1, Fields DEF Inv
    <3>2. Len(asked) \in Nat /\ Len(replies) \in Nat /\ Len(<<>>) = 0
      BY <3>1
    <3>3. Agree(client[c], server.thread[c], server.str[c], asked, replies)
      BY <1>1 DEF Inv, OfClient
    <3> HIDE DEF asked, replies
    <3>4. Len(asked) <= 1
      BY <3>3 DEF Agree
    <3>5. \/ replies = <<>> \/ Len(replies) = 1 \/ (Len(replies) = 2 /\ asked = <<>>)
      BY <3>1, <3>3 DEF Agree, AwaitsLength, AwaitsSecond, Places
    <3> DEFINE a == Len(asked)
               n == Len(replies)
    <3>5a. a \in Nat /\ n \in Nat /\ a <= 1
      BY <3>2, <3>4
    <3>5b. (replies = <<>> => n = 0) /\ (asked = <<>> => a = 0)
      BY <3>2
    <3>6. n = 0 \/ n = 1 \/ (n = 2 /\ a = 0)
      BY <3>5, <3>5b
    <3> HIDE DEF a, n
    <3>7. a + n <= 2
      BY <3>5a, <3>6
    <3> QED
      BY <3>7 DEF a, n, asked, replies
  <2> QED
    BY <2>1, <2>2, <2>2a, <2>3, Zenon DEF TypeOK
<1> QED
  BY <1>1, InvAlways, PTL

\* Both programs: however accept, threads and processes fail, a client reads
\* exactly the replies to the string it has sent: its length, and then what the
\* reference definition of the second reply says; and it is at its prompt only
\* when nothing of an earlier string is left in the connection.
THEOREM RepliesAreRight ==
  ASSUME StringAssumption PROVE Spec => []RepliesRight
<1>1. ASSUME Inv PROVE RepliesRight
  <2>1. ASSUME NEW c \in Clients
        PROVE  CASE client[c].at = "input" -> net.s2c[c] = <<>> /\ (net.c2s[c] = <<>> \/ server.thread[c] = "closed")
                 [] client[c].at = "length" ->
                      net.s2c[c] # <<>> => /\ Head(net.s2c[c]) = Len(String(client[c].str))
                                           /\ Len(net.s2c[c]) = 2 => IsSecond(net.s2c[c][2], client[c].str)
                 [] client[c].at = "second" -> net.s2c[c] # <<>> => IsSecond(Head(net.s2c[c]), client[c].str)
                 [] OTHER -> TRUE
    <3>1. OfClient(c) /\ net.s2c[c] \in Seq(Nat \cup Buffers)
      BY <1>1, Fields DEF Inv
    <3>2. net.s2c[c] # <<>> => Head(net.s2c[c]) = net.s2c[c][1]
      BY <3>1, HeadTail
    <3>3. CASE client[c].at = "input"
      BY <3>1, <3>3 DEF OfClient, Agree
    <3>4. CASE client[c].at = "length"
      <4>1. Len(String(client[c].str)) = Length(client[c].str)
        BY <3>1, <3>4, StringElements DEF OfClient, Agree
      <4> QED
        BY <3>1, <3>2, <3>4, <4>1 DEF OfClient, Agree, AwaitsLength
    <3>5. CASE client[c].at = "second"
      BY <3>1, <3>2, <3>5 DEF OfClient, Agree, AwaitsSecond
    <3>6. CASE client[c].at \notin {"input", "length", "second"}
      BY <3>6
    <3> QED
      BY <3>3, <3>4, <3>5, <3>6
  <2> QED
    BY <2>1 DEF RepliesRight
<1> QED
  BY <1>1, InvAlways, PTL

\* Both programs: on a connection that is open nobody waits for nothing.  A reply is
\* in flight, or the client's own string is on its way to a thread that receives, or
\* its thread is about to send the second reply to that string; the only exception
\* is a client of LK_3 that was announced a second reply to a buffer without a blank.
THEOREM RepliesAreUnderway ==
  ASSUME StringAssumption PROVE Spec => []Underway
<1>1. ASSUME Inv, NEW c \in Clients,
             client[c].at \in {"length", "second"}, server.thread[c] # "closed", net.s2c[c] = <<>>
      PROVE  \/ client[c].at = "length" /\ server.thread[c] \in {"backlog", "recv"} /\ net.c2s[c] = <<client[c].str>>
             \/ client[c].at = "second" /\ server.thread[c] = "second" /\ server.str[c] = client[c].str
             \/ server.thread[c] = "recv" /\ HangsUp(c)
  <2>1. OfClient(c)
    BY <1>1 DEF Inv
  <2>2. CASE client[c].at = "length"
    BY <1>1, <2>1, <2>2 DEF OfClient, Agree, AwaitsLength
  <2>3. CASE client[c].at = "second"
    BY <1>1, <2>1, <2>3 DEF OfClient, Agree, AwaitsSecond, HangsUp, HasSecond, StringAssumption
  <2> QED
    BY <1>1, <2>2, <2>3
<1>2. Inv => Underway
  BY <1>1 DEF Underway
<1> QED
  BY <1>2, InvAlways, PTL


-----------------------------------------------------------------------------
(* FirstLabs: the digits of a number.                                      *)

\* Division by a power of ten.
LEMMA Quotients ==
  ASSUME NEW n \in Nat, NEW k \in {10, 100, 1000, 10000, 100000}
  PROVE  /\ n \div k \in Nat /\ k * (n \div k) <= n /\ n < k * (n \div k) + k
         /\ n % k = n - k * (n \div k) /\ n % k \in Nat
<1>1. n \div k \in Nat /\ k * (n \div k) <= n /\ n < k * (n \div k) + k
  BY SMT
<1>2. n % k = n - k * (n \div k)
  BY SMT
<1> QED
  BY SMT, <1>1, <1>2

\* The digits of n when p are the digits in front of the last three.
LEMMA FrontDigits ==
  ASSUME NEW n \in Nat, n < 1000000
  PROVE  LET m == n \div 1000 IN
         /\ (n \div 100000) % 10 = m \div 100 /\ (n \div 10000) % 10 = (m % 100) \div 10
<1> DEFINE m == n \div 1000
           p == n \div 100000
           q == n \div 10000
           a == m \div 100
           b == m % 100
           c == b \div 10
<1>1. /\ m \in Nat /\ 1000 * m <= n /\ n < 1000 * m + 1000
      /\ p \in Nat /\ 100000 * p <= n /\ n < 100000 * p + 100000
      /\ q \in Nat /\ 10000 * q <= n /\ n < 10000 * q + 10000
  BY Quotients, SMT
<1> HIDE DEF m, p, q
<1>2. a \in Nat /\ 100 * a <= m /\ m < 100 * a + 100 /\ b = m - 100 * a /\ b \in Nat
  BY <1>1, Quotients, SMT
<1> HIDE DEF a, b
<1>3. c \in Nat /\ 10 * c <= b /\ b < 10 * c + 10
  BY <1>2, Quotients, SMT
<1> HIDE DEF c
<1>4. p = a /\ p < 10
  BY <1>1, <1>2, SMT
<1>5. q = 10 * a + c /\ c < 10
  BY <1>1, <1>2, <1>3, SMT
<1>6. p % 10 = p /\ q % 10 = c
  <2>1. /\ p % 10 = p - 10 * (p \div 10) /\ p \div 10 \in Nat /\ 10 * (p \div 10) <= p
        /\ q % 10 = q - 10 * (q \div 10) /\ q \div 10 \in Nat /\ 10 * (q \div 10) <= q /\ q < 10 * (q \div 10) + 10
    BY <1>1, Quotients, SMT
  <2> QED
    BY <1>1, <1>2, <1>3, <1>4, <1>5, <2>1, SMT
<1> QED
  BY <1>4, <1>6, SMT DEF m, p, q, a, b, c

LEMMA BackDigits ==
  ASSUME NEW n \in Nat
  PROVE  LET l == n % 1000 IN
         /\ (n \div 100) % 10 = l \div 100 /\ (n \div 10) % 10 = (l % 100) \div 10
         /\ n % 10 = (l % 100) % 10
<1> DEFINE m == n \div 1000
           l == n % 1000
           p == n \div 100
           q == n \div 10
           a == l \div 100
           b == l % 100
           c == b \div 10
<1>1. /\ m \in Nat /\ l = n - 1000 * m /\ l \in Nat /\ l < 1000
      /\ p \in Nat /\ 100 * p <= n /\ n < 100 * p + 100
      /\ q \in Nat /\ 10 * q <= n /\ n < 10 * q + 10
  BY Quotients, SMT
<1>1a. n % 10 = n - 10 * q
  BY Quotients, SMT
<1> HIDE DEF m, l, p, q
<1>2. a \in Nat /\ 100 * a <= l /\ l < 100 * a + 100 /\ b = l - 100 * a /\ b \in Nat
  BY <1>1, Quotients, SMT
<1> HIDE DEF a, b
<1>3. c \in Nat /\ 10 * c <= b /\ b < 10 * c + 10 /\ b % 10 = b - 10 * c
  BY <1>2, Quotients, SMT
<1> HIDE DEF c
<1>4. p = 10 * m + a /\ a < 10
  BY <1>1, <1>2, SMT
<1>5. q = 100 * m + 10 * a + c /\ c < 10
  BY <1>1, <1>2, <1>3, SMT
<1>6. p % 10 = a /\ q % 10 = c
  <2>1. /\ p % 10 = p - 10 * (p \div 10) /\ p \div 10 \in Nat /\ 10 * (p \div 10) <= p /\ p < 10 * (p \div 10) + 10
        /\ q % 10 = q - 10 * (q \div 10) /\ q \div 10 \in Nat /\ 10 * (q \div 10) <= q /\ q < 10 * (q \div 10) + 10
    BY <1>1, Quotients, SMT
  <2> QED
    BY <1>1, <1>2, <1>3, <1>4, <1>5, <2>1, SMT
<1>7. n % 10 = b % 10
  BY <1>1, <1>1a, <1>2, <1>3, <1>4, <1>5, SMT
<1> QED
  BY <1>6, <1>7, SMT DEF l, p, q, a, b, c

\* The sums of the code are the sums of the digits.
LEMMA DigitSums ==
  ASSUME NEW n \in Nat, n < 1000000
  PROVE  /\ First!FirstSum(n) = First!Digit(n, 1) + First!Digit(n, 2) + First!Digit(n, 3)
         /\ First!SecondSum(n) = First!Digit(n, 4) + First!Digit(n, 5) + First!Digit(n, 6)
<1>1. /\ First!Digit(n, 1) = (n \div 100000) % 10 /\ First!Digit(n, 2) = (n \div 10000) % 10
      /\ First!Digit(n, 3) = (n \div 1000) % 10 /\ First!Digit(n, 4) = (n \div 100) % 10
      /\ First!Digit(n, 5) = (n \div 10) % 10 /\ First!Digit(n, 6) = (n \div 1) % 10
  BY SMT DEF First!Digit
<1>2. n \div 1 = n
  BY SMT
<1> DEFINE m == n \div 1000
           l == n % 1000
           d1 == m \div 100
           d2 == (m % 100) \div 10
           d3 == m % 10
           d4 == l \div 100
           d5 == (l % 100) \div 10
           d6 == (l % 100) % 10
<1>3. /\ First!Digit(n, 1) = d1 /\ First!Digit(n, 2) = d2 /\ First!Digit(n, 3) = d3
      /\ First!Digit(n, 4) = d4 /\ First!Digit(n, 5) = d5 /\ First!Digit(n, 6) = d6
  <2>1. (n \div 100000) % 10 = d1 /\ (n \div 10000) % 10 = d2
    BY FrontDigits, SMT
  <2>2. (n \div 100) % 10 = d4 /\ (n \div 10) % 10 = d5 /\ n % 10 = d6
    BY BackDigits, SMT
  <2>3. (n \div 1) % 10 = d6
    BY <1>2, <2>2, SMT
  <2> QED
    BY <1>1, <2>1, <2>2, <2>3, SMT
<1>4. First!FirstSum(n) = d3 + d2 + d1 /\ First!SecondSum(n) = d4 + d5 + d6
  BY SMT DEF First!FirstSum, First!SecondSum
<1>5. m \in Nat /\ l \in Nat
  BY Quotients, SMT
<1>6. d1 \in Nat /\ d3 \in Nat /\ m % 100 \in Nat /\ d4 \in Nat /\ l % 100 \in Nat
  BY <1>5, Quotients, SMT
<1>7. d2 \in Nat /\ d5 \in Nat /\ d6 \in Nat
  BY <1>6, Quotients, SMT
<1> HIDE DEF d1, d2, d3, d4, d5, d6
<1> QED
  BY <1>3, <1>4, <1>6, <1>7, SMT

-----------------------------------------------------------------------------
(* FirstLabs: what is under way.                                           *)

Frames == IF Program = "LK" THEN Numbers \cup {First!QuitFrame} ELSE Words
Verdicts == {"yes", "no"}

FirstServers == [at : {"accept", "recv", "spins", "ended"}, received : Seq(Frames)]
FirstNets == [c2s : [Conns -> Seq(Frames)], s2c : [Conns -> Seq(Verdicts)]]
FirstClientele ==
  [at : {"input", "waiting", "gone"}, question : First!Questions \cup {<<>>},
   verdict : Verdicts \cup {"none"}, asked : 0 .. MaxAsked]

FirstTyped ==
  /\ server \in FirstServers /\ net \in FirstNets /\ client \in [Conns -> FirstClientele]
  /\ server.received # <<>> => Program = "YB" /\ Len(server.received) = 1

\* A question that does not end the conversation.
Proper(q) ==
  IF Program = "LK" THEN \E n \in Numbers : q = <<n>> /\ n # First!QuitFrame
  ELSE \E a, b \in Words \ {Exit} : q = <<a, b>>

\* The question of the first client is in flight, or half of it is received, or its
\* answer is in flight.
FirstAwaits(q, received, asked, replies) ==
  \/ received = <<>> /\ asked = q /\ replies = <<>>
  \/ Program = "YB" /\ received = <<q[1]>> /\ asked = <<q[2]>> /\ replies = <<>>
  \/ received = <<>> /\ asked = <<>> /\ replies = <<First!Verdict(q)>>

FirstInv ==
  /\ FirstTyped
  /\ \A k \in Conns :
       /\ k # 1 => net.s2c[k] = <<>> /\ client[k].verdict = "none"
       /\ client[k].verdict # "none" => First!IsRight(client[k].verdict, client[k].question)
  /\ client[1].at = "gone" => net.s2c[1] = <<>>
  /\ client[1].at = "input" =>
       server.at \in {"accept", "recv"} /\ server.received = <<>> /\ net.c2s[1] = <<>> /\ net.s2c[1] = <<>>
  /\ client[1].at = "waiting" =>
       /\ server.at \in {"accept", "recv"} /\ Proper(client[1].question) /\ client[1].verdict = "none"
       /\ FirstAwaits(client[1].question, server.received, net.c2s[1], net.s2c[1])

LEMMA FirstConstants ==
  ASSUME First!FirstLabsAssumption
  PROVE  Program \in {"LK", "YB"} /\ 1 \in Conns /\ MaxAsked \in Nat /\ Exit \in Words
  BY SMT DEF First!FirstLabsAssumption

\* The answer to a question is right.
LEMMA VerdictIs ==
  ASSUME First!FirstLabsAssumption, NEW q, Proper(q)
  PROVE  First!Verdict(q) \in Verdicts /\ First!IsRight(First!Verdict(q), q)
<1>1. First!Verdict(q) \in Verdicts
  BY DEF First!Verdict, Verdicts
<1>2. CASE Program = "LK"
  <2>1. PICK n \in Numbers : q = <<n>>
    BY <1>2 DEF Proper
  <2>2. q[1] = n
    BY <2>1
  <2>3. First!Lucky(n) <=>
          First!Digit(n, 1) + First!Digit(n, 2) + First!Digit(n, 3)
            = First!Digit(n, 4) + First!Digit(n, 5) + First!Digit(n, 6)
    <3>1. n \in Nat /\ n < 1000000
      BY <2>1, SMT DEF First!FirstLabsAssumption
    <3> QED
      BY <3>1, DigitSums, SMT DEF First!Lucky
  <2> QED
    BY <1>1, <1>2, <2>2, <2>3 DEF First!Verdict, First!IsRight, Verdicts
<1>3. CASE Program # "LK"
  <2>1. Program = "YB"
    BY <1>3, FirstConstants
  <2> QED
    BY <1>1, <2>1 DEF First!Verdict, First!IsRight, Verdicts
<1> QED
  BY <1>2, <1>3

\* A client asks questions that are proper, or that end the conversation.
LEMMA QuestionIs ==
  ASSUME First!FirstLabsAssumption, NEW q \in First!Questions
  PROVE  /\ q \in Seq(Frames) /\ q # <<>>
         /\ q[Len(q)] # First!QuitFrame => Proper(q)
<1>1. CASE Program = "LK"
  <2>1. PICK n \in Numbers \cup {First!QuitFrame} : q = <<n>>
    BY <1>1 DEF First!Questions
  <2>2. n \in Frames /\ Len(q) = 1 /\ q[Len(q)] = n /\ q \in Seq(Frames) /\ q # <<>>
    BY <1>1, <2>1 DEF Frames
  <2> QED
    BY <1>1, <2>1, <2>2 DEF Proper
<1>2. CASE Program # "LK"
  <2>1. First!QuitFrame = Exit /\ Exit \in Words /\ Frames = Words /\ Program = "YB"
    BY <1>2, FirstConstants, SMT DEF First!QuitFrame, Frames
  <2>2. CASE q = <<Exit>>
    BY <2>1, <2>2
  <2>3. CASE q # <<Exit>>
    <3>1. PICK a \in Words \ {Exit}, b \in Words : q = <<a, b>>
      BY <1>2, <2>3 DEF First!Questions
    <3>2. Len(q) = 2 /\ q[Len(q)] = b /\ q \in Seq(Frames) /\ q # <<>>
      BY <2>1, <3>1
    <3> QED
      BY <1>2, <2>1, <3>1, <3>2 DEF Proper
  <2> QED
    BY <2>2, <2>3
<1> QED
  BY <1>1, <1>2

LEMMA FirstFields ==
  ASSUME FirstTyped, NEW k \in Conns
  PROVE  /\ server.at \in {"accept", "recv", "spins", "ended"} /\ server.received \in Seq(Frames)
         /\ net.c2s \in [Conns -> Seq(Frames)] /\ net.s2c \in [Conns -> Seq(Verdicts)]
         /\ net.c2s[k] \in Seq(Frames) /\ net.s2c[k] \in Seq(Verdicts)
         /\ client[k].at \in {"input", "waiting", "gone"}
         /\ client[k].question \in First!Questions \cup {<<>>}
         /\ client[k].verdict \in Verdicts \cup {"none"} /\ client[k].asked \in 0 .. MaxAsked
  BY DEF FirstTyped, FirstServers, FirstNets, FirstClientele

LEMMA FirstStart == ASSUME First!FirstLabsAssumption, First!Init PROVE FirstInv
<1>1. server \in FirstServers /\ server.received = <<>> /\ server.at = "accept"
  BY DEF First!Init, FirstServers
<1>2. net \in FirstNets /\ \A k \in Conns : net.c2s[k] = <<>> /\ net.s2c[k] = <<>>
  <2>1. <<>> \in Seq(Frames) /\ <<>> \in Seq(Verdicts)
    OBVIOUS
  <2> QED
    BY <2>1 DEF First!Init, FirstNets
<1>3. /\ client \in [Conns -> FirstClientele]
      /\ \A k \in Conns : client[k].verdict = "none" /\ client[k].at = "input"
  <2>1. 0 \in 0 .. MaxAsked
    BY FirstConstants
  <2> QED
    BY <2>1 DEF First!Init, FirstClientele
<1>4. 1 \in Conns
  BY FirstConstants
<1> QED
  BY <1>1, <1>2, <1>3, <1>4 DEF FirstInv, FirstTyped

LEMMA Pairs ==
  ASSUME NEW S, NEW s \in Seq(S), Len(s) = 2
  PROVE  s = <<s[1], s[2]>>
  OBVIOUS

\* The server receives a frame of the first client.
LEMMA FirstRecvStep ==
  ASSUME First!FirstLabsAssumption, FirstInv, First!Recv
  PROVE  FirstInv'
<1> DEFINE asked == net.c2s[1]
           frame == Head(asked)
           rest == Tail(asked)
           frames == Append(server.received, frame)
           answer == First!Verdict(frames)
<1>0. 1 \in Conns /\ FirstTyped /\ Program \in {"LK", "YB"}
  BY FirstConstants DEF FirstInv
<1>1. server.at = "recv" /\ asked # <<>> /\ client' = client
  BY DEF First!Recv
<1>2. /\ frame \in Frames /\ rest \in Seq(Frames) /\ frame = asked[1] /\ Len(rest) = Len(asked) - 1
      /\ Len(asked) \in Nat \ {0} /\ \A i \in 1 .. Len(asked) - 1 : rest[i] = asked[i + 1]
  BY <1>0, <1>1, FirstFields, HeadTail
<1>3. /\ frames \in Seq(Frames) /\ Len(frames) = Len(server.received) + 1 /\ frames # <<>>
      /\ Len(server.received) \in Nat
      /\ server.received = <<>> => frames = <<frame>>
      /\ Len(server.received) = 1 => Len(frames) = 2 /\ frames = <<server.received[1], frame>>
  <2> DEFINE received == server.received
  <2>1. received \in Seq(Frames)
    BY <1>0, FirstFields
  <2> HIDE DEF frame, received
  <2>2. /\ frames \in Seq(Frames) /\ Len(frames) = Len(received) + 1 /\ frames # <<>>
        /\ Len(received) \in Nat /\ frames[Len(received) + 1] = frame
        /\ \A i \in 1 .. Len(received) : frames[i] = received[i]
    BY <1>2, <2>1, Appended DEF received
  <2>3. received = <<>> => frames = <<frame>>
    BY <1>2, <2>1 DEF received
  <2>4. ASSUME Len(received) = 1 PROVE frames = <<received[1], frame>>
    <3> HIDE DEF frames
    <3> QED
      BY <1>2, <2>2, <2>4, Pairs
  <2> QED
    BY <2>2, <2>3, <2>4 DEF received
<1>3a. answer \in Verdicts
  BY DEF First!Verdict, Verdicts
<1>4. CASE frame = First!QuitFrame
  <2>1. server' = [at |-> "ended", received |-> <<>>] /\ net' = [net EXCEPT !.c2s[1] = rest]
    BY <1>4 DEF First!Recv
  <2> HIDE DEF rest
  <2>2. server' \in FirstServers /\ server'.received = <<>> /\ server'.at = "ended"
    BY <2>1 DEF FirstServers
  <2>3. net' \in FirstNets /\ net'.s2c = net.s2c
    BY <1>0, <1>2, <2>1 DEF FirstTyped, FirstNets
  <2>4. client[1].at = "gone"
    <3>1. client[1].at # "input"
      BY <1>1 DEF FirstInv
    <3>2. CASE client[1].at = "waiting"
      <4>1. /\ Proper(client[1].question)
            /\ FirstAwaits(client[1].question, server.received, asked, net.s2c[1])
        BY <3>2 DEF FirstInv
      <4> DEFINE q == client[1].question
      <4>2. asked = q \/ (Program = "YB" /\ asked = <<q[2]>>)
        BY <1>1, <4>1, Zenon DEF FirstAwaits
      <4>3. Program = "LK" => q[1] # First!QuitFrame
        BY <4>1 DEF Proper
      <4>4. Program = "YB" => q[1] # First!QuitFrame /\ q[2] # First!QuitFrame
        BY <4>1, SMT DEF Proper, First!QuitFrame
      <4> HIDE DEF q, asked
      <4>5. asked[1] # First!QuitFrame
        BY <1>0, <4>2, <4>3, <4>4
      <4> QED
        BY <1>2, <1>4, <4>5
    <3> QED
      BY <1>0, <3>1, <3>2, FirstFields
  <2> QED
    BY <1>0, <1>1, <2>2, <2>3, <2>4 DEF FirstInv, FirstTyped
<1>5. CASE frame # First!QuitFrame
  <2>1. /\ server' = [server EXCEPT !.received = First!Part(frames)]
        /\ net' = IF First!Whole(frames) /\ client[1].at # "gone"
                    THEN [[net EXCEPT !.c2s[1] = rest] EXCEPT !.s2c[1] = Append(@, answer)]
                    ELSE [net EXCEPT !.c2s[1] = rest]
    BY <1>5 DEF First!Recv
  <2>2. /\ First!Part(frames) \in Seq(Frames)
        /\ First!Part(frames) # <<>> => Program = "YB" /\ Len(First!Part(frames)) = 1
    <3>1. Len(server.received) = 1 \/ server.received = <<>>
      BY <1>0 DEF FirstTyped
    <3>2. server.received = <<>> => Len(frames) = 1
      BY <1>3
    <3> QED
      BY <1>0, <1>3, <3>1, <3>2 DEF First!Part, First!Whole
  <2> DEFINE part == First!Part(frames)
             replies == IF First!Whole(frames) /\ client[1].at # "gone" THEN Append(net.s2c[1], answer) ELSE net.s2c[1]
  <2>3. server' \in FirstServers /\ server'.received = part /\ server'.at = server.at
    <3> HIDE DEF part
    <3>1. server' = [server EXCEPT !.received = part] /\ part \in Seq(Frames)
      BY <2>1, <2>2 DEF part
    <3> QED
      BY <1>0, <3>1 DEF FirstTyped, FirstServers
  <2>4. replies \in Seq(Verdicts)
    BY <1>0, <1>3a, FirstFields, Appended
  <2>5. net' = [net EXCEPT !.c2s = [@ EXCEPT ![1] = rest], !.s2c = [@ EXCEPT ![1] = replies]]
    <3> HIDE DEF rest, frames, answer
    <3> QED
      BY <1>0, <2>1 DEF FirstTyped, FirstNets
  <2> HIDE DEF rest, replies, part
  <2>6. /\ net' \in FirstNets /\ net'.c2s[1] = rest /\ net'.s2c[1] = replies
        /\ \A k \in Conns \ {1} : net'.s2c[k] = net.s2c[k]
    BY <1>0, <1>2, <2>4, <2>5 DEF FirstTyped, FirstNets
  <2>7. FirstTyped'
    BY <1>0, <1>1, <2>2, <2>3, <2>6 DEF FirstTyped, part
  <2>8. client[1].at # "input"
    BY <1>1 DEF FirstInv
  <2>9. client[1].at = "gone" => replies = <<>>
    BY DEF FirstInv, replies
  <2>10. ASSUME client[1].at = "waiting"
         PROVE  FirstAwaits(client[1].question, part, rest, replies)
    <3> DEFINE q == client[1].question
    <3>1. Proper(q) /\ FirstAwaits(q, server.received, asked, net.s2c[1])
      BY <2>10 DEF FirstInv
    <3>2. CASE Program = "LK"
      <4>1. PICK n \in Numbers : q = <<n>>
        BY <3>1, <3>2 DEF Proper
      <4>2. server.received = <<>> /\ asked = q /\ net.s2c[1] = <<>>
        BY <1>1, <3>1, <3>2 DEF FirstAwaits
      <4>3. frames = q /\ First!Whole(frames)
        BY <1>2, <1>3, <3>2, <4>1, <4>2 DEF First!Whole
      <4>4. rest = <<>>
        BY <4>1, <4>2 DEF rest
      <4>5. part = <<>> /\ replies = <<First!Verdict(q)>>
        BY <2>10, <4>2, <4>3 DEF part, replies, First!Part
      <4> QED
        BY <4>4, <4>5 DEF FirstAwaits
    <3>3. CASE Program = "YB"
      <4>1. PICK a \in Words, b \in Words : q = <<a, b>>
        BY <3>1, <3>3 DEF Proper
      <4>2. CASE server.received = <<>> /\ asked = q /\ net.s2c[1] = <<>>
        <5>1. frames = <<a>> /\ rest = <<b>>
          BY <1>2, <1>3, <4>1, <4>2 DEF rest
        <5>2. ~First!Whole(frames)
          BY <3>3, <5>1 DEF First!Whole
        <5>3. part = <<a>> /\ replies = <<>>
          BY <4>2, <5>1, <5>2 DEF part, replies, First!Part
        <5> QED
          BY <3>3, <4>1, <5>1, <5>3 DEF FirstAwaits
      <4>3. CASE server.received = <<q[1]>> /\ asked = <<q[2]>> /\ net.s2c[1] = <<>>
        <5>1. frames = <<a, b>> /\ rest = <<>>
          BY <1>2, <1>3, <4>1, <4>3 DEF rest
        <5>2. First!Whole(frames) /\ frames = q
          BY <3>3, <4>1, <5>1 DEF First!Whole
        <5>3. part = <<>> /\ replies = Append(<<>>, answer)
          BY <2>10, <4>3, <5>2 DEF part, replies, First!Part
        <5>4. answer = First!Verdict(q)
          BY <5>2
        <5>5. ASSUME NEW v PROVE Append(<<>>, v) = <<v>>
          OBVIOUS
        <5> QED
          BY <5>1, <5>3, <5>4, <5>5 DEF FirstAwaits
      <4> QED
        BY <1>1, <3>1, <4>2, <4>3 DEF FirstAwaits
    <3> QED
      BY <1>0, <3>2, <3>3
  <2> QED
    BY <1>0, <1>1, <2>3, <2>6, <2>7, <2>8, <2>9, <2>10 DEF FirstInv
<1> QED
  BY <1>4, <1>5

\* The server accepts, or finds that the first client has gone.
LEMMA FirstServerStep ==
  ASSUME First!FirstLabsAssumption, FirstInv, First!Accept \/ First!Spin
  PROVE  FirstInv'
<1>1. FirstTyped /\ UNCHANGED <<net, client>>
  BY DEF FirstInv, First!Accept, First!Spin
<1>2. CASE First!Accept
  <2>1. server' \in FirstServers /\ server'.received = server.received /\ server'.at = "recv"
    BY <1>1, <1>2 DEF First!Accept, FirstTyped, FirstServers
  <2> QED
    BY <1>1, <2>1 DEF FirstInv, FirstTyped
<1>3. CASE First!Spin
  <2>1. server' \in FirstServers /\ server'.received = <<>> /\ client[1].at = "gone"
    BY <1>3 DEF First!Spin, FirstServers
  <2> QED
    BY <1>1, <2>1 DEF FirstInv, FirstTyped
<1> QED
  BY <1>2, <1>3

\* A client asks.
LEMMA FirstAskStep ==
  ASSUME First!FirstLabsAssumption, FirstInv, NEW k \in Conns, NEW q \in First!Questions, First!Ask(k, q)
  PROVE  FirstInv'
<1> DEFINE at == IF q[Len(q)] = First!QuitFrame THEN "gone" ELSE "waiting"
           asked == IF server.at = "ended" THEN net.c2s[k] ELSE net.c2s[k] \o q
           n == client[k].asked + 1
<1>0. 1 \in Conns /\ FirstTyped /\ q \in Seq(Frames) /\ (at = "waiting" => Proper(q))
  BY QuestionIs, FirstConstants DEF FirstInv
<1>1. /\ client[k].at = "input" /\ client[k].asked < MaxAsked /\ server' = server
      /\ client' = [client EXCEPT ![k] = [at |-> at, question |-> q, verdict |-> "none", asked |-> n]]
  BY DEF First!Ask
<1>2. n \in 0 .. MaxAsked
  BY <1>0, <1>1, FirstFields, FirstConstants
<1>3. asked \in Seq(Frames) /\ (net.c2s[k] = <<>> /\ server.at # "ended" => asked = q)
  BY <1>0, FirstFields
<1>4. net' = [net EXCEPT !.c2s = [@ EXCEPT ![k] = asked]]
  BY <1>0 DEF First!Ask, FirstTyped, FirstNets
<1> HIDE DEF at, asked, n
<1>5. net' \in FirstNets /\ net'.s2c = net.s2c /\ net'.c2s = [net.c2s EXCEPT ![k] = asked]
  BY <1>0, <1>3, <1>4 DEF FirstTyped, FirstNets
<1>6. at \in {"gone", "waiting"}
  BY DEF at
<1>7. /\ client' \in [Conns -> FirstClientele] /\ client'[k].at = at /\ client'[k].question = q
      /\ client'[k].verdict = "none" /\ \A j \in Conns \ {k} : client'[j] = client[j]
  BY <1>0, <1>1, <1>2, <1>6 DEF FirstTyped, FirstClientele
<1>8. FirstTyped'
  BY <1>0, <1>1, <1>5, <1>7 DEF FirstTyped
<1>9. CASE k = 1
  <2>1. server.at \in {"accept", "recv"} /\ server.received = <<>> /\ net.c2s[1] = <<>> /\ net.s2c[1] = <<>>
    BY <1>1, <1>9 DEF FirstInv
  <2>2. net'.c2s[1] = q /\ net'.s2c[1] = <<>>
    BY <1>0, <1>3, <1>5, <1>9, <2>1, FirstFields
  <2>3. at = "waiting" => FirstAwaits(q, server.received, net'.c2s[1], net'.s2c[1])
    BY <2>1, <2>2 DEF FirstAwaits
  <2> QED
    BY <1>0, <1>1, <1>5, <1>6, <1>7, <1>8, <1>9, <2>1, <2>2, <2>3 DEF FirstInv
<1>10. CASE k # 1
  <2>1. client'[1] = client[1] /\ net'.c2s[1] = net.c2s[1] /\ net'.s2c = net.s2c
    BY <1>0, <1>5, <1>7, <1>10, FirstFields
  <2> QED
    BY <1>0, <1>1, <1>7, <1>8, <1>10, <2>1 DEF FirstInv
<1> QED
  BY <1>9, <1>10

\* A client shows a verdict.
LEMMA FirstShowStep ==
  ASSUME First!FirstLabsAssumption, FirstInv, NEW k \in Conns, First!ShowVerdict(k)
  PROVE  FirstInv'
<1> DEFINE verdict == Head(net.s2c[k])
           rest == Tail(net.s2c[k])
           q == client[1].question
<1>0. 1 \in Conns /\ FirstTyped
  BY FirstConstants DEF FirstInv
<1>1. /\ client[k].at = "waiting" /\ net.s2c[k] # <<>> /\ server' = server
      /\ client' = [client EXCEPT ![k].at = "input", ![k].verdict = verdict]
      /\ net' = [net EXCEPT !.s2c[k] = rest]
  BY DEF First!ShowVerdict
<1>2. k = 1
  BY <1>1 DEF FirstInv
<1>3. /\ server.at \in {"accept", "recv"} /\ Proper(q) /\ server.received = <<>> /\ net.c2s[1] = <<>>
      /\ net.s2c[1] = <<First!Verdict(q)>>
  BY <1>1, <1>2 DEF FirstInv, FirstAwaits
<1>4. verdict = First!Verdict(q) /\ rest = <<>>
  BY <1>2, <1>3
<1>5. First!Verdict(q) \in Verdicts /\ First!IsRight(First!Verdict(q), q)
  BY <1>3, VerdictIs
<1> HIDE DEF verdict, rest
<1>6. /\ net' \in FirstNets /\ net'.c2s = net.c2s /\ net'.s2c[1] = <<>>
      /\ \A j \in Conns \ {1} : net'.s2c[j] = net.s2c[j]
  <2>1. <<>> \in Seq(Verdicts) /\ net' = [net EXCEPT !.s2c = [@ EXCEPT ![1] = <<>>]]
    BY <1>0, <1>1, <1>2, <1>4 DEF FirstTyped, FirstNets
  <2> QED
    BY <1>0, <2>1 DEF FirstTyped, FirstNets
<1>7. /\ client' \in [Conns -> FirstClientele] /\ client'[1].at = "input" /\ client'[1].verdict = verdict
      /\ client'[1].question = q /\ \A j \in Conns \ {1} : client'[j] = client[j]
  <2>1. client' = [client EXCEPT ![1] = [@ EXCEPT !.at = "input", !.verdict = verdict]]
    BY <1>0, <1>1, <1>2 DEF FirstTyped
  <2>2. client[1] \in FirstClientele /\ verdict \in Verdicts
    BY <1>0, <1>4, <1>5 DEF FirstTyped
  <2> QED
    BY <1>0, <2>1, <2>2 DEF FirstTyped, FirstClientele
<1>8. FirstTyped'
  BY <1>0, <1>1, <1>6, <1>7 DEF FirstTyped
<1> QED
  BY <1>0, <1>1, <1>3, <1>4, <1>5, <1>6, <1>7, <1>8 DEF FirstInv

\* A client whose server has ended prints what its buffer holds.
LEMMA FirstNothingStep ==
  ASSUME First!FirstLabsAssumption, FirstInv, NEW k \in Conns, First!ShowAnything(k)
  PROVE  FirstInv'
<1>0. 1 \in Conns /\ FirstTyped
  BY FirstConstants DEF FirstInv
<1>1. /\ client[k].at = "waiting" /\ server.at = "ended" /\ UNCHANGED <<server, net>>
      /\ client' = [client EXCEPT ![k].at = "input"]
  BY DEF First!ShowAnything
<1>2. k # 1
  BY <1>1 DEF FirstInv
<1>3. /\ client' \in [Conns -> FirstClientele] /\ client'[k].verdict = client[k].verdict
      /\ client'[k].question = client[k].question /\ \A j \in Conns \ {k} : client'[j] = client[j]
  BY <1>0, <1>1 DEF FirstTyped, FirstClientele
<1> QED
  BY <1>0, <1>1, <1>2, <1>3 DEF FirstInv, FirstTyped

\* A client is killed.
LEMMA FirstKillStep ==
  ASSUME First!FirstLabsAssumption, FirstInv, NEW k \in Conns, First!Kill(k)
  PROVE  FirstInv'
<1>0. 1 \in Conns /\ FirstTyped
  BY FirstConstants DEF FirstInv
<1>1. PICK n \in 0 .. Len(net.c2s[k]) : net' = [net EXCEPT !.c2s[k] = SubSeq(@, 1, n), !.s2c[k] = <<>>]
  BY DEF First!Kill
<1> DEFINE asked == SubSeq(net.c2s[k], 1, n)
<1>2. asked \in Seq(Frames)
  BY <1>0, FirstFields
<1>3. net' = [net EXCEPT !.c2s = [@ EXCEPT ![k] = asked], !.s2c = [@ EXCEPT ![k] = <<>>]]
  BY <1>0, <1>1 DEF FirstTyped, FirstNets
<1> HIDE DEF asked
<1>4. /\ net' \in FirstNets /\ net'.s2c[k] = <<>>
      /\ \A j \in Conns \ {k} : net'.c2s[j] = net.c2s[j] /\ net'.s2c[j] = net.s2c[j]
  <2>1. <<>> \in Seq(Verdicts)
    OBVIOUS
  <2> QED
    BY <1>0, <1>2, <1>3, <2>1 DEF FirstTyped, FirstNets
<1>5. /\ client' \in [Conns -> FirstClientele] /\ client'[k].at = "gone" /\ server' = server
      /\ client'[k].verdict = client[k].verdict /\ client'[k].question = client[k].question
      /\ \A j \in Conns \ {k} : client'[j] = client[j]
  BY <1>0 DEF First!Kill, FirstTyped, FirstClientele
<1>6. FirstTyped'
  BY <1>0, <1>4, <1>5 DEF FirstTyped
<1>7. CASE k = 1
  BY <1>0, <1>4, <1>5, <1>6, <1>7 DEF FirstInv
<1>8. CASE k # 1
  BY <1>0, <1>4, <1>5, <1>6, <1>8 DEF FirstInv
<1> QED
  BY <1>7, <1>8

\* Every step keeps the questions and answers in order.
LEMMA FirstStep ==
  ASSUME First!FirstLabsAssumption, FirstInv, [First!Next]_(First!vars)
  PROVE  FirstInv'
<1>1. CASE First!ServerStep
  BY <1>1, FirstServerStep, FirstRecvStep DEF First!ServerStep
<1>2. ASSUME NEW k \in Conns, First!ClientStep(k) \/ First!Kill(k) PROVE FirstInv'
  BY <1>2, FirstShowStep, FirstNothingStep, FirstKillStep DEF First!ClientStep
<1>3. ASSUME NEW k \in Conns, NEW q \in First!Questions, First!Ask(k, q) PROVE FirstInv'
  BY <1>3, FirstAskStep
<1>4. CASE UNCHANGED First!vars
  <2>1. UNCHANGED <<server, net, client>>
    BY <1>4 DEF First!vars
  <2> QED
    BY <2>1 DEF FirstInv, FirstTyped
<1> QED
  BY <1>1, <1>2, <1>3, <1>4 DEF First!Next

LEMMA FirstAlways == ASSUME First!FirstLabsAssumption PROVE First!Spec => []FirstInv
<1>1. First!Init => FirstInv
  BY FirstStart
<1>2. FirstInv /\ [First!Next]_(First!vars) => FirstInv'
  BY FirstStep
<1> QED
  BY <1>1, <1>2, PTL DEF First!Spec

\* LK_1 and YB_1: every variable keeps its type, only YB_1 ever holds part of a
\* question, and no more than one answer is ever on its way, to the first client.
THEOREM FirstTypeCorrect ==
  ASSUME First!FirstLabsAssumption PROVE First!Spec => []First!TypeOK
<1>1. ASSUME FirstInv PROVE First!TypeOK
  <2>1. FirstTyped /\ 1 \in Conns
    BY <1>1, FirstConstants DEF FirstInv
  <2>2. ASSUME NEW k \in Conns
        PROVE  Len(net.s2c[k]) <= IF client[k].at = "waiting" /\ k = 1 THEN 1 ELSE 0
    <3>1. CASE client[k].at = "waiting" /\ k = 1
      <4>1. net.s2c[1] = <<>> \/ net.s2c[1] = <<First!Verdict(client[1].question)>>
        BY <1>1, <3>1 DEF FirstInv, FirstAwaits
      <4>2. Len(net.s2c[1]) <= 1
        <5>1. ASSUME NEW v PROVE Len(<<v>>) = 1
          OBVIOUS
        <5>2. Len(net.s2c[1]) = 0 \/ Len(net.s2c[1]) = 1
          BY <4>1, <5>1, Zenon, EmptyLength
        <5>3. ASSUME NEW n, n = 0 \/ n = 1 PROVE n <= 1
          BY <5>3
        <5> QED
          BY <5>2, <5>3
      <4> QED
        BY <3>1, <4>2
    <3>2. CASE ~(client[k].at = "waiting" /\ k = 1)
      <4>1. net.s2c[k] = <<>>
        BY <1>1, <2>1, <3>2, FirstFields DEF FirstInv
      <4> QED
        BY <3>2, <4>1
    <3> QED
      BY <3>1, <3>2
  <2>3. \A k \in Conns :
          /\ client[k].at \in {"input", "waiting", "gone"} /\ client[k].asked \in 0 .. MaxAsked
          /\ client[k].question \in First!Questions \cup {<<>>}
          /\ client[k].verdict \in {"none", "yes", "no"}
    BY <2>1, FirstFields DEF Verdicts
  <2>4. server.at \in {"accept", "recv", "spins", "ended"}
    BY <2>1, FirstFields
  <2> QED
    BY <2>1, <2>2, <2>3, <2>4 DEF First!TypeOK, FirstTyped
<1> QED
  BY <1>1, FirstAlways, PTL

\* LK_1 and YB_1: a verdict that is printed is right about the question it is
\* printed for, for every ticket and every two words; only the first client ever
\* gets one.
THEOREM VerdictsAreRight ==
  ASSUME First!FirstLabsAssumption PROVE First!Spec => []First!VerdictsRight
<1>1. FirstInv => First!VerdictsRight
  BY DEF FirstInv, First!VerdictsRight
<1> QED
  BY <1>1, FirstAlways, PTL

\* LK_1 and YB_1: while the first client waits the server has not ended, and its
\* question is whole, in what is received and what is in flight, or the verdict is
\* on its way; so no piece of an earlier question is ever taken for one of this.
THEOREM FirstIsUnderway ==
  ASSUME First!FirstLabsAssumption PROVE First!Spec => []First!Underway
<1>1. ASSUME FirstInv PROVE First!Underway
  <2> DEFINE q == client[1].question
             received == server.received
             asked == net.c2s[1]
             replies == net.s2c[1]
  <2>1. received \in Seq(Frames) /\ asked \in Seq(Frames)
    BY <1>1, FirstConstants, FirstFields DEF FirstInv
  <2>2. ASSUME client[1].at = "waiting"
        PROVE  server.at \in {"accept", "recv"} /\ Proper(q) /\ FirstAwaits(q, received, asked, replies)
    BY <1>1, <2>2 DEF FirstInv
  <2> HIDE DEF q, received, asked, replies
  <2>3. ASSUME Proper(q), FirstAwaits(q, received, asked, replies)
        PROVE  replies # <<>> \/ received \o asked = q
    <3>1. CASE received = <<>> /\ asked = q
      BY <2>1, <3>1
    <3>2. CASE Program = "YB" /\ received = <<q[1]>> /\ asked = <<q[2]>>
      <4>1. PICK a, b \in Words \ {Exit} : q = <<a, b>>
        BY <2>3, <3>2 DEF Proper
      <4>2. q[1] = a /\ q[2] = b
        BY <4>1
      <4>3. <<a>> \o <<b>> = <<a, b>>
        BY Joined
      <4> QED
        BY <3>2, <4>1, <4>2, <4>3
    <3>3. CASE replies = <<First!Verdict(q)>>
      <4>1. ASSUME NEW v PROVE <<v>> # <<>>
        OBVIOUS
      <4> QED
        BY <3>3, <4>1, Zenon
    <3> QED
      BY <2>3, <3>1, <3>2, <3>3 DEF FirstAwaits
  <2> QED
    BY <2>2, <2>3 DEF First!Underway, q, received, asked, replies
<1> QED
  BY <1>1, FirstAlways, PTL

-----------------------------------------------------------------------------
(* QuadrantServer: who is served, and what is under way.                   *)

Coordinates == Coords \cup {0}

PointAts == Quadrants!Serving \cup {"outer", "inner", "ended"}
PointServers ==
  [at : PointAts, accepted : Nat,
   hidden : SUBSET Nat, x : Coordinates, y : Coordinates]
PointNets == [c2s : [Quadrants!Conns -> Seq(Coordinates)], s2c : [Quadrants!Conns -> Seq(1 .. 4)]]
PointClients ==
  [at : {"off", "input", "waiting", "gone"}, point : Coordinates \X Coordinates,
   response : 0 .. 4, asked : 0 .. MaxPoints]

PointTyped ==
  /\ server \in PointServers /\ net \in PointNets /\ client \in [Quadrants!Conns -> PointClients]

\* Connections are accepted in the order in which they are made, the first of them
\* by the outer loop.
PointOrder ==
  /\ Quadrants!connected \in 0 .. MaxConns
  /\ {k \in Quadrants!Conns : client[k].at # "off"} = 1 .. Quadrants!connected
  /\ server.accepted <= Quadrants!connected
  /\ server.hidden \subseteq 1 .. server.accepted
  /\ server.accepted > 0 => 1 \in server.hidden
  /\ server.accepted = 0 => server.at \in {"outer", "ended"}
  /\ server.at \in Quadrants!Serving => server.accepted \notin server.hidden

Answer(point) == Quadrants!Quadrant(point[1], point[2])

\* The connection that is served: where its point is, or its answer.
PointServed(s, c, asked, answers) ==
  /\ c.at = "gone" => answers = <<>> /\ c.response = 0 /\ Len(asked) <= 2
  /\ c.at = "input" => s.at = "recvX" /\ asked = <<>> /\ answers = <<>>
  /\ c.at = "waiting" =>
       /\ c.response = 0
       /\ s.at = "recvX" => (asked = c.point /\ answers = <<>>) \/ (asked = <<>> /\ answers = <<Answer(c.point)>>)
       /\ s.at = "recvY" => s.x = c.point[1] /\ asked = <<c.point[2]>> /\ answers = <<>>
       /\ s.at = "send" => s.x = c.point[1] /\ s.y = c.point[2] /\ asked = <<>> /\ answers = <<>>
  /\ c.response # 0 => c.response = Answer(c.point)

\* Every other one has had no answer, or its client has gone.
PointUnserved(k, s, c, asked, answers) ==
  /\ answers = <<>> /\ c.response = 0 /\ Len(asked) <= 2
  /\ c.at \in {"off", "input"} => asked = <<>>
  /\ c.at = "waiting" /\ s.at # "ended" => asked = c.point
  /\ k <= s.accepted /\ k \notin s.hidden => c.at = "gone"

IsServed(k, s) == s.at \in Quadrants!Serving /\ k = s.accepted

PointLine(k, s, c, asked, answers) ==
  /\ IsServed(k, s) => PointServed(s, c, asked, answers)
  /\ ~IsServed(k, s) => PointUnserved(k, s, c, asked, answers)

PointInv ==
  /\ PointTyped /\ PointOrder
  /\ \A k \in Quadrants!Conns : PointLine(k, server, client[k], net.c2s[k], net.s2c[k])

\* As many connections as the numbers up to the last.
LEMMA UpTo ==
  ASSUME NEW n \in Nat, NEW S, S = 1 .. n
  PROVE  Quadrants!Cardinality(S) = n
<1>1. Quadrants!Cardinality(S) = Cardinality(S)
  BY DEF Quadrants!Cardinality, Cardinality
<1>2. Cardinality(1 .. n) = n
  BY FS_Interval
<1> QED
  BY <1>1, <1>2

LEMMA AnswerIs ==
  ASSUME Quadrants!QuadrantAssumption, NEW a \in Coordinates, NEW b \in Coordinates
  PROVE  /\ Quadrants!Quadrant(a, b) \in 1 .. 4
         /\ Quadrants!IsQuadrant(Quadrants!Quadrant(a, b), a, b)
<1>1. a \in Int /\ b \in Int
  BY DEF Coordinates, Quadrants!QuadrantAssumption
<1> QED
  BY <1>1 DEF Quadrants!Quadrant, Quadrants!IsQuadrant

LEMMA PointFields ==
  ASSUME PointTyped, NEW k \in Quadrants!Conns
  PROVE  /\ server.at \in PointAts /\ server.accepted \in Nat
         /\ server.hidden \subseteq Nat /\ server.x \in Coordinates /\ server.y \in Coordinates
         /\ net.c2s \in [Quadrants!Conns -> Seq(Coordinates)] /\ net.s2c \in [Quadrants!Conns -> Seq(1 .. 4)]
         /\ net.c2s[k] \in Seq(Coordinates) /\ net.s2c[k] \in Seq(1 .. 4)
         /\ client[k] \in PointClients /\ client[k].at \in {"off", "input", "waiting", "gone"}
         /\ client[k].point \in Coordinates \X Coordinates
         /\ client[k].response \in 0 .. 4 /\ client[k].asked \in 0 .. MaxPoints
  BY DEF PointTyped, PointServers, PointNets, PointClients

\* A step that connects nobody leaves the connections counted as they are.
LEMMA SameConnected ==
  ASSUME \A k \in Quadrants!Conns : (client'[k].at = "off") <=> (client[k].at = "off")
  PROVE  /\ Quadrants!connected' = Quadrants!connected
         /\ {k \in Quadrants!Conns : client'[k].at # "off"} = {k \in Quadrants!Conns : client[k].at # "off"}
<1>1. {k \in Quadrants!Conns : client'[k].at # "off"} = {k \in Quadrants!Conns : client[k].at # "off"}
  OBVIOUS
<1> QED
  BY <1>1 DEF Quadrants!connected

\* A step of the server that keeps who has connected, and of whom it changes one.
LEMMA ServerKeeps ==
  ASSUME PointInv, client' = client, server' \in PointServers, net' \in PointNets, NEW one \in Quadrants!Conns,
         \A k \in Quadrants!Conns \ {one} : net'.c2s[k] = net.c2s[k] /\ net'.s2c[k] = net.s2c[k],
         PointLine(one, server', client[one], net'.c2s[one], net'.s2c[one]),
         \A k \in Quadrants!Conns \ {one} :
           PointLine(k, server, client[k], net.c2s[k], net.s2c[k])
             => PointLine(k, server', client[k], net.c2s[k], net.s2c[k]),
         server'.accepted \in 0 .. Quadrants!connected, server'.hidden \subseteq 1 .. server'.accepted,
         server'.accepted > 0 => 1 \in server'.hidden,
         server'.accepted = 0 => server'.at \in {"outer", "ended"},
         server'.at \in Quadrants!Serving => server'.accepted \notin server'.hidden
  PROVE  PointInv'
<1>1. /\ Quadrants!connected' = Quadrants!connected
      /\ {k \in Quadrants!Conns : client'[k].at # "off"} = {k \in Quadrants!Conns : client[k].at # "off"}
  BY SameConnected
<1>2. PointTyped'
  BY DEF PointInv, PointTyped
<1>3. PointOrder'
  BY <1>1 DEF PointInv, PointOrder, Quadrants!Conns
<1>4. ASSUME NEW k \in Quadrants!Conns PROVE PointLine(k, server', client'[k], net'.c2s[k], net'.s2c[k])
  BY DEF PointInv
<1> QED
  BY <1>2, <1>3, <1>4 DEF PointInv

\* A step of one client.
LEMMA ClientKeeps ==
  ASSUME PointInv, server' = server, net' \in PointNets, client' \in [Quadrants!Conns -> PointClients],
         NEW one \in Quadrants!Conns, (client'[one].at = "off") <=> (client[one].at = "off"),
         \A k \in Quadrants!Conns \ {one} :
           client'[k] = client[k] /\ net'.c2s[k] = net.c2s[k] /\ net'.s2c[k] = net.s2c[k],
         PointLine(one, server, client'[one], net'.c2s[one], net'.s2c[one])
  PROVE  PointInv'
<1>1. /\ Quadrants!connected' = Quadrants!connected
      /\ {k \in Quadrants!Conns : client'[k].at # "off"} = {k \in Quadrants!Conns : client[k].at # "off"}
  <2>1. \A k \in Quadrants!Conns : (client'[k].at = "off") <=> (client[k].at = "off")
    OBVIOUS
  <2> QED
    BY <2>1, SameConnected
<1>2. PointTyped'
  BY DEF PointInv, PointTyped
<1>3. PointOrder'
  BY <1>1 DEF PointInv, PointOrder, Quadrants!Conns
<1>4. ASSUME NEW k \in Quadrants!Conns PROVE PointLine(k, server', client'[k], net'.c2s[k], net'.s2c[k])
  BY DEF PointInv
<1> QED
  BY <1>2, <1>3, <1>4 DEF PointInv

LEMMA PointStart == ASSUME Quadrants!QuadrantAssumption, Quadrants!Init PROVE PointInv
<1>1. server \in PointServers /\ server.at = "outer" /\ server.accepted = 0 /\ server.hidden = {}
  BY DEF Quadrants!Init, PointServers, PointAts, Coordinates
<1>2. net \in PointNets /\ \A k \in Quadrants!Conns : net.c2s[k] = <<>> /\ net.s2c[k] = <<>>
  <2>1. <<>> \in Seq(Coordinates) /\ <<>> \in Seq(1 .. 4)
    OBVIOUS
  <2> QED
    BY <2>1 DEF Quadrants!Init, PointNets
<1>3. /\ client \in [Quadrants!Conns -> PointClients]
      /\ \A k \in Quadrants!Conns : client[k].at = "off" /\ client[k].response = 0
  <2>1. MaxPoints \in Nat
    BY DEF Quadrants!QuadrantAssumption
  <2> QED
    BY <2>1 DEF Quadrants!Init, Quadrants!NoPoint, PointClients, Coordinates
<1>4. PointOrder
  <2>1. {k \in Quadrants!Conns : client[k].at # "off"} = {}
    BY <1>3
  <2>2. 1 .. 0 = {} /\ MaxConns \in Nat
    BY DEF Quadrants!QuadrantAssumption
  <2>3. Quadrants!connected = 0
    BY <2>1, <2>2, UpTo DEF Quadrants!connected
  <2> QED
    BY <1>1, <2>1, <2>2, <2>3 DEF PointOrder, Quadrants!Serving
<1>5. ASSUME NEW k \in Quadrants!Conns PROVE PointLine(k, server, client[k], net.c2s[k], net.s2c[k])
  <2>1. ~IsServed(k, server) /\ ~(k <= server.accepted)
    BY <1>1 DEF IsServed, Quadrants!Serving, Quadrants!Conns
  <2>2. PointUnserved(k, server, client[k], net.c2s[k], net.s2c[k])
    BY <1>2, <1>3, <2>1, EmptyLength DEF PointUnserved
  <2> QED
    BY <2>1, <2>2 DEF PointLine
<1> QED
  BY <1>1, <1>2, <1>3, <1>4, <1>5 DEF PointInv, PointTyped

\* accept, in either loop.
LEMMA PointAcceptStep ==
  ASSUME Quadrants!QuadrantAssumption, PointInv, Quadrants!Accept
  PROVE  PointInv'
<1> DEFINE one == server.accepted + 1
<1>0. /\ PointTyped /\ server.accepted \in Nat /\ Quadrants!connected \in 0 .. MaxConns
      /\ server.hidden \subseteq 1 .. server.accepted /\ MaxConns \in Nat
      /\ {k \in Quadrants!Conns : client[k].at # "off"} = 1 .. Quadrants!connected
  BY DEF PointInv, PointOrder, PointTyped, PointServers, Quadrants!QuadrantAssumption
<1>1. /\ server.accepted < Quadrants!connected /\ server.at \in {"inner", "outer"}
      /\ client' = client /\ net' = net
  BY DEF Quadrants!Accept
<1>2. one \in 1 .. Quadrants!connected /\ one \in Quadrants!Conns /\ client[one].at # "off"
  BY <1>0, <1>1 DEF Quadrants!Conns
<1>3. one \notin server.hidden
  BY <1>0
<1>4. ~IsServed(one, server) /\ \A k \in Quadrants!Conns : ~IsServed(k, server)
  BY <1>1 DEF IsServed, Quadrants!Serving
<1>5. PointUnserved(one, server, client[one], net.c2s[one], net.s2c[one])
  BY <1>2, <1>4 DEF PointInv, PointLine
<1>6. server' \in PointServers /\ server'.accepted = one
  <2>1. one \in Nat /\ server.hidden \cup {one} \in SUBSET Nat /\ {"recvX", "inner"} \subseteq PointAts
    BY <1>0 DEF PointTyped, PointServers, PointAts, Quadrants!Serving
  <2>2. CASE server' = [server EXCEPT !.accepted = one, !.at = "recvX"]
    BY <1>0, <2>1, <2>2 DEF PointTyped, PointServers
  <2>3. CASE server' = [server EXCEPT !.accepted = one, !.at = "inner", !.hidden = @ \cup {one}]
    BY <1>0, <2>1, <2>3 DEF PointTyped, PointServers
  <2> QED
    BY <2>2, <2>3 DEF Quadrants!Accept
<1>7. CASE server.at = "inner"
  <2>1. server'.at = "recvX" /\ server'.hidden = server.hidden /\ server.accepted > 0
    <3>1. server' = [server EXCEPT !.accepted = one, !.at = "recvX"]
      BY <1>7 DEF Quadrants!Accept
    <3>2. server.accepted # 0
      BY <1>7 DEF PointInv, PointOrder
    <3> QED
      BY <1>0, <3>1, <3>2 DEF PointTyped, PointServers
  <2>2. PointServed(server', client[one], net.c2s[one], net.s2c[one])
    BY <1>0, <1>1, <1>2, <1>5, <1>7, <2>1, PointFields DEF PointServed, PointUnserved
  <2>3. PointLine(one, server', client[one], net.c2s[one], net.s2c[one])
    BY <1>6, <2>1, <2>2 DEF PointLine, IsServed, Quadrants!Serving
  <2>4. ASSUME NEW k \in Quadrants!Conns \ {one}
        PROVE  PointLine(k, server', client[k], net.c2s[k], net.s2c[k])
    <3>1. PointUnserved(k, server, client[k], net.c2s[k], net.s2c[k])
      BY <1>4 DEF PointInv, PointLine
    <3>2. k <= one => k <= server.accepted
      BY <1>0 DEF Quadrants!Conns
    <3>3. PointUnserved(k, server', client[k], net.c2s[k], net.s2c[k])
      BY <1>6, <1>7, <2>1, <3>1, <3>2 DEF PointUnserved
    <3> QED
      BY <1>6, <3>3 DEF PointLine, IsServed
  <2>5. 1 \in server'.hidden /\ server'.hidden \subseteq 1 .. one
    BY <1>0, <2>1 DEF PointInv, PointOrder
  <2> HIDE DEF one
  <2> QED
    BY <1>0, <1>1, <1>2, <1>3, <1>6, <2>1, <2>3, <2>4, <2>5, ServerKeeps DEF PointInv, PointTyped
<1>8. CASE server.at = "outer"
  <2>1. server'.at = "inner" /\ server'.hidden = server.hidden \cup {one}
    BY <1>0, <1>8 DEF Quadrants!Accept, PointTyped, PointServers
  <2>2. ASSUME NEW k \in Quadrants!Conns
        PROVE  PointLine(k, server', client[k], net.c2s[k], net.s2c[k])
    <3>1. PointUnserved(k, server, client[k], net.c2s[k], net.s2c[k])
      BY <1>4 DEF PointInv, PointLine
    <3>2. k <= one /\ k # one => k <= server.accepted
      BY <1>0 DEF Quadrants!Conns
    <3>3. PointUnserved(k, server', client[k], net.c2s[k], net.s2c[k])
      BY <1>6, <1>8, <2>1, <3>1, <3>2 DEF PointUnserved
    <3> QED
      BY <2>1, <3>3 DEF PointLine, IsServed, Quadrants!Serving
  <2>3. 1 \in server'.hidden /\ server'.hidden \subseteq 1 .. one /\ one > 0
    BY <1>0, <2>1 DEF PointInv, PointOrder
  <2>4. server'.at \notin Quadrants!Serving
    BY <2>1 DEF Quadrants!Serving
  <2> HIDE DEF one
  <2> QED
    BY <1>0, <1>1, <1>2, <1>6, <2>2, <2>3, <2>4, ServerKeeps DEF PointInv, PointTyped
<1> QED
  BY <1>1, <1>7, <1>8

\* accept fails.
LEMMA PointAcceptFailsStep ==
  ASSUME Quadrants!QuadrantAssumption, PointInv, Quadrants!AcceptFails
  PROVE  PointInv'
<1>0. PointTyped /\ PointOrder
  BY DEF PointInv
<1>1. /\ server.at \in {"inner", "outer"} /\ client' = client /\ net' = net
      /\ server' = [server EXCEPT !.at = IF @ = "inner" THEN "outer" ELSE "ended"]
  BY DEF Quadrants!AcceptFails
<1>2. /\ server' \in PointServers /\ server'.at \in {"outer", "ended"}
      /\ server'.accepted = server.accepted /\ server'.hidden = server.hidden
  BY <1>0, <1>1 DEF PointTyped, PointServers, PointAts
<1>3. ASSUME NEW k \in Quadrants!Conns PROVE PointLine(k, server', client[k], net.c2s[k], net.s2c[k])
  <2>1. ~IsServed(k, server) /\ ~IsServed(k, server')
    BY <1>1, <1>2 DEF IsServed, Quadrants!Serving
  <2>2. PointUnserved(k, server, client[k], net.c2s[k], net.s2c[k])
    BY <2>1 DEF PointInv, PointLine
  <2>3. PointUnserved(k, server', client[k], net.c2s[k], net.s2c[k])
    BY <1>1, <1>2, <2>2 DEF PointUnserved
  <2> QED
    BY <2>1, <2>3 DEF PointLine
<1>4. PointOrder'
  <2>1. server'.at \notin Quadrants!Serving /\ UNCHANGED Quadrants!connected
    BY <1>1, <1>2 DEF Quadrants!Serving, Quadrants!connected
  <2> QED
    BY <1>0, <1>1, <1>2, <2>1 DEF PointOrder
<1> QED
  BY <1>0, <1>1, <1>2, <1>3, <1>4 DEF PointInv, PointTyped

\* The connection that is served is one of the connections.
LEMMA ServedIs ==
  ASSUME Quadrants!QuadrantAssumption, PointInv, server.at \in Quadrants!Serving
  PROVE  /\ Quadrants!AcceptSocket = server.accepted /\ server.accepted \in Quadrants!Conns
         /\ server.accepted > 0 /\ server.accepted \notin server.hidden /\ 1 \in server.hidden
         /\ server.accepted \in 0 .. Quadrants!connected /\ server.hidden \subseteq 1 .. server.accepted
         /\ client[server.accepted].at # "off"
         /\ PointServed(server, client[server.accepted], net.c2s[server.accepted], net.s2c[server.accepted])
<1>1. server.accepted \in Nat /\ MaxConns \in Nat
  BY DEF PointInv, PointTyped, PointServers, Quadrants!QuadrantAssumption
<1>2. server.at \notin {"outer", "ended"}
  BY DEF Quadrants!Serving
<1>3. /\ server.accepted > 0 /\ Quadrants!connected \in 0 .. MaxConns /\ server.accepted <= Quadrants!connected
      /\ {k \in Quadrants!Conns : client[k].at # "off"} = 1 .. Quadrants!connected
  BY <1>1, <1>2 DEF PointInv, PointOrder
<1>4. server.accepted \in Quadrants!Conns /\ server.accepted \in 1 .. Quadrants!connected
  BY <1>1, <1>3 DEF Quadrants!Conns
<1>5. IsServed(server.accepted, server)
  BY DEF IsServed
<1> QED
  BY <1>1, <1>3, <1>4, <1>5 DEF PointInv, PointOrder, PointLine, Quadrants!AcceptSocket

\* Whose turn it is does not change while one connection is served.
LEMMA ServingOn ==
  ASSUME NEW s, NEW t, s.at \in Quadrants!Serving, t.at \in Quadrants!Serving \cup {"inner"},
         t.accepted = s.accepted, t.hidden = s.hidden, NEW k, k # s.accepted,
         NEW c, NEW asked, NEW answers, PointLine(k, s, c, asked, answers)
  PROVE  PointLine(k, t, c, asked, answers)
<1>1. PointUnserved(k, s, c, asked, answers) /\ ~IsServed(k, t)
  BY DEF PointLine, IsServed
<1>2. s.at # "ended" /\ t.at # "ended"
  BY DEF Quadrants!Serving
<1>3. PointUnserved(k, t, c, asked, answers)
  BY <1>1, <1>2 DEF PointUnserved
<1> QED
  BY <1>1, <1>3 DEF PointLine

\* The server receives a coordinate.
LEMMA PointRecvStep ==
  ASSUME Quadrants!QuadrantAssumption, PointInv, Quadrants!Recv
  PROVE  PointInv'
<1> DEFINE one == server.accepted
           asked == net.c2s[one]
           n == Head(asked)
           rest == Tail(asked)
           c == client[one]
<1>0. PointTyped /\ server.at \in {"recvX", "recvY"} /\ server.at \in Quadrants!Serving
  BY DEF PointInv, Quadrants!Recv, Quadrants!Serving
<1>1. /\ one \in Quadrants!Conns /\ one > 0 /\ one \notin server.hidden /\ 1 \in server.hidden
      /\ one \in 0 .. Quadrants!connected /\ server.hidden \subseteq 1 .. one /\ c.at # "off"
      /\ PointServed(server, c, asked, net.s2c[one]) /\ Quadrants!AcceptSocket = one
  BY <1>0, ServedIs
<1>2. /\ asked # <<>> /\ net' = [net EXCEPT !.c2s[one] = rest] /\ client' = client
      /\ server' = IF server.at = "recvX" THEN [server EXCEPT !.at = "recvY", !.x = n]
                                           ELSE [server EXCEPT !.at = "send", !.y = n]
  BY <1>1 DEF Quadrants!Recv
<1>3. /\ asked \in Seq(Coordinates) /\ n \in Coordinates /\ rest \in Seq(Coordinates)
      /\ Len(asked) \in Nat \ {0} /\ Len(rest) = Len(asked) - 1 /\ n = asked[1]
  BY <1>0, <1>1, <1>2, PointFields, HeadTail
<1>4. c \in PointClients /\ c.at \in {"off", "input", "waiting", "gone"} /\ c.point \in Coordinates \X Coordinates
  BY <1>0, <1>1, PointFields
<1>5. c.at = "waiting" \/ c.at = "gone"
  BY <1>1, <1>2, <1>4 DEF PointServed
<1>6. /\ net' \in PointNets /\ net'.c2s[one] = rest /\ net'.s2c = net.s2c
      /\ \A k \in Quadrants!Conns \ {one} : net'.c2s[k] = net.c2s[k]
  <2> HIDE DEF rest, one
  <2> QED
    BY <1>0, <1>1, <1>2, <1>3 DEF PointTyped, PointNets
<1>7. /\ server' \in PointServers /\ server'.accepted = one /\ server'.hidden = server.hidden
      /\ server'.at = IF server.at = "recvX" THEN "recvY" ELSE "send"
      /\ IF server.at = "recvX" THEN server'.x = n ELSE server'.x = server.x /\ server'.y = n
  <2> HIDE DEF n
  <2>1. {"recvY", "send"} \subseteq PointAts
    BY DEF PointAts, Quadrants!Serving
  <2> QED
    BY <1>0, <1>2, <1>3, <2>1 DEF PointTyped, PointServers
<1>8. server'.at \in Quadrants!Serving
  BY <1>7 DEF Quadrants!Serving
<1>9. PointServed(server', c, rest, net.s2c[one])
  <2>1. CASE c.at = "gone"
    BY <1>1, <1>3, <2>1 DEF PointServed
  <2>2. CASE c.at = "waiting" /\ server.at = "recvX"
    <3>1. asked = c.point /\ net.s2c[one] = <<>> /\ c.response = 0
      BY <1>1, <1>2, <2>2 DEF PointServed
    <3>2. c.point = <<c.point[1], c.point[2]>>
      BY <1>4
    <3>3. n = c.point[1] /\ rest = <<c.point[2]>>
      <4>1. PICK a \in Coordinates, b \in Coordinates : c.point = <<a, b>>
        BY <1>4
      <4>2. Head(<<a, b>>) = a /\ Tail(<<a, b>>) = <<b>>
        OBVIOUS
      <4> QED
        BY <3>1, <4>1, <4>2
    <3> HIDE DEF rest, n
    <3> QED
      BY <1>7, <2>2, <3>1, <3>3 DEF PointServed
  <2>3. CASE c.at = "waiting" /\ server.at = "recvY"
    <3>1. asked = <<c.point[2]>> /\ net.s2c[one] = <<>> /\ server.x = c.point[1] /\ c.response = 0
      BY <1>1, <2>3 DEF PointServed
    <3>2. n = c.point[2] /\ rest = <<>>
      BY <3>1
    <3> HIDE DEF rest, n
    <3> QED
      BY <1>7, <2>3, <3>1, <3>2 DEF PointServed
  <2> QED
    BY <1>0, <1>5, <2>1, <2>2, <2>3
<1>10. PointLine(one, server', c, net'.c2s[one], net'.s2c[one])
  BY <1>6, <1>7, <1>8, <1>9 DEF PointLine, IsServed
<1>11. \A k \in Quadrants!Conns \ {one} :
           PointLine(k, server, client[k], net.c2s[k], net.s2c[k])
             => PointLine(k, server', client[k], net.c2s[k], net.s2c[k])
  BY <1>0, <1>7, <1>8, ServingOn
<1>12. server'.at \notin {"outer", "ended"}
  BY <1>8 DEF Quadrants!Serving
<1> HIDE DEF one, rest
<1> QED
  BY <1>0, <1>1, <1>2, <1>6, <1>7, <1>8, <1>10, <1>11, <1>12, ServerKeeps DEF one

\* The server sends an answer.
LEMMA PointSendStep ==
  ASSUME Quadrants!QuadrantAssumption, PointInv, Quadrants!Send
  PROVE  PointInv'
<1> DEFINE one == server.accepted
           c == client[one]
           answer == Quadrants!Quadrant(server.x, server.y)
           answers == IF c.at = "gone" THEN net.s2c[one] ELSE Append(net.s2c[one], answer)
<1>0. PointTyped /\ server.at = "send" /\ server.at \in Quadrants!Serving
  BY DEF PointInv, Quadrants!Send, Quadrants!Serving
<1>1. /\ one \in Quadrants!Conns /\ one > 0 /\ one \notin server.hidden /\ 1 \in server.hidden
      /\ one \in 0 .. Quadrants!connected /\ server.hidden \subseteq 1 .. one /\ c.at # "off"
      /\ PointServed(server, c, net.c2s[one], net.s2c[one]) /\ Quadrants!AcceptSocket = one
  BY <1>0, ServedIs
<1>2. /\ client' = client /\ server' = [server EXCEPT !.at = "recvX", !.x = 0, !.y = 0]
      /\ net' = IF c.at = "gone" THEN net ELSE [net EXCEPT !.s2c[one] = Append(@, answer)]
  BY <1>1 DEF Quadrants!Send
<1>3. answer \in 1 .. 4 /\ answers \in Seq(1 .. 4)
  <2>1. answer \in 1 .. 4
    BY <1>0, <1>1, PointFields, AnswerIs
  <2> HIDE DEF answer
  <2> QED
    BY <1>0, <1>1, <2>1, PointFields
<1>4. c.at \in {"off", "input", "waiting", "gone"}
  BY <1>0, <1>1, PointFields
<1>5. c.at = "waiting" \/ c.at = "gone"
  BY <1>0, <1>1, <1>4 DEF PointServed
<1>6. /\ net' \in PointNets /\ net'.s2c[one] = answers /\ net'.c2s = net.c2s
      /\ \A k \in Quadrants!Conns \ {one} : net'.s2c[k] = net.s2c[k]
  <2>1. net' = [net EXCEPT !.s2c = [@ EXCEPT ![one] = answers]]
    <3> HIDE DEF one, answer
    <3> QED
      BY <1>0, <1>1, <1>2 DEF PointTyped, PointNets
  <2> HIDE DEF answers, one
  <2> QED
    BY <1>0, <1>1, <1>3, <2>1 DEF PointTyped, PointNets
<1>7. /\ server' \in PointServers /\ server'.accepted = one /\ server'.hidden = server.hidden
      /\ server'.at = "recvX"
  BY <1>0, <1>2 DEF PointTyped, PointServers, PointAts, Quadrants!Serving, Coordinates
<1>8. server'.at \in Quadrants!Serving
  BY <1>7 DEF Quadrants!Serving
<1>9. PointServed(server', c, net.c2s[one], answers)
  <2>1. CASE c.at = "gone"
    BY <1>1, <2>1 DEF PointServed
  <2>2. CASE c.at = "waiting"
    <3>1. /\ server.x = c.point[1] /\ server.y = c.point[2] /\ net.c2s[one] = <<>> /\ net.s2c[one] = <<>>
          /\ c.response = 0
      BY <1>0, <1>1, <2>2 DEF PointServed
    <3>2. answer = Answer(c.point)
      BY <3>1 DEF Answer
    <3> HIDE DEF answer
    <3>3. answers = <<answer>>
      BY <1>3, <2>2, <3>1
    <3> HIDE DEF answers
    <3> QED
      BY <1>7, <2>2, <3>1, <3>2, <3>3 DEF PointServed
  <2> QED
    BY <1>5, <2>1, <2>2
<1>10. PointLine(one, server', c, net'.c2s[one], net'.s2c[one])
  BY <1>6, <1>7, <1>8, <1>9 DEF PointLine, IsServed
<1>11. \A k \in Quadrants!Conns \ {one} :
           PointLine(k, server, client[k], net.c2s[k], net.s2c[k])
             => PointLine(k, server', client[k], net.c2s[k], net.s2c[k])
  BY <1>0, <1>7, <1>8, ServingOn
<1>12. server'.at \notin {"outer", "ended"}
  BY <1>8 DEF Quadrants!Serving
<1> HIDE DEF one, answers
<1> QED
  BY <1>0, <1>1, <1>2, <1>6, <1>7, <1>8, <1>10, <1>11, <1>12, ServerKeeps DEF one

\* The server finds that its client has gone.
LEMMA PointGoneStep ==
  ASSUME Quadrants!QuadrantAssumption, PointInv, Quadrants!ClientGone
  PROVE  PointInv'
<1> DEFINE one == server.accepted
           c == client[one]
<1>0. PointTyped /\ server.at \in Quadrants!Serving
  BY DEF PointInv, Quadrants!ClientGone, Quadrants!Broken
<1>1. /\ one \in Quadrants!Conns /\ one > 0 /\ one \notin server.hidden /\ 1 \in server.hidden
      /\ one \in 0 .. Quadrants!connected /\ server.hidden \subseteq 1 .. one
      /\ PointServed(server, c, net.c2s[one], net.s2c[one]) /\ Quadrants!AcceptSocket = one
  BY <1>0, ServedIs
<1>2. /\ client' = client /\ server' = [server EXCEPT !.at = "inner", !.x = 0, !.y = 0] /\ net' = net
      /\ c.at = "gone"
  BY <1>1 DEF Quadrants!ClientGone, Quadrants!Broken
<1>3. /\ server' \in PointServers /\ server'.accepted = one /\ server'.hidden = server.hidden
      /\ server'.at = "inner"
  BY <1>0, <1>2 DEF PointTyped, PointServers, PointAts, Coordinates
<1>4. PointLine(one, server', c, net'.c2s[one], net'.s2c[one])
  <2>1. PointUnserved(one, server', c, net.c2s[one], net.s2c[one])
    BY <1>1, <1>2 DEF PointServed, PointUnserved
  <2> QED
    BY <1>2, <1>3, <2>1 DEF PointLine, IsServed, Quadrants!Serving
<1>5. \A k \in Quadrants!Conns \ {one} :
           PointLine(k, server, client[k], net.c2s[k], net.s2c[k])
             => PointLine(k, server', client[k], net.c2s[k], net.s2c[k])
  BY <1>0, <1>3, ServingOn
<1>6. server'.at \notin Quadrants!Serving
  BY <1>3 DEF Quadrants!Serving
<1> HIDE DEF one
<1> QED
  BY <1>0, <1>1, <1>2, <1>3, <1>4, <1>5, <1>6, ServerKeeps DEF one, PointTyped

\* A client connects.
LEMMA PointConnectStep ==
  ASSUME Quadrants!QuadrantAssumption, PointInv, Quadrants!Connect
  PROVE  PointInv'
<1> DEFINE last == Quadrants!connected
           one == last + 1
<1>0. /\ PointTyped /\ PointOrder /\ last \in 0 .. MaxConns /\ MaxConns \in Nat /\ server.accepted \in Nat
      /\ {k \in Quadrants!Conns : client[k].at # "off"} = 1 .. last /\ server.accepted <= last
  BY DEF PointInv, PointOrder, PointTyped, PointServers, Quadrants!QuadrantAssumption
<1>1. /\ last < MaxConns /\ UNCHANGED <<server, net>>
      /\ client' = [client EXCEPT ![one].at = "input"]
  BY DEF Quadrants!Connect
<1> HIDE DEF last
<1>2. one \in Quadrants!Conns /\ one \in 1 .. MaxConns /\ one > server.accepted
  BY <1>0, <1>1 DEF Quadrants!Conns
<1>3. client[one].at = "off"
  BY <1>0, <1>2
<1>4. /\ client' \in [Quadrants!Conns -> PointClients] /\ client'[one].at = "input"
      /\ client'[one].response = client[one].response
      /\ \A k \in Quadrants!Conns \ {one} : client'[k] = client[k]
  <2> HIDE DEF one
  <2>1. client[one] \in PointClients
    BY <1>0, <1>2 DEF PointTyped
  <2>2. client' = [client EXCEPT ![one] = [@ EXCEPT !.at = "input"]]
    BY <1>0, <1>1, <1>2 DEF PointTyped
  <2> QED
    BY <1>0, <1>2, <2>1, <2>2 DEF PointTyped, PointClients
<1>5. {k \in Quadrants!Conns : client'[k].at # "off"} = 1 .. one
  <2>1. ASSUME NEW k \in Quadrants!Conns PROVE (client'[k].at # "off") <=> k \in 1 .. one
    BY <1>0, <1>1, <1>4 DEF Quadrants!Conns
  <2>2. 1 .. one \subseteq Quadrants!Conns
    BY <1>0, <1>2 DEF Quadrants!Conns
  <2> HIDE DEF one
  <2> QED
    BY <2>1, <2>2
<1>6. Quadrants!connected' = one
  <2>1. one \in Nat
    BY <1>2
  <2> HIDE DEF one
  <2> QED
    BY <1>5, <2>1, UpTo DEF Quadrants!connected
<1>7. PointOrder'
  <2>1. server.accepted <= one /\ one \in 0 .. MaxConns
    BY <1>0, <1>2
  <2> HIDE DEF one
  <2> QED
    BY <1>0, <1>1, <1>5, <1>6, <2>1 DEF PointOrder
<1>8. ~IsServed(one, server)
  BY <1>0, <1>2 DEF IsServed
<1>9. PointUnserved(one, server, client'[one], net.c2s[one], net.s2c[one])
  <2>1. PointUnserved(one, server, client[one], net.c2s[one], net.s2c[one])
    BY <1>2, <1>8 DEF PointInv, PointLine
  <2>2. ~(one <= server.accepted)
    BY <1>0, <1>2
  <2> HIDE DEF one
  <2> QED
    BY <1>3, <1>4, <2>1, <2>2 DEF PointUnserved
<1>10. ASSUME NEW k \in Quadrants!Conns PROVE PointLine(k, server, client'[k], net.c2s[k], net.s2c[k])
  <2> HIDE DEF one
  <2>1. CASE k = one
    BY <1>8, <1>9, <2>1 DEF PointLine
  <2>2. CASE k # one
    BY <1>4, <2>2 DEF PointInv
  <2> QED
    BY <2>1, <2>2
<1> QED
  BY <1>0, <1>1, <1>4, <1>7, <1>10 DEF PointInv, PointTyped

\* A connection that is not served is not at the prompt once it was accepted by
\* the inner loop.
LEMMA InLine ==
  ASSUME PointInv, NEW k \in Quadrants!Conns
  PROVE  /\ IsServed(k, server) => PointServed(server, client[k], net.c2s[k], net.s2c[k])
         /\ ~IsServed(k, server) => PointUnserved(k, server, client[k], net.c2s[k], net.s2c[k])
         /\ PointTyped
  BY DEF PointInv, PointLine

\* A client asks for the quadrant of a point.
LEMMA PointAskStep ==
  ASSUME Quadrants!QuadrantAssumption, PointInv, NEW k \in Quadrants!Conns, NEW a \in Coords, NEW b \in Coords,
         Quadrants!Ask(k, a, b)
  PROVE  PointInv'
<1> DEFINE n == client[k].asked + 1
           asked == IF server.at = "ended" THEN net.c2s[k] ELSE net.c2s[k] \o <<a, b>>
<1>0. PointTyped
  BY DEF PointInv
<1>1. /\ client[k].at = "input" /\ client[k].asked < MaxPoints /\ server' = server
      /\ client' = [client EXCEPT ![k] = [at |-> "waiting", point |-> <<a, b>>, response |-> 0, asked |-> n]]
      /\ net' = IF server.at = "ended" THEN net ELSE [net EXCEPT !.c2s[k] = @ \o <<a, b>>]
  BY DEF Quadrants!Ask
<1>2. net.c2s[k] = <<>> /\ net.s2c[k] = <<>>
  BY <1>1, InLine DEF PointServed, PointUnserved
<1>3. /\ <<a, b>> \in Seq(Coordinates) /\ <<a, b>> \in Coordinates \X Coordinates
      /\ <<a, b>>[1] = a /\ <<a, b>>[2] = b /\ Len(<<a, b>>) = 2
  BY DEF Coordinates
<1>4. asked = IF server.at = "ended" THEN <<>> ELSE <<a, b>>
  BY <1>2, <1>3
<1>5. n \in 0 .. MaxPoints
  BY <1>0, <1>1, PointFields DEF Quadrants!QuadrantAssumption
<1> DEFINE point == <<a, b>>
<1> HIDE DEF n, point
<1>6. /\ client' \in [Quadrants!Conns -> PointClients] /\ client'[k].at = "waiting" /\ client'[k].point = point
      /\ client'[k].response = 0 /\ \A j \in Quadrants!Conns \ {k} : client'[j] = client[j]
  BY <1>0, <1>1, <1>3, <1>5 DEF PointTyped, PointClients, point
<1>7. /\ net' \in PointNets /\ net'.c2s[k] = asked /\ net'.s2c = net.s2c
      /\ \A j \in Quadrants!Conns \ {k} : net'.c2s[j] = net.c2s[j]
  <2>1. asked \in Seq(Coordinates)
    BY <1>3, <1>4, <1>0, <1>2, PointFields
  <2>2. net' = [net EXCEPT !.c2s = [@ EXCEPT ![k] = asked]]
    BY <1>0, <1>1 DEF PointTyped, PointNets
  <2> HIDE DEF asked
  <2> QED
    BY <1>0, <2>1, <2>2 DEF PointTyped, PointNets
<1>8. PointLine(k, server, client'[k], asked, <<>>)
  <2>1. CASE IsServed(k, server)
    <3>1. server.at = "recvX" /\ server.at # "ended"
      BY <1>1, <2>1, InLine DEF PointServed
    <3>2. asked = point
      BY <1>4, <3>1 DEF point
    <3> HIDE DEF asked
    <3> QED
      BY <1>6, <2>1, <3>1, <3>2 DEF PointLine, PointServed
  <2>2. CASE ~IsServed(k, server)
    <3>1. Len(asked) <= 2 /\ (server.at # "ended" => asked = point)
      <4>1. CASE server.at = "ended"
        BY <1>4, <4>1, EmptyLength
      <4>2. CASE server.at # "ended"
        <5>1. asked = point /\ Len(point) = 2
          BY <1>3, <1>4, <4>2 DEF point
        <5> HIDE DEF asked
        <5> QED
          BY <5>1
      <4> QED
        BY <4>1, <4>2
    <3>2. ~(k <= server.accepted /\ k \notin server.hidden)
      BY <1>1, <2>2, InLine DEF PointUnserved
    <3> HIDE DEF asked
    <3> QED
      BY <1>6, <2>2, <3>1, <3>2 DEF PointLine, PointUnserved
  <2> QED
    BY <2>1, <2>2
<1> HIDE DEF asked
<1> QED
  BY <1>1, <1>2, <1>6, <1>7, <1>8, ClientKeeps

\* A client prints its answer.
LEMMA PointShowStep ==
  ASSUME Quadrants!QuadrantAssumption, PointInv, NEW k \in Quadrants!Conns, Quadrants!ShowAnswer(k)
  PROVE  PointInv'
<1> DEFINE answer == Head(net.s2c[k])
           rest == Tail(net.s2c[k])
<1>0. PointTyped
  BY DEF PointInv
<1>1. /\ client[k].at = "waiting" /\ net.s2c[k] # <<>> /\ server' = server
      /\ client' = [client EXCEPT ![k].at = "input", ![k].response = answer]
      /\ net' = [net EXCEPT !.s2c[k] = rest]
  BY DEF Quadrants!ShowAnswer
<1>2. IsServed(k, server)
  BY <1>1, InLine DEF PointUnserved
<1>3. /\ server.at = "recvX" /\ net.c2s[k] = <<>> /\ net.s2c[k] = <<Answer(client[k].point)>>
  <2>1. server.at \in {"recvX", "recvY", "send"} /\ PointServed(server, client[k], net.c2s[k], net.s2c[k])
    BY <1>2, InLine DEF IsServed, Quadrants!Serving
  <2> QED
    BY <1>1, <2>1 DEF PointServed
<1>4. answer = Answer(client[k].point) /\ rest = <<>>
  <2>1. ASSUME NEW v PROVE Head(<<v>>) = v /\ Tail(<<v>>) = <<>>
    OBVIOUS
  <2> QED
    BY <1>3, <2>1
<1>5. answer \in 0 .. 4
  <2>1. net.s2c[k] \in Seq(1 .. 4)
    BY <1>0, PointFields
  <2>2. answer \in 1 .. 4
    BY <1>1, <2>1, HeadTail
  <2> HIDE DEF answer
  <2> QED
    BY <2>2
<1> HIDE DEF answer, rest
<1>6. /\ client' \in [Quadrants!Conns -> PointClients] /\ client'[k].at = "input" /\ client'[k].response = answer
      /\ client'[k].point = client[k].point /\ \A j \in Quadrants!Conns \ {k} : client'[j] = client[j]
  <2>1. client' = [client EXCEPT ![k] = [@ EXCEPT !.at = "input", !.response = answer]]
    BY <1>0, <1>1 DEF PointTyped
  <2>2. client[k] \in PointClients
    BY <1>0 DEF PointTyped
  <2> QED
    BY <1>0, <1>5, <2>1, <2>2 DEF PointTyped, PointClients
<1>7. /\ net' \in PointNets /\ net'.s2c[k] = <<>> /\ net'.c2s = net.c2s
      /\ \A j \in Quadrants!Conns \ {k} : net'.s2c[j] = net.s2c[j]
  <2>1. <<>> \in Seq(1 .. 4) /\ net' = [net EXCEPT !.s2c = [@ EXCEPT ![k] = <<>>]]
    BY <1>0, <1>1, <1>4 DEF PointTyped, PointNets
  <2> QED
    BY <1>0, <2>1 DEF PointTyped, PointNets
<1>8. PointLine(k, server, client'[k], <<>>, <<>>)
  BY <1>2, <1>3, <1>4, <1>6 DEF PointLine, PointServed
<1> QED
  BY <1>1, <1>3, <1>6, <1>7, <1>8, ClientKeeps

\* No more than a point, or its answer, is under way.
LEMMA InFlight ==
  ASSUME PointInv, NEW k \in Quadrants!Conns
  PROVE  Len(net.c2s[k]) <= 2 /\ Len(net.c2s[k]) + Len(net.s2c[k]) <= 2
<1> DEFINE asked == net.c2s[k]
           answers == net.s2c[k]
           c == client[k]
<1>0. /\ asked \in Seq(Coordinates) /\ answers \in Seq(1 .. 4) /\ Len(asked) \in Nat
      /\ c.at \in {"off", "input", "waiting", "gone"} /\ c.point \in Coordinates \X Coordinates
      /\ (answers = <<>> => Len(answers) = 0) /\ (asked = <<>> => Len(asked) = 0)
  BY InLine, PointFields
<1>1. PICK a \in Coordinates, b \in Coordinates : c.point = <<a, b>> /\ c.point[2] = b
  BY <1>0
<1> DEFINE answer == Answer(c.point)
<1> HIDE DEF asked, answers, c, answer
<1>2. Len(<<a, b>>) = 2 /\ Len(<<b>>) = 1 /\ Len(<<answer>>) = 1
  OBVIOUS
<1>3. CASE ~IsServed(k, server)
  <2>1. answers = <<>> /\ Len(asked) <= 2
    BY <1>3, InLine DEF PointUnserved, asked, answers
  <2> QED
    BY <1>0, <2>1 DEF asked, answers
<1>4. CASE IsServed(k, server)
  <2>1. PointServed(server, c, asked, answers) /\ server.at \in {"recvX", "recvY", "send"}
    BY <1>4, InLine DEF IsServed, Quadrants!Serving, c, asked, answers
  <2>2. \/ answers = <<>> /\ Len(asked) <= 2
        \/ answers = <<>> /\ asked = <<a, b>>
        \/ answers = <<>> /\ asked = <<b>>
        \/ asked = <<>> /\ answers = <<>>
        \/ asked = <<>> /\ answers = <<answer>>
        \/ c.at = "off"
    BY <1>0, <1>1, <2>1 DEF PointServed, answer
  <2>3. c.at # "off"
    <3>1. server.at \in Quadrants!Serving /\ k = server.accepted
      BY <1>4 DEF IsServed
    <3>2. /\ {j \in Quadrants!Conns : client[j].at # "off"} = 1 .. Quadrants!connected
          /\ server.accepted <= Quadrants!connected /\ Quadrants!connected \in 0 .. MaxConns
      BY DEF PointInv, PointOrder
    <3>3. k \in 1 .. MaxConns
      BY DEF Quadrants!Conns
    <3>4. k \in 1 .. Quadrants!connected
      BY <3>1, <3>2, <3>3
    <3> QED
      BY <3>2, <3>4 DEF c
  <2>4. \/ Len(answers) = 0 /\ Len(asked) \in Nat /\ Len(asked) <= 2
        \/ Len(answers) = 0 /\ Len(asked) = 2
        \/ Len(answers) = 0 /\ Len(asked) = 1
        \/ Len(asked) = 0 /\ Len(answers) = 0
        \/ Len(asked) = 0 /\ Len(answers) = 1
    BY <1>0, <1>2, <2>2, <2>3, Zenon
  <2>5. ASSUME NEW m, NEW n,
               \/ n = 0 /\ m \in Nat /\ m <= 2
               \/ n = 0 /\ m = 2
               \/ n = 0 /\ m = 1
               \/ m = 0 /\ n = 0
               \/ m = 0 /\ n = 1
        PROVE  m <= 2 /\ m + n <= 2
    BY <2>5
  <2> QED
    BY <2>4, <2>5, Zenon DEF asked, answers
<1> QED
  BY <1>3, <1>4

\* A client goes, because the server has ended or because it is killed.
LEMMA PointLeaves ==
  ASSUME Quadrants!QuadrantAssumption, PointInv, NEW k \in Quadrants!Conns, client[k].at # "off",
         server' = server, client' = [client EXCEPT ![k] = [Quadrants!NoPoint EXCEPT !.at = "gone"]],
         NEW asked \in Seq(Coordinates), Len(asked) <= Len(net.c2s[k]),
         net' = [net EXCEPT !.c2s = [@ EXCEPT ![k] = asked], !.s2c = [@ EXCEPT ![k] = <<>>]]
  PROVE  PointInv'
<1>0. PointTyped
  BY DEF PointInv
<1>1. MaxPoints \in Nat
  BY DEF Quadrants!QuadrantAssumption
<1>2. /\ client' \in [Quadrants!Conns -> PointClients] /\ client'[k].at = "gone" /\ client'[k].response = 0
      /\ \A j \in Quadrants!Conns \ {k} : client'[j] = client[j]
  BY <1>0, <1>1 DEF PointTyped, PointClients, Quadrants!NoPoint, Coordinates
<1>3. /\ net' \in PointNets /\ net'.s2c[k] = <<>> /\ net'.c2s[k] = asked
      /\ \A j \in Quadrants!Conns \ {k} : net'.c2s[j] = net.c2s[j] /\ net'.s2c[j] = net.s2c[j]
  <2>1. <<>> \in Seq(1 .. 4)
    OBVIOUS
  <2> QED
    BY <1>0, <2>1 DEF PointTyped, PointNets
<1>4. Len(asked) <= 2
  <2>1. Len(net.c2s[k]) <= 2 /\ net.c2s[k] \in Seq(Coordinates)
    BY <1>0, InFlight, PointFields
  <2> QED
    BY <2>1
<1>5. PointLine(k, server, client'[k], asked, <<>>)
  BY <1>2, <1>4 DEF PointLine, PointServed, PointUnserved
<1> QED
  BY <1>2, <1>3, <1>5, ClientKeeps

LEMMA PointLeaveStep ==
  ASSUME Quadrants!QuadrantAssumption, PointInv, NEW k \in Quadrants!Conns, Quadrants!Leave(k)
  PROVE  PointInv'
<1>0. PointTyped
  BY DEF PointInv
<1>1. /\ client[k].at # "off" /\ server' = server
      /\ client' = [client EXCEPT ![k] = [Quadrants!NoPoint EXCEPT !.at = "gone"]]
      /\ net' = [net EXCEPT !.s2c[k] = <<>>]
  BY DEF Quadrants!Leave
<1> DEFINE asked == net.c2s[k]
<1>2. asked \in Seq(Coordinates) /\ Len(asked) <= Len(net.c2s[k])
  BY <1>0, PointFields
<1>3. net' = [net EXCEPT !.c2s = [@ EXCEPT ![k] = asked], !.s2c = [@ EXCEPT ![k] = <<>>]]
  BY <1>0, <1>1 DEF PointTyped, PointNets
<1> HIDE DEF asked
<1> QED
  BY <1>1, <1>2, <1>3, PointLeaves

LEMMA PointKillStep ==
  ASSUME Quadrants!QuadrantAssumption, PointInv, NEW k \in Quadrants!Conns, Quadrants!Kill(k)
  PROVE  PointInv'
<1>0. PointTyped
  BY DEF PointInv
<1>1. /\ client[k].at # "off" /\ server' = server
      /\ client' = [client EXCEPT ![k] = [Quadrants!NoPoint EXCEPT !.at = "gone"]]
  BY DEF Quadrants!Kill
<1>2. PICK n \in 0 .. Len(net.c2s[k]) : net' = [net EXCEPT !.c2s[k] = SubSeq(@, 1, n), !.s2c[k] = <<>>]
  BY DEF Quadrants!Kill
<1> DEFINE asked == SubSeq(net.c2s[k], 1, n)
<1>3. asked \in Seq(Coordinates) /\ Len(asked) <= Len(net.c2s[k])
  BY <1>0, PointFields
<1>4. net' = [net EXCEPT !.c2s = [@ EXCEPT ![k] = asked], !.s2c = [@ EXCEPT ![k] = <<>>]]
  BY <1>0, <1>2 DEF PointTyped, PointNets
<1> HIDE DEF asked
<1> QED
  BY <1>1, <1>3, <1>4, PointLeaves

LEMMA PointStep ==
  ASSUME Quadrants!QuadrantAssumption, PointInv, [Quadrants!Next]_(Quadrants!vars)
  PROVE  PointInv'
<1>1. CASE Quadrants!ServerStep
  BY <1>1, PointAcceptStep, PointRecvStep, PointSendStep, PointGoneStep DEF Quadrants!ServerStep
<1>2. CASE Quadrants!AcceptFails \/ Quadrants!Connect
  BY <1>2, PointAcceptFailsStep, PointConnectStep
<1>3. ASSUME NEW k \in Quadrants!Conns, Quadrants!ClientStep(k) \/ Quadrants!Kill(k) PROVE PointInv'
  BY <1>3, PointShowStep, PointLeaveStep, PointKillStep DEF Quadrants!ClientStep
<1>4. ASSUME NEW k \in Quadrants!Conns, NEW a \in Coords, NEW b \in Coords, Quadrants!Ask(k, a, b) PROVE PointInv'
  BY <1>4, PointAskStep
<1>5. CASE UNCHANGED Quadrants!vars
  <2>1. UNCHANGED <<server, net, client>>
    BY <1>5 DEF Quadrants!vars
  <2>2. UNCHANGED Quadrants!connected
    BY <2>1 DEF Quadrants!connected
  <2> QED
    BY <2>1, <2>2 DEF PointInv, PointTyped, PointOrder
<1> QED
  BY <1>1, <1>2, <1>3, <1>4, <1>5 DEF Quadrants!Next

LEMMA PointAlways == ASSUME Quadrants!QuadrantAssumption PROVE Quadrants!Spec => []PointInv
<1>1. Quadrants!Init => PointInv
  BY PointStart
<1>2. PointInv /\ [Quadrants!Next]_(Quadrants!vars) => PointInv'
  BY PointStep
<1> QED
  BY <1>1, <1>2, PTL DEF Quadrants!Spec

\* CN1: only a connection of the inner loop is ever served, and no more is in
\* flight than one point or its answer, however accepts fail and clients die.
THEOREM QuadrantTypeCorrect ==
  ASSUME Quadrants!QuadrantAssumption PROVE Quadrants!Spec => []Quadrants!TypeOK
<1>1. ASSUME PointInv PROVE Quadrants!TypeOK
  <2>1. PointTyped /\ PointOrder
    BY <1>1 DEF PointInv
  <2>2. ASSUME NEW k \in Quadrants!Conns
        PROVE  /\ client[k].at \in {"off", "input", "waiting", "gone"}
               /\ client[k].response \in 0 .. 4 /\ client[k].asked \in 0 .. MaxPoints
               /\ Len(net.c2s[k]) + Len(net.s2c[k]) <= 2
    BY <1>1, <2>1, InFlight, PointFields
  <2>3. /\ server.at \in Quadrants!Serving \cup {"outer", "inner", "ended"} /\ server.accepted \in Nat
        /\ server.x \in Coords \cup {0} /\ server.y \in Coords \cup {0}
    BY <2>1 DEF PointTyped, PointServers, PointAts, Coordinates
  <2>4. server.accepted \in 0 .. Quadrants!connected
    BY <2>1, <2>3 DEF PointOrder
  <2> QED
    BY <2>1, <2>2, <2>3, <2>4 DEF Quadrants!TypeOK, Quadrants!AcceptSocket, PointOrder
<1> QED
  BY <1>1, PointAlways, PTL

\* CN1: every answer that is printed names the quadrant of the point its client has
\* asked for, for all coordinates, and whoever left before it in mid-point; no
\* client of the outer loop, and so never the first one, is sent an answer.
THEOREM AnswersAreRight ==
  ASSUME Quadrants!QuadrantAssumption PROVE Quadrants!Spec => []Quadrants!AnswersRight
<1>1. ASSUME PointInv, NEW k \in Quadrants!Conns
      PROVE  /\ client[k].response # 0 =>
                  Quadrants!IsQuadrant(client[k].response, client[k].point[1], client[k].point[2])
             /\ k = 1 \/ k \in server.hidden => client[k].response = 0 /\ net.s2c[k] = <<>>
  <2>1. client[k].response # 0 => client[k].response = Answer(client[k].point)
    BY <1>1, InLine DEF PointServed, PointUnserved
  <2>2. client[k].point[1] \in Coordinates /\ client[k].point[2] \in Coordinates
    BY <1>1, PointFields DEF PointInv
  <2>3. ASSUME k = 1 \/ k \in server.hidden PROVE ~IsServed(k, server)
    <3>1. CASE IsServed(k, server)
      <4>1. server.accepted > 0 /\ server.accepted \notin server.hidden /\ 1 \in server.hidden
        BY <1>1, <3>1, ServedIs DEF IsServed
      <4> QED
        BY <2>3, <3>1, <4>1 DEF IsServed
    <3> QED
      BY <3>1
  <2>4. k = 1 \/ k \in server.hidden => client[k].response = 0 /\ net.s2c[k] = <<>>
    BY <1>1, <2>3, InLine DEF PointUnserved
  <2> QED
    BY <2>1, <2>2, <2>4, AnswerIs DEF Answer
<1>2. PointInv => Quadrants!AnswersRight
  BY <1>1 DEF Quadrants!AnswersRight
<1> QED
  BY <1>2, PointAlways, PTL


\* CN1: while a client waits its point is whole, in what the server has received and
\* what is in flight, or its answer is on its way: nothing is left behind by whoever
\* was served before, and no coordinate is taken for the other.
THEOREM PointIsUnderway ==
  ASSUME Quadrants!QuadrantAssumption PROVE Quadrants!Spec => []Quadrants!Underway
<1>1. ASSUME PointInv, server.at # "ended", NEW k \in Quadrants!Conns, client[k].at = "waiting"
      PROVE  net.s2c[k] # <<>> \/ Quadrants!Held(k) \o net.c2s[k] = client[k].point
  <2> DEFINE p == client[k].point
             asked == net.c2s[k]
  <2>1. /\ p \in Coordinates \X Coordinates /\ asked \in Seq(Coordinates)
        /\ server.x \in Coordinates /\ server.y \in Coordinates
    BY <1>1, PointFields DEF PointInv
  <2>2. p = <<p[1], p[2]>> /\ p[1] \in Coordinates /\ p[2] \in Coordinates
    BY <2>1
  <2>3. PointLine(k, server, client[k], asked, net.s2c[k])
    BY <1>1 DEF PointInv
  <2> HIDE DEF p, asked
  <2>4. CASE ~IsServed(k, server)
    <3>1. asked = p
      BY <1>1, <2>3, <2>4 DEF PointLine, PointUnserved, p
    <3>2. Quadrants!Held(k) = <<>>
      BY <2>4 DEF IsServed, Quadrants!Held, Quadrants!AcceptSocket, Quadrants!Serving
    <3> QED
      BY <2>1, <3>1, <3>2 DEF asked, p
  <2>5. CASE IsServed(k, server)
    <3>1. PointServed(server, client[k], asked, net.s2c[k]) /\ k = server.accepted
      BY <2>3, <2>5 DEF PointLine, IsServed
    <3>2. CASE server.at = "recvX"
      <4>1. Quadrants!Held(k) = <<>>
        BY <3>2 DEF Quadrants!Held
      <4>2. asked = p \/ net.s2c[k] = <<Answer(p)>>
        BY <1>1, <3>1, <3>2 DEF PointServed, p
      <4>3. ASSUME NEW v PROVE <<v>> # <<>>
        OBVIOUS
      <4>4. CASE asked = p
        BY <2>1, <4>1, <4>4 DEF asked, p
      <4>5. CASE net.s2c[k] = <<Answer(p)>>
        BY <4>3, <4>5, Zenon
      <4> QED
        BY <4>2, <4>4, <4>5
    <3>3. CASE server.at = "recvY"
      <4>1. Quadrants!Held(k) = <<server.x>>
        BY <3>1, <3>3 DEF Quadrants!Held, Quadrants!AcceptSocket
      <4>2. server.x = p[1] /\ asked = <<p[2]>>
        BY <1>1, <3>1, <3>3 DEF PointServed, p
      <4>3. <<p[1]>> \o <<p[2]>> = <<p[1], p[2]>>
        BY <2>2, Joined
      <4> QED
        BY <2>2, <4>1, <4>2, <4>3 DEF asked, p
    <3>4. CASE server.at = "send"
      <4>1. Quadrants!Held(k) = <<server.x, server.y>>
        BY <3>1, <3>4 DEF Quadrants!Held, Quadrants!AcceptSocket
      <4>2. server.x = p[1] /\ server.y = p[2] /\ asked = <<>>
        BY <1>1, <3>1, <3>4 DEF PointServed, p
      <4>3. <<p[1], p[2]>> \o <<>> = <<p[1], p[2]>>
        OBVIOUS
      <4> QED
        BY <2>2, <4>1, <4>2, <4>3 DEF asked, p
    <3> QED
      BY <2>5, <3>2, <3>3, <3>4 DEF IsServed, Quadrants!Serving
  <2> QED
    BY <2>4, <2>5
<1>2. PointInv => Quadrants!Underway
  BY <1>1 DEF Quadrants!Underway
<1> QED
  BY <1>2, PointAlways, PTL

=============================================================================
