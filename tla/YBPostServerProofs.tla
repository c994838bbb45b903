------------------------- MODULE YBPostServerProofs -------------------------
(***************************************************************************)
(* Proofs about YBPostServer, for any number of clients, phones, texts and *)
(* buffered frames.                                                        *)
(***************************************************************************)
EXTENDS YBPostServer, FiniteSetTheorems, SequenceTheorems, TLAPS

\* What Tail does to a queue, element by element.
LEMMA TailElements ==
  ASSUME NEW S, NEW s \in Seq(S), s # <<>>
  PROVE  /\ Head(s) = s[1] /\ Head(s) \in S /\ Len(s) \in Nat \ {0}
         /\ Tail(s) \in Seq(S) /\ Len(Tail(s)) = Len(s) - 1
         /\ \A i \in 1 .. Len(Tail(s)) : Tail(s)[i] = s[i + 1]
  OBVIOUS

\* What Append does to a queue, element by element.
LEMMA AppendElements ==
  ASSUME NEW S, NEW s \in Seq(S), NEW x \in S
  PROVE  /\ Append(s, x) \in Seq(S) /\ Len(Append(s, x)) = Len(s) + 1 /\ Len(s) \in Nat
         /\ \A i \in 1 .. Len(s) : Append(s, x)[i] = s[i]
         /\ Append(s, x)[Len(s) + 1] = x
  OBVIOUS

\* What is left of a queue when only its first n elements arrive.
LEMMA PrefixElements ==
  ASSUME NEW S, NEW s \in Seq(S), NEW n \in 0 .. Len(s)
  PROVE  /\ SubSeq(s, 1, n) \in Seq(S) /\ Len(SubSeq(s, 1, n)) = n
         /\ \A i \in 1 .. n : SubSeq(s, 1, n)[i] = s[i]
  OBVIOUS

-----------------------------------------------------------------------------
(* The conversation of a client with its thread.                           *)

\* The stages of a conversation: what the thread receives next.
Stages == {"hello", "cmd", "tel", "text", "end"}

\* The frames that can be received at a stage, and the stage that follows.
Fits(stage, frame, texts) ==
  \/ stage \in {"hello", "tel"} /\ frame \in Phones
  \/ stage = "cmd" /\ frame \in Commands
  \/ stage = "text" /\ frame \in texts

After(stage, frame) ==
  IF stage \in {"hello", "text"} THEN "cmd"
  ELSE IF stage = "tel" THEN "text"
  ELSE IF frame = "post" THEN "tel"
  ELSE IF frame = "view" THEN "cmd" ELSE "end"

\* at[i] is the stage once i of the frames of q are received.
Labels(q) == [0 .. Len(q) -> Stages]

IsParse(q, at, texts) ==
  \A i \in 1 .. Len(q) : Fits(at[i - 1], q[i], texts) /\ at[i] = After(at[i - 1], q[i])

LEMMA AfterStage == \A stage, frame : After(stage, frame) \in Stages
  BY DEF After, Stages

\* A frame is received: the stages move up by one.
ParseTailOf(q, at) == [i \in 0 .. Len(Tail(q)) |-> at[i + 1]]

LEMMA ParseTail ==
  ASSUME NEW S, NEW q \in Seq(S), q # <<>>, NEW at \in Labels(q), NEW texts,
         IsParse(q, at, texts)
  PROVE  /\ ParseTailOf(q, at) \in Labels(Tail(q))
         /\ IsParse(Tail(q), ParseTailOf(q, at), texts)
         /\ Fits(at[0], Head(q), texts)
         /\ ParseTailOf(q, at)[0] = After(at[0], Head(q))
         /\ ParseTailOf(q, at)[Len(Tail(q))] = at[Len(q)]
         /\ \A i \in 0 .. Len(Tail(q)) : ParseTailOf(q, at)[i] = at[i + 1]
<1> DEFINE new == ParseTailOf(q, at)
<1>1. /\ Head(q) = q[1] /\ Len(q) \in Nat \ {0} /\ Len(Tail(q)) = Len(q) - 1
      /\ \A i \in 1 .. Len(Tail(q)) : Tail(q)[i] = q[i + 1]
  BY TailElements
<1>2. \A i \in 0 .. Len(Tail(q)) : new[i] = at[i + 1]
  BY DEF ParseTailOf
<1>3. new \in Labels(Tail(q))
  <2>1. \A i \in 0 .. Len(Tail(q)) : at[i + 1] \in Stages
    BY <1>1 DEF Labels
  <2> QED
    BY <2>1 DEF ParseTailOf, Labels
<1>4. Fits(at[0], Head(q), texts) /\ at[1] = After(at[0], Head(q))
  BY <1>1 DEF IsParse
<1>5. new[0] = at[1] /\ new[Len(Tail(q))] = at[Len(q)]
  BY <1>1, <1>2
<1>6. ASSUME NEW i \in 1 .. Len(Tail(q))
      PROVE  Fits(new[i - 1], Tail(q)[i], texts) /\ new[i] = After(new[i - 1], Tail(q)[i])
  <2>1. i \in Nat /\ i + 1 \in 1 .. Len(q) /\ new[i] = at[i + 1] /\ new[i - 1] = at[i] /\ Tail(q)[i] = q[i + 1]
    BY <1>1, <1>2
  <2>2. (i + 1) - 1 = i
    BY <2>1
  <2> QED
    BY <2>1, <2>2 DEF IsParse
<1> QED
  BY <1>2, <1>3, <1>4, <1>5, <1>6 DEF IsParse

\* A frame is sent: the stages are continued by one.
ParseAppendOf(q, at, frame) ==
  [i \in 0 .. Len(q) + 1 |-> IF i <= Len(q) THEN at[i] ELSE After(at[Len(q)], frame)]

LEMMA ParseAppend ==
  ASSUME NEW S, NEW q \in Seq(S), NEW at \in Labels(q), NEW texts, NEW frame \in S,
         IsParse(q, at, texts), Fits(at[Len(q)], frame, texts)
  PROVE  /\ ParseAppendOf(q, at, frame) \in Labels(Append(q, frame))
         /\ IsParse(Append(q, frame), ParseAppendOf(q, at, frame), texts)
         /\ \A i \in 0 .. Len(q) : ParseAppendOf(q, at, frame)[i] = at[i]
         /\ ParseAppendOf(q, at, frame)[Len(Append(q, frame))] = After(at[Len(q)], frame)
<1> DEFINE new == ParseAppendOf(q, at, frame)
           long == Append(q, frame)
<1>1. /\ Len(long) = Len(q) + 1 /\ Len(q) \in Nat /\ long[Len(q) + 1] = frame
      /\ \A i \in 1 .. Len(q) : long[i] = q[i]
  BY AppendElements
<1>2. /\ \A i \in 0 .. Len(q) : new[i] = at[i]
      /\ new[Len(q) + 1] = After(at[Len(q)], frame)
  BY <1>1 DEF ParseAppendOf
<1>3. new \in Labels(long)
  BY <1>1, AfterStage DEF ParseAppendOf, Labels
<1>4. ASSUME NEW i \in 1 .. Len(long)
      PROVE  Fits(new[i - 1], long[i], texts) /\ new[i] = After(new[i - 1], long[i])
  <2>1. CASE i \in 1 .. Len(q)
    <3>1. long[i] = q[i] /\ new[i] = at[i] /\ new[i - 1] = at[i - 1]
      BY <1>1, <1>2, <2>1
    <3> QED
      BY <2>1, <3>1 DEF IsParse
  <2>2. CASE i = Len(q) + 1
    <3>1. long[i] = frame /\ new[i] = After(at[Len(q)], frame) /\ new[i - 1] = at[Len(q)]
      BY <1>1, <1>2, <2>2
    <3> QED
      BY <3>1
  <2> QED
    BY <1>1, <2>1, <2>2
<1> QED
  BY <1>1, <1>2, <1>3, <1>4 DEF IsParse

\* The last frames are lost.
LEMMA ParsePrefix ==
  ASSUME NEW S, NEW q \in Seq(S), NEW at \in Labels(q), NEW texts, NEW n \in 0 .. Len(q),
         IsParse(q, at, texts)
  PROVE  \E new \in Labels(SubSeq(q, 1, n)) :
           /\ IsParse(SubSeq(q, 1, n), new, texts)
           /\ \A i \in 0 .. n : new[i] = at[i]
<1> DEFINE new == [i \in 0 .. n |-> at[i]]
<1>1. /\ Len(SubSeq(q, 1, n)) = n /\ \A i \in 1 .. n : SubSeq(q, 1, n)[i] = q[i]
      /\ Len(q) \in Nat
  BY PrefixElements
<1>2. new \in Labels(SubSeq(q, 1, n))
  BY <1>1 DEF Labels
<1>3. ASSUME NEW i \in 1 .. n
      PROVE  /\ Fits(new[i - 1], SubSeq(q, 1, n)[i], texts)
             /\ new[i] = After(new[i - 1], SubSeq(q, 1, n)[i])
  <2>1. i \in 1 .. Len(q) /\ SubSeq(q, 1, n)[i] = q[i] /\ new[i] = at[i] /\ new[i - 1] = at[i - 1]
    BY <1>1
  <2> QED
    BY <2>1 DEF IsParse
<1>4. IsParse(SubSeq(q, 1, n), new, texts)
  BY <1>1, <1>3 DEF IsParse
<1> QED
  BY <1>2, <1>4

\* More texts were typed.
LEMMA ParseMore ==
  ASSUME NEW q, NEW at, NEW texts, NEW more, texts \subseteq more, IsParse(q, at, texts)
  PROVE  IsParse(q, at, more)
  BY DEF IsParse, Fits

-----------------------------------------------------------------------------
(* Types, and what each frame is taken for.                                *)

TypedAt(c) == {typed[c][k].text : k \in 1 .. Len(typed[c])}

\* The stage the thread is at, and the stage the client's next frame is for.
Stage(c) == IF pc[c] \in {"hello", "tel", "text"} THEN pc[c] ELSE "cmd"
Typing(c) == IF cli[c] \in {"tel", "text"} THEN cli[c] ELSE "cmd"

Parses(c, at) ==
  /\ IsParse(c2s[c], at, TypedAt(c))
  /\ at[0] = Stage(c)
  /\ cli[c] # "off" => at[Len(c2s[c])] = Typing(c)

\* Thread and client agree on what every frame is: a phone is never taken for a
\* command, nor a text for either.
StreamOf(c) ==
  /\ pc[c] = "none" => c2s[c] = <<>>
  /\ pc[c] # "none" => \E at \in Labels(c2s[c]) : Parses(c, at)

\* The command a thread is at work on; it reads the file from its first record.
CommandOf(c) ==
  /\ pos[c] # 0
  /\ pc[c] \in {"hello", "none"} => slot[c] = FreshSlot
  /\ pc[c] \in {"tel", "text", "append"} => slot[c].cmd = "post"
  /\ pc[c] = "scan" => slot[c].cmd = "view"
  /\ pc[c] = "wait" => slot[c].cmd \in {"post", "view"}

\* Only texts that users typed, and what a stack slot held, get into the file.
TextsOf(c) ==
  /\ slot[c].text = Fill \/ slot[c].text \in TypedAt(c)
  /\ cli[c] \in {"tel", "text"} => typed[c] # <<>>

OfClient(c) == StreamOf(c) /\ CommandOf(c) /\ TextsOf(c)

TypeInv == TypeOK /\ \A c \in Clients : OfClient(c)

LEMMA TypedTexts ==
  ASSUME TypeOK, NEW c \in Clients
  PROVE  TypedAt(c) \subseteq Texts \cup {End}
<1>1. typed[c] \in Seq(Messages)
  BY DEF TypeOK
<1>2. \A k \in 1 .. Len(typed[c]) : typed[c][k] \in Messages
  BY <1>1
<1> QED
  BY <1>2 DEF TypedAt, Messages

\* An action of one connection leaves every other as it is.
LEMMA OthersUntouched ==
  ASSUME TypeOK, NEW c \in Clients, NEW d \in Clients, c # d,
         Acquire(c) \/ ThreadStep(c) \/ ClientStep(c)
  PROVE  /\ pc'[d] = pc[d] /\ cTel'[d] = cTel[d] /\ slot'[d] = slot[d]
         /\ isOpen'[d] = isOpen[d] /\ pos'[d] = pos[d] /\ sent'[d] = sent[d]
         /\ repeats'[d] = repeats[d] /\ (d \in failed' <=> d \in failed) /\ c2s'[d] = c2s[d] /\ s2c'[d] = s2c[d]
         /\ cli'[d] = cli[d] /\ shown'[d] = shown[d] /\ typed'[d] = typed[d]
<1> USE DEF TypeOK, serverVars, clientVars, Goto, Received, NotReceived, Send, Put, StartClient
<1>1. CASE Acquire(c)
  BY <1>1 DEF Acquire
<1>2. CASE ThreadStep(c)
  <2>1. CASE Hello(c) \/ RecvCmd(c)
    BY <2>1 DEF Hello, RecvCmd
  <2>2. CASE RecvTel(c) \/ RecvText(c)
    BY <2>2 DEF RecvTel, RecvText
  <2>3. CASE AppendRecord(c) \/ Unlock(c)
    BY <2>3 DEF AppendRecord, Unlock
  <2>4. CASE ReadRecord(c)
    BY <2>4 DEF ReadRecord
  <2>5. CASE EndOfFile(c)
    BY <2>5 DEF EndOfFile
  <2> QED
    BY <1>2, <2>1, <2>2, <2>3, <2>4, <2>5 DEF ThreadStep
<1>3. CASE ClientStep(c)
  <2>1. CASE Refuse(c) \/ \E p \in Phones : Connect(c, p)
    BY <2>1 DEF Refuse, Connect
  <2>2. CASE \E p \in Phones : \E t \in NextTexts : ChoosePost(c, p, t)
    BY <2>2 DEF ChoosePost
  <2>3. CASE TypeTel(c) \/ TypeText(c) \/ ChooseView(c)
    BY <2>3 DEF TypeTel, TypeText, ChooseView
  <2>4. CASE Leave(c) \/ Mistype(c) \/ Receive(c)
    BY <2>4 DEF Leave, Mistype, Receive
  <2>5. CASE Kill(c)
    BY <2>5 DEF Kill
  <2> QED
    BY <1>3, <2>1, <2>2, <2>3, <2>4, <2>5 DEF ClientStep
<1> QED
  BY <1>1, <1>2, <1>3

LEMMA Elsewhere ==
  ASSUME NEW d \in Clients, OfClient(d), pc'[d] = pc[d], slot'[d] = slot[d],
         pos'[d] = pos[d], c2s'[d] = c2s[d], cli'[d] = cli[d], typed'[d] = typed[d]
  PROVE  OfClient(d)'
  BY DEF OfClient, StreamOf, CommandOf, TextsOf, Parses, TypedAt, Stage, Typing

\* send keeps the frames under way well typed and within the buffer.
LEMMA SendType ==
  ASSUME TypeOK, NEW c \in Clients, NEW frame \in Texts \cup {End}, Send(c, frame)
  PROVE  /\ s2c' \in [Clients -> Seq(Texts \cup {End})]
         /\ \A d \in Clients : Len(s2c'[d]) <= SockBuf
<1>1. CASE cli[c] = "off"
  BY <1>1 DEF TypeOK, Send
<1>2. CASE cli[c] # "off"
  <2>1. Len(s2c[c]) < SockBuf /\ s2c' = [s2c EXCEPT ![c] = Append(@, frame)]
    BY <1>2 DEF Send
  <2>2. s2c[c] \in Seq(Texts \cup {End}) /\ Len(s2c[c]) \in Nat
    BY DEF TypeOK
  <2>3. /\ Append(s2c[c], frame) \in Seq(Texts \cup {End})
        /\ Len(Append(s2c[c], frame)) = Len(s2c[c]) + 1
    BY <2>2, AppendElements
  <2>4. Len(Append(s2c[c], frame)) <= SockBuf
    BY <2>1, <2>2, <2>3, YBAssumption
  <2>5. s2c \in [Clients -> Seq(Texts \cup {End})] /\ \A d \in Clients : Len(s2c[d]) <= SockBuf
    BY DEF TypeOK
  <2> QED
    BY <2>1, <2>3, <2>4, <2>5
<1> QED
  BY <1>1, <1>2

\* Closing a connection, or reading from it, does too.
LEMMA ShorterType ==
  ASSUME TypeOK, NEW c \in Clients, NEW q \in Seq(Texts \cup {End}), Len(q) <= Len(s2c[c]),
         s2c' = [s2c EXCEPT ![c] = q]
  PROVE  /\ s2c' \in [Clients -> Seq(Texts \cup {End})]
         /\ \A d \in Clients : Len(s2c'[d]) <= SockBuf
<1>1. s2c \in [Clients -> Seq(Texts \cup {End})] /\ \A d \in Clients : Len(s2c[d]) <= SockBuf
  BY DEF TypeOK
<1>2. Len(s2c[c]) \in Nat /\ Len(q) \in Nat
  BY <1>1
<1>3. Len(q) <= SockBuf
  BY <1>1, <1>2, YBAssumption
<1> QED
  BY <1>1, <1>3

LEMMA EmptyType ==
  ASSUME TypeOK, NEW c \in Clients, s2c' = [s2c EXCEPT ![c] = <<>>]
  PROVE  /\ s2c' \in [Clients -> Seq(Texts \cup {End})]
         /\ \A d \in Clients : Len(s2c'[d]) <= SockBuf
<1>1. s2c[c] \in Seq(Texts \cup {End})
  BY DEF TypeOK
<1>2. <<>> \in Seq(Texts \cup {End}) /\ Len(<<>>) <= Len(s2c[c])
  BY <1>1
<1> QED
  BY <1>2, ShorterType

LEMMA InitType == Init => TypeInv
<1> SUFFICES ASSUME Init PROVE TypeInv
  OBVIOUS
<1>1. FreshSlot \in [cmd : Commands, tel : Phones \cup {Fill}, text : Texts \cup {End, Fill}]
  BY DEF FreshSlot, Commands
<1>2. TypeOK
  BY <1>1, YBAssumption DEF Init, TypeOK, ThreadPCs, ClientPCs
<1>3. \A c \in Clients : OfClient(c)
  BY DEF Init, OfClient, StreamOf, CommandOf, TextsOf, FreshSlot
<1> QED
  BY <1>2, <1>3 DEF TypeInv

\* A thread receives the frame its stage is for.
LEMMA ReceivedFits ==
  ASSUME TypeInv, NEW c \in Clients, pc[c] # "none", Received(c)
  PROVE  /\ c2s' \in [Clients -> Seq(Phones \cup Commands \cup Texts \cup {End})]
         /\ c2s'[c] = Tail(c2s[c]) /\ failed' = failed
         /\ Fits(Stage(c), Head(c2s[c]), TypedAt(c))
         /\ \E at \in Labels(c2s'[c]) :
              /\ IsParse(c2s'[c], at, TypedAt(c))
              /\ at[0] = After(Stage(c), Head(c2s[c]))
              /\ cli[c] # "off" => at[Len(c2s'[c])] = Typing(c)
<1> DEFINE S == Phones \cup Commands \cup Texts \cup {End}
           q == c2s[c]
<1>1. c2s \in [Clients -> Seq(S)] /\ q \in Seq(S) /\ q # <<>> /\ failed' = failed
  BY DEF TypeInv, TypeOK, Received
<1>2. c2s' = [c2s EXCEPT ![c] = Tail(q)]
  BY DEF Received
<1>3. Tail(q) \in Seq(S) /\ c2s'[c] = Tail(q)
  BY <1>1, <1>2, TailElements
<1>4. PICK at \in Labels(q) : Parses(c, at)
  BY DEF TypeInv, OfClient, StreamOf
<1>5. /\ ParseTailOf(q, at) \in Labels(Tail(q))
      /\ IsParse(Tail(q), ParseTailOf(q, at), TypedAt(c))
      /\ Fits(at[0], Head(q), TypedAt(c))
      /\ ParseTailOf(q, at)[0] = After(at[0], Head(q))
      /\ ParseTailOf(q, at)[Len(Tail(q))] = at[Len(q)]
  <2> HIDE DEF S, q
  <2> QED
    BY <1>1, <1>4, ParseTail DEF Parses, q
<1> QED
  BY <1>1, <1>2, <1>3, <1>4, <1>5 DEF Parses

\* When the client has gone and nothing is left to receive, any stage will do.
LEMMA NotReceivedFits ==
  ASSUME TypeInv, NEW c \in Clients, NotReceived(c), NEW stage \in Stages
  PROVE  /\ c2s' = c2s /\ c2s[c] = <<>> /\ cli[c] = "off"
         /\ failed' \subseteq Clients
         /\ \E at \in Labels(c2s[c]) : IsParse(c2s[c], at, TypedAt(c)) /\ at[0] = stage
<1>1. c2s' = c2s /\ c2s[c] = <<>> /\ cli[c] = "off"
  BY DEF NotReceived
<1>2. failed' \subseteq Clients
  BY DEF NotReceived, TypeInv, TypeOK
<1>3. Len(c2s[c]) = 0
  BY <1>1
<1>4. [i \in 0 .. 0 |-> stage] \in Labels(c2s[c])
  BY <1>3 DEF Labels
<1>5. IsParse(c2s[c], [i \in 0 .. 0 |-> stage], TypedAt(c)) /\ [i \in 0 .. 0 |-> stage][0] = stage
  BY <1>3 DEF IsParse
<1> QED
  BY <1>1, <1>2, <1>4, <1>5

\* An action of one connection preserves TypeInv when it does so for its own part.
LEMMA TypeOfOne ==
  ASSUME TypeInv, NEW c \in Clients, Acquire(c) \/ ThreadStep(c) \/ ClientStep(c),
         TypeOK', OfClient(c)'
  PROVE  TypeInv'
<1>1. ASSUME NEW d \in Clients, d # c PROVE OfClient(d)'
  BY <1>1, OthersUntouched, Elsewhere DEF TypeInv
<1> QED
  BY <1>1 DEF TypeInv

\* A thread receives: each slot gets what it is meant for.
LEMMA ReceiveType ==
  ASSUME TypeInv, NEW c \in Clients, Hello(c) \/ RecvCmd(c) \/ RecvTel(c) \/ RecvText(c)
  PROVE  TypeInv'
<1> USE YBAssumption DEF clientVars
<1>0. /\ TypeOK /\ StreamOf(c) /\ CommandOf(c) /\ TextsOf(c)
      /\ pc \in [Clients -> ThreadPCs]
      /\ slot \in [Clients -> [cmd : Commands, tel : Phones \cup {Fill}, text : Texts \cup {End, Fill}]]
  BY DEF TypeInv, OfClient, TypeOK
<1>1. UNCHANGED <<typed, cli, pos>> /\ TypedAt(c)' = TypedAt(c) /\ Typing(c)' = Typing(c)
  BY DEF Hello, RecvCmd, RecvTel, RecvText, TypedAt, Typing
<1>2. CASE Hello(c)
  <2>0. pc[c] = "hello" /\ pc' = [pc EXCEPT ![c] = "cmd"] /\ slot' = slot
        /\ Stage(c) = "hello" /\ Stage(c)' = "cmd"
    BY <1>0, <1>2 DEF Hello, Goto, Stage
  <2>1. \A frame : After("hello", frame) = "cmd"
    BY DEF After
  <2>2. CASE Received(c) /\ cTel' = [cTel EXCEPT ![c] = Head(c2s[c])]
    <3>1. Head(c2s[c]) \in Phones
      BY <2>0, <2>2, ReceivedFits DEF Fits
    <3>2. TypeOK'
      BY <1>0, <1>2, <2>0, <2>2, <3>1, ReceivedFits DEF TypeOK, Hello, ThreadPCs
    <3>3. StreamOf(c)'
      BY <1>0, <1>1, <2>0, <2>1, <2>2, ReceivedFits DEF StreamOf, Parses
    <3>4. CommandOf(c)' /\ TextsOf(c)'
      BY <1>0, <1>1, <2>0 DEF CommandOf, TextsOf
    <3> QED
      BY <1>2, <3>2, <3>3, <3>4, TypeOfOne DEF ThreadStep, OfClient
  <2>3. CASE NotReceived(c) /\ UNCHANGED cTel
    <3>1. TypeOK'
      BY <1>0, <1>2, <2>0, <2>3, NotReceivedFits DEF TypeOK, Hello, ThreadPCs, Stages
    <3>2. StreamOf(c)'
      BY <1>0, <1>1, <2>0, <2>3, NotReceivedFits DEF StreamOf, Parses, Stages
    <3>3. CommandOf(c)' /\ TextsOf(c)'
      BY <1>0, <1>1, <2>0 DEF CommandOf, TextsOf
    <3> QED
      BY <1>2, <3>1, <3>2, <3>3, TypeOfOne DEF ThreadStep, OfClient
  <2> QED
    BY <1>2, <2>2, <2>3 DEF Hello
<1>3. CASE RecvCmd(c)
  <2>1. PICK command \in Commands :
          /\ \/ Received(c) /\ command = Head(c2s[c]) /\ UNCHANGED repeats
             \/ /\ NotReceived(c) /\ command = slot[c].cmd
                /\ repeats' = [repeats EXCEPT ![c] = IF command = "post" /\ ~Tired(c) THEN @ + 1 ELSE @]
          /\ Goto(c, "cmd", Case(command))
          /\ slot' = [slot EXCEPT ![c] = IF Case(command) = "none" THEN FreshSlot
                                                                 ELSE [@ EXCEPT !.cmd = command]]
    BY <1>3 DEF RecvCmd
  <2>2. /\ pc[c] = "cmd" /\ Stage(c) = "cmd" /\ pc' = [pc EXCEPT ![c] = Case(command)]
        /\ UNCHANGED <<file, owner, cTel, isOpen, pos, sent, s2c, shown>>
    BY <1>3, <2>1 DEF RecvCmd, Goto, Stage
  <2>3. /\ command = "post" => Case(command) = "tel"
        /\ command = "view" => Case(command) = "wait"
        /\ command = "quit" => Case(command) = "none"
        /\ Case(command) \in {"tel", "wait", "none"}
    BY DEF Case, Commands
  <2>4. /\ slot' \in [Clients -> [cmd : Commands, tel : Phones \cup {Fill}, text : Texts \cup {End, Fill}]]
        /\ slot'[c].text = Fill \/ slot'[c].text = slot[c].text
        /\ Case(command) = "none" => slot'[c] = FreshSlot
        /\ Case(command) # "none" => slot'[c].cmd = command
    BY <1>0, <2>1 DEF FreshSlot, Commands
  <2>5. /\ c2s' \in [Clients -> Seq(Phones \cup Commands \cup Texts \cup {End})]
        /\ failed' \subseteq Clients
    <3>1. CASE Received(c)
      BY <1>0, <2>2, <3>1, ReceivedFits DEF TypeOK
    <3>2. CASE NotReceived(c)
      BY <1>0, <3>2, NotReceivedFits DEF TypeOK, Stages
    <3> QED
      BY <2>1, <3>1, <3>2
  <2>5a. repeats' \in [Clients -> 0 .. MaxRepeats + 1]
    <3>1. repeats \in [Clients -> 0 .. MaxRepeats + 1] /\ repeats[c] \in 0 .. MaxRepeats + 1
      BY <1>0 DEF TypeOK
    <3>2. ~Tired(c) => repeats[c] + 1 \in 0 .. MaxRepeats + 1
      BY <3>1 DEF Tired
    <3> QED
      BY <2>1, <3>1, <3>2
  <2>6. TypeOK'
    BY <1>0, <1>1, <2>2, <2>3, <2>4, <2>5, <2>5a DEF TypeOK, ThreadPCs
  <2>7. pc'[c] = Case(command)
    BY <1>0, <2>2
  <2>8. StreamOf(c)'
    <3>1. /\ command = "post" => Stage(c)' = "tel"
          /\ command = "view" => Stage(c)' = "cmd"
      BY <2>3, <2>7 DEF Stage
    <3>2. CASE Received(c) /\ command = Head(c2s[c])
      <4>1. PICK at \in Labels(c2s'[c]) :
              /\ IsParse(c2s'[c], at, TypedAt(c))
              /\ at[0] = After("cmd", command)
              /\ cli[c] # "off" => at[Len(c2s'[c])] = Typing(c)
        BY <2>2, <3>2, ReceivedFits
      <4>2. CASE command # "quit"
        BY <1>1, <2>3, <2>7, <3>1, <4>1, <4>2 DEF After, StreamOf, Parses, Commands
      <4>3. CASE command = "quit"
        <5>1. at[0] = "end"
          BY <4>1, <4>3 DEF After
        <5>2. ~ (1 \in 1 .. Len(c2s'[c]))
          BY <4>1, <5>1 DEF IsParse, Fits
        <5>3. c2s'[c] \in Seq(Phones \cup Commands \cup Texts \cup {End})
          BY <2>5
        <5>4. c2s'[c] = <<>>
          BY <5>2, <5>3
        <5> QED
          BY <2>3, <2>7, <4>3, <5>4 DEF StreamOf
      <4> QED
        BY <4>2, <4>3
    <3>3. CASE NotReceived(c)
      <4>1. c2s'[c] = <<>> /\ cli[c] = "off"
        BY <3>3, NotReceivedFits DEF Stages
      <4>2. \A stage \in Stages : \E at \in Labels(c2s'[c]) :
               IsParse(c2s'[c], at, TypedAt(c)) /\ at[0] = stage
        BY <3>3, NotReceivedFits
      <4>3. Stage(c)' \in Stages
        BY DEF Stage, Stages
      <4> QED
        BY <1>1, <4>1, <4>2, <4>3 DEF StreamOf, Parses
    <3> QED
      BY <2>1, <3>2, <3>3
  <2>9. CommandOf(c)' /\ TextsOf(c)'
    BY <1>0, <1>1, <2>3, <2>4, <2>7 DEF CommandOf, TextsOf, Commands
  <2> QED
    BY <1>3, <2>6, <2>8, <2>9, TypeOfOne DEF ThreadStep, OfClient
<1>4. CASE RecvTel(c)
  <2>0. pc[c] = "tel" /\ pc' = [pc EXCEPT ![c] = "text"] /\ Stage(c) = "tel" /\ Stage(c)' = "text"
    BY <1>0, <1>4 DEF RecvTel, Goto, Stage
  <2>1. \A frame : After("tel", frame) = "text"
    BY DEF After
  <2>2. CASE Received(c) /\ slot' = [slot EXCEPT ![c].tel = Head(c2s[c])]
    <3>1. Head(c2s[c]) \in Phones
      BY <2>0, <2>2, ReceivedFits DEF Fits
    <3>2. /\ slot' \in [Clients -> [cmd : Commands, tel : Phones \cup {Fill}, text : Texts \cup {End, Fill}]]
          /\ slot'[c].cmd = slot[c].cmd /\ slot'[c].text = slot[c].text
      BY <1>0, <2>2, <3>1
    <3>3. TypeOK'
      BY <1>0, <1>4, <2>0, <2>2, <3>2, ReceivedFits DEF TypeOK, RecvTel, ThreadPCs
    <3>4. StreamOf(c)'
      BY <1>0, <1>1, <2>0, <2>1, <2>2, ReceivedFits DEF StreamOf, Parses
    <3>5. CommandOf(c)' /\ TextsOf(c)'
      BY <1>0, <1>1, <2>0, <3>2 DEF CommandOf, TextsOf
    <3> QED
      BY <1>4, <3>3, <3>4, <3>5, TypeOfOne DEF ThreadStep, OfClient
  <2>3. CASE NotReceived(c) /\ UNCHANGED slot
    <3>1. TypeOK'
      BY <1>0, <1>4, <2>0, <2>3, NotReceivedFits DEF TypeOK, RecvTel, ThreadPCs, Stages
    <3>2. StreamOf(c)'
      BY <1>0, <1>1, <2>0, <2>3, NotReceivedFits DEF StreamOf, Parses, Stages
    <3>3. CommandOf(c)' /\ TextsOf(c)'
      BY <1>0, <1>1, <2>0, <2>3 DEF CommandOf, TextsOf
    <3> QED
      BY <1>4, <3>1, <3>2, <3>3, TypeOfOne DEF ThreadStep, OfClient
  <2> QED
    BY <1>4, <2>2, <2>3 DEF RecvTel
<1>5. CASE RecvText(c)
  <2>0. pc[c] = "text" /\ pc' = [pc EXCEPT ![c] = "wait"] /\ Stage(c) = "text" /\ Stage(c)' = "cmd"
    BY <1>0, <1>5 DEF RecvText, Goto, Stage
  <2>1. \A frame : After("text", frame) = "cmd"
    BY DEF After
  <2>2. CASE Received(c) /\ slot' = [slot EXCEPT ![c].text = Head(c2s[c])]
    <3>1. Head(c2s[c]) \in TypedAt(c) /\ Head(c2s[c]) \in Texts \cup {End}
      BY <1>0, <2>0, <2>2, ReceivedFits, TypedTexts DEF Fits
    <3>2. /\ slot' \in [Clients -> [cmd : Commands, tel : Phones \cup {Fill}, text : Texts \cup {End, Fill}]]
          /\ slot'[c].cmd = slot[c].cmd /\ slot'[c].text = Head(c2s[c])
      BY <1>0, <2>2, <3>1
    <3>3. TypeOK'
      BY <1>0, <1>5, <2>0, <2>2, <3>2, ReceivedFits DEF TypeOK, RecvText, ThreadPCs
    <3>4. StreamOf(c)'
      BY <1>0, <1>1, <2>0, <2>1, <2>2, ReceivedFits DEF StreamOf, Parses
    <3>5. CommandOf(c)' /\ TextsOf(c)'
      BY <1>0, <1>1, <2>0, <3>1, <3>2 DEF CommandOf, TextsOf
    <3> QED
      BY <1>5, <3>3, <3>4, <3>5, TypeOfOne DEF ThreadStep, OfClient
  <2>3. CASE NotReceived(c) /\ UNCHANGED slot
    <3>1. TypeOK'
      BY <1>0, <1>5, <2>0, <2>3, NotReceivedFits DEF TypeOK, RecvText, ThreadPCs, Stages
    <3>2. StreamOf(c)'
      BY <1>0, <1>1, <2>0, <2>3, NotReceivedFits DEF StreamOf, Parses, Stages
    <3>3. CommandOf(c)' /\ TextsOf(c)'
      BY <1>0, <1>1, <2>0, <2>3 DEF CommandOf, TextsOf
    <3> QED
      BY <1>5, <3>1, <3>2, <3>3, TypeOfOne DEF ThreadStep, OfClient
  <2> QED
    BY <1>5, <2>2, <2>3 DEF RecvText
<1> QED
  BY <1>2, <1>3, <1>4, <1>5

\* A thread works on the file: nothing is received meanwhile.
LEMMA FileType ==
  ASSUME TypeInv, NEW c \in Clients,
         Acquire(c) \/ AppendRecord(c) \/ ReadRecord(c) \/ EndOfFile(c) \/ Unlock(c)
  PROVE  TypeInv'
<1> USE YBAssumption DEF clientVars
<1>0. /\ TypeOK /\ StreamOf(c) /\ CommandOf(c) /\ TextsOf(c) /\ pc \in [Clients -> ThreadPCs]
      /\ slot[c] \in [cmd : Commands, tel : Phones \cup {Fill}, text : Texts \cup {End, Fill}]
  BY DEF TypeInv, OfClient, TypeOK
<1>1. UNCHANGED <<cTel, slot, repeats, failed, c2s, cli, typed, shown>>
  BY DEF Acquire, AppendRecord, ReadRecord, EndOfFile, Unlock
<1>2. /\ pc[c] \in {"wait", "append", "scan", "unlock"}
      /\ pc'[c] \in {"append", "scan", "unlock", "cmd"}
      /\ pc' \in [Clients -> ThreadPCs]
  BY <1>0 DEF Acquire, AppendRecord, ReadRecord, EndOfFile, Unlock, Goto, ThreadPCs
<1>3. Stage(c) = "cmd" /\ Stage(c)' = "cmd" /\ TypedAt(c)' = TypedAt(c) /\ Typing(c)' = Typing(c)
  BY <1>1, <1>2 DEF Stage, TypedAt, Typing
<1>4. StreamOf(c)' /\ TextsOf(c)'
  BY <1>0, <1>1, <1>2, <1>3 DEF StreamOf, Parses, TextsOf
<1>5. CommandOf(c)'
  <2>1. pos[c] \in Nat \ {0} /\ pos \in [Clients -> Nat]
    BY <1>0 DEF CommandOf, TypeOK
  <2>2. pos'[c] \in {1, pos[c], pos[c] + 1}
    BY <2>1 DEF Acquire, AppendRecord, ReadRecord, EndOfFile, Unlock
  <2>3. pos'[c] # 0
    BY <2>1, <2>2
  <2> QED
    BY <1>0, <1>1, <1>2, <2>3 DEF CommandOf, Acquire, AppendRecord, ReadRecord, EndOfFile, Unlock, Goto
<1>6. TypeOK'
  <2>1. CASE Acquire(c)
    BY <1>0, <1>1, <1>2, <2>1 DEF TypeOK, Acquire
  <2>2. CASE AppendRecord(c)
    <3>1. [tel |-> slot[c].tel, text |-> slot[c].text] \in Records
      BY <1>0 DEF Records
    <3>2. file' \in Seq(Records)
      BY <1>0, <2>2, <3>1, AppendElements DEF TypeOK, AppendRecord
    <3> QED
      BY <1>0, <1>1, <1>2, <2>2, <3>2 DEF TypeOK, AppendRecord
  <2>3. CASE ReadRecord(c)
    <3>1. /\ file \in Seq(Records) /\ pos[c] \in 1 .. Len(file) /\ file[pos[c]].text # Fill
          /\ pos' = [pos EXCEPT ![c] = @ + 1] /\ UNCHANGED <<file, owner, isOpen>>
      BY <1>0, <2>3 DEF TypeOK, ReadRecord, Unreadable, CommandOf
    <3>2. pos' \in [Clients -> Nat]
      BY <1>0, <3>1 DEF TypeOK
    <3>3. file[pos[c]].text \in Texts \cup {End}
      <4>1. file[pos[c]] \in Records
        BY <3>1
      <4> QED
        BY <3>1, <4>1 DEF Records
    <3>4. /\ s2c' \in [Clients -> Seq(Texts \cup {End})]
          /\ \A d \in Clients : Len(s2c'[d]) <= SockBuf
          /\ sent' \in [Clients -> SUBSET Nat]
      <4>1. CASE Send(c, file[pos[c]].text) /\ sent' = [sent EXCEPT ![c] = @ \cup {pos[c]}]
        <5>1. sent \in [Clients -> SUBSET Nat] /\ sent[c] \cup {pos[c]} \in SUBSET Nat
          BY <1>0, <3>1 DEF TypeOK
        <5> QED
          BY <1>0, <3>3, <4>1, <5>1, SendType
      <4>2. CASE UNCHANGED <<s2c, sent>>
        BY <1>0, <4>2 DEF TypeOK
      <4> QED
        BY <2>3, <4>1, <4>2 DEF ReadRecord
    <3> QED
      BY <1>0, <1>1, <1>2, <3>1, <3>2, <3>4 DEF TypeOK
  <2>4. CASE EndOfFile(c)
    BY <1>0, <1>1, <1>2, <2>4, SendType DEF TypeOK, EndOfFile
  <2>5. CASE Unlock(c)
    BY <1>0, <1>1, <1>2, <2>5 DEF TypeOK, Unlock
  <2> QED
    BY <2>1, <2>2, <2>3, <2>4, <2>5
<1> QED
  BY <1>4, <1>5, <1>6, TypeOfOne DEF ThreadStep, OfClient

\* A client sends the frame its stage is for.
LEMMA PutFits ==
  ASSUME TypeInv, NEW c \in Clients, cli[c] # "off", NEW texts, TypedAt(c) \subseteq texts,
         NEW frame \in Phones \cup Commands \cup Texts \cup {End},
         Fits(Typing(c), frame, texts), Put(c, frame)
  PROVE  /\ c2s' \in [Clients -> Seq(Phones \cup Commands \cup Texts \cup {End})]
         /\ pc[c] = "none" => c2s'[c] = <<>>
         /\ pc[c] # "none" =>
              \E at \in Labels(c2s'[c]) :
                /\ IsParse(c2s'[c], at, texts)
                /\ at[0] = Stage(c) /\ at[Len(c2s'[c])] = After(Typing(c), frame)
<1> DEFINE S == Phones \cup Commands \cup Texts \cup {End}
           q == c2s[c]
<1>1. c2s \in [Clients -> Seq(S)] /\ q \in Seq(S) /\ StreamOf(c)
  BY DEF TypeInv, TypeOK, OfClient
<1>2. CASE pc[c] = "none"
  BY <1>1, <1>2 DEF Put, StreamOf
<1>3. CASE pc[c] # "none"
  <2>1. c2s' = [c2s EXCEPT ![c] = Append(q, frame)]
    BY <1>3 DEF Put
  <2>2. Append(q, frame) \in Seq(S) /\ Len(q) \in Nat
    BY <1>1, AppendElements
  <2>3. c2s' \in [Clients -> Seq(S)] /\ c2s'[c] = Append(q, frame)
    BY <1>1, <2>1, <2>2
  <2>4. PICK at \in Labels(q) : Parses(c, at)
    BY <1>1, <1>3 DEF StreamOf
  <2>5. IsParse(q, at, texts) /\ at[0] = Stage(c) /\ at[Len(q)] = Typing(c)
    BY <2>4, ParseMore DEF Parses
  <2> DEFINE new == ParseAppendOf(q, at, frame)
  <2>6. /\ new \in Labels(Append(q, frame)) /\ IsParse(Append(q, frame), new, texts)
        /\ \A i \in 0 .. Len(q) : new[i] = at[i]
        /\ new[Len(Append(q, frame))] = After(Typing(c), frame)
    <3>1. frame \in S
      OBVIOUS
    <3>2. Fits(at[Len(q)], frame, texts)
      BY <2>5
    <3>3. IsParse(q, at, texts) /\ q \in Seq(S) /\ at \in Labels(q)
      BY <1>1, <2>4, <2>5
    <3> HIDE DEF S, q, new
    <3>4. /\ ParseAppendOf(q, at, frame) \in Labels(Append(q, frame))
          /\ IsParse(Append(q, frame), ParseAppendOf(q, at, frame), texts)
          /\ \A i \in 0 .. Len(q) : ParseAppendOf(q, at, frame)[i] = at[i]
          /\ ParseAppendOf(q, at, frame)[Len(Append(q, frame))] = After(at[Len(q)], frame)
      BY <3>1, <3>2, <3>3, ParseAppend, ZenonT(60)
    <3> QED
      BY <2>5, <3>4 DEF new
  <2>7. new[0] = Stage(c)
    BY <2>2, <2>5, <2>6
  <2> QED
    BY <1>3, <2>3, <2>6, <2>7
<1> QED
  BY <1>2, <1>3

\* A user at work on a message has one in mind.
LEMMA ComposedFits ==
  ASSUME TypeInv, NEW c \in Clients, cli[c] \in {"tel", "text"}
  PROVE  /\ Composed(c).tel \in Phones /\ Composed(c).text \in TypedAt(c)
         /\ Composed(c).text \in Texts \cup {End}
<1>1. typed[c] \in Seq(Messages) /\ typed[c] # <<>>
  BY DEF TypeInv, TypeOK, OfClient, TextsOf
<1>2. Len(typed[c]) \in 1 .. Len(typed[c]) /\ typed[c][Len(typed[c])] \in Messages
  BY <1>1
<1> QED
  BY <1>2 DEF Composed, TypedAt, Messages

\* The user's part of the state is well typed, whatever the client does.
LEMMA ClientType ==
  ASSUME TypeInv, NEW c \in Clients, ClientStep(c)
  PROVE  TypeInv'
<1> USE YBAssumption DEF serverVars
<1>0. /\ TypeOK /\ StreamOf(c) /\ CommandOf(c) /\ TextsOf(c) /\ pc \in [Clients -> ThreadPCs]
      /\ cli \in [Clients -> ClientPCs] /\ typed \in [Clients -> Seq(Messages)]
  BY DEF TypeInv, OfClient, TypeOK
<1>1. SUFFICES TypeOK' /\ StreamOf(c)' /\ CommandOf(c)' /\ TextsOf(c)'
  BY TypeOfOne DEF OfClient
<1>2. ASSUME NEW p \in Phones, Connect(c, p)
      PROVE  TypeOK' /\ StreamOf(c)' /\ CommandOf(c)' /\ TextsOf(c)'
  <2>1. /\ pc[c] = "none" /\ pc' = [pc EXCEPT ![c] = "hello"] /\ pc'[c] = "hello"
        /\ cli' = [cli EXCEPT ![c] = "menu"] /\ cli'[c] = "menu"
        /\ c2s' = [c2s EXCEPT ![c] = <<p>>] /\ c2s'[c] = <<p>>
        /\ slot'[c] = FreshSlot /\ UNCHANGED <<typed, pos>>
    BY <1>0, <1>2 DEF Connect, StartClient, Goto, TypeOK
  <2>2. TypeOK'
    <3>1. FreshSlot \in [cmd : Commands, tel : Phones \cup {Fill}, text : Texts \cup {End, Fill}]
      BY DEF FreshSlot, Commands
    <3>2. s2c' = [s2c EXCEPT ![c] = <<>>]
      BY <1>2 DEF Connect, StartClient
    <3>3. c2s' \in [Clients -> Seq(Phones \cup Commands \cup Texts \cup {End})]
      BY <1>0, <2>1 DEF TypeOK
    <3>4. shown' \in [Clients -> Seq(Texts \cup {End})]
      BY <1>0, <1>2 DEF TypeOK, Connect, StartClient
    <3>5. /\ s2c' \in [Clients -> Seq(Texts \cup {End})]
          /\ \A d \in Clients : Len(s2c'[d]) <= SockBuf
      BY <1>0, <3>2, EmptyType
    <3> QED
      BY <1>0, <1>2, <2>1, <3>1, <3>3, <3>4, <3>5 DEF TypeOK, Connect, ThreadPCs, ClientPCs
  <2>3. CommandOf(c)' /\ TextsOf(c)'
    BY <1>0, <2>1 DEF CommandOf, TextsOf, FreshSlot
  <2>4. StreamOf(c)'
    <3> DEFINE at == [i \in 0 .. 1 |-> IF i = 0 THEN "hello" ELSE "cmd"]
    <3>1. at \in Labels(c2s'[c])
      BY <2>1 DEF Labels, Stages
    <3>2. Len(c2s'[c]) = 1 /\ c2s'[c][1] = p /\ at[0] = "hello" /\ at[1] = "cmd"
      BY <2>1
    <3> HIDE DEF at
    <3>3. IsParse(c2s'[c], at, TypedAt(c)')
      <4>1. ASSUME NEW i \in 1 .. Len(c2s'[c]) PROVE i = 1 /\ i - 1 = 0
        BY <3>2
      <4> QED
        BY <3>2, <4>1 DEF IsParse, Fits, After
    <3>4. Stage(c)' = "hello" /\ Typing(c)' = "cmd"
      BY <2>1 DEF Stage, Typing
    <3> QED
      BY <2>1, <3>1, <3>2, <3>3, <3>4 DEF StreamOf, Parses
  <2> QED
    BY <2>2, <2>3, <2>4
<1>3. CASE Refuse(c)
  <2>1. TypeOK'
    <3>1. shown' \in [Clients -> Seq(Texts \cup {End})] /\ cli' \in [Clients -> ClientPCs]
      <4>1. shown' = [shown EXCEPT ![c] = <<>>] /\ cli' = [cli EXCEPT ![c] = "menu"]
        BY <1>3 DEF Refuse, StartClient
      <4>2. <<>> \in Seq(Texts \cup {End}) /\ shown \in [Clients -> Seq(Texts \cup {End})]
        BY <1>0 DEF TypeOK
      <4> QED
        BY <1>0, <4>1, <4>2 DEF ClientPCs
    <3>2. /\ s2c' \in [Clients -> Seq(Texts \cup {End})]
          /\ \A d \in Clients : Len(s2c'[d]) <= SockBuf
      BY <1>0, <1>3, EmptyType DEF Refuse, StartClient
    <3> QED
      BY <1>0, <1>3, <3>1, <3>2 DEF TypeOK, Refuse
  <2> QED
    BY <1>0, <1>3, <2>1 DEF Refuse, StartClient, StreamOf, CommandOf, TextsOf, TypedAt
<1>4. ASSUME NEW p \in Phones, NEW t \in NextTexts, ChoosePost(c, p, t)
      PROVE  TypeOK' /\ StreamOf(c)' /\ CommandOf(c)' /\ TextsOf(c)'
  <2> DEFINE m == [tel |-> p, text |-> t]
  <2>1. m \in Messages
    BY DEF Messages, NextTexts
  <2>2. /\ cli[c] = "menu" /\ cli' = [cli EXCEPT ![c] = "tel"] /\ cli'[c] = "tel"
        /\ typed' = [typed EXCEPT ![c] = Append(@, m)] /\ typed'[c] = Append(typed[c], m)
        /\ Put(c, "post") /\ UNCHANGED <<file, serverVars, s2c, shown>>
    BY <1>0, <1>4 DEF ChoosePost
  <2>3. /\ Append(typed[c], m) \in Seq(Messages)
        /\ Len(Append(typed[c], m)) = Len(typed[c]) + 1 /\ Len(typed[c]) \in Nat
        /\ \A k \in 1 .. Len(typed[c]) : Append(typed[c], m)[k] = typed[c][k]
    BY <1>0, <2>1, AppendElements
  <2>4. TypedAt(c) \subseteq TypedAt(c)'
    BY <2>2, <2>3 DEF TypedAt
  <2>5. Fits(Typing(c), "post", TypedAt(c)') /\ After(Typing(c), "post") = "tel"
        /\ Typing(c)' = "tel" /\ Stage(c)' = Stage(c)
    BY <2>2 DEF Fits, After, Typing, Stage, Commands
  <2>6. /\ c2s' \in [Clients -> Seq(Phones \cup Commands \cup Texts \cup {End})]
        /\ pc[c] = "none" => c2s'[c] = <<>>
        /\ pc[c] # "none" =>
             \E at \in Labels(c2s'[c]) :
               /\ IsParse(c2s'[c], at, TypedAt(c)')
               /\ at[0] = Stage(c) /\ at[Len(c2s'[c])] = "tel"
    BY <2>2, <2>4, <2>5, PutFits DEF Commands
  <2>7. StreamOf(c)'
    BY <2>2, <2>5, <2>6 DEF StreamOf, Parses
  <2>8. typed' \in [Clients -> Seq(Messages)] /\ typed'[c] # <<>>
    <3>1. Append(typed[c], m) # <<>>
      BY <2>3
    <3> HIDE DEF m
    <3> QED
      BY <1>0, <2>2, <2>3, <3>1
  <2>9. TypeOK'
    BY <1>0, <2>2, <2>6, <2>8 DEF TypeOK, ClientPCs
  <2> QED
    BY <1>0, <2>2, <2>4, <2>7, <2>8, <2>9 DEF CommandOf, TextsOf
<1>5. ASSUME NEW frame \in Phones \cup Commands \cup Texts \cup {End}, cli[c] # "off",
             Put(c, frame), UNCHANGED <<file, serverVars, typed>>,
             cli'[c] # "off" => After(Typing(c), frame) = Typing(c)', cli' \in [Clients -> ClientPCs],
             Fits(Typing(c), frame, TypedAt(c)), cli'[c] \in {"tel", "text"} => cli[c] \in {"tel", "text"},
             s2c' \in [Clients -> Seq(Texts \cup {End})], \A d \in Clients : Len(s2c'[d]) <= SockBuf,
             shown' \in [Clients -> Seq(Texts \cup {End})]
      PROVE  TypeOK' /\ StreamOf(c)' /\ CommandOf(c)' /\ TextsOf(c)'
  <2>1. TypedAt(c)' = TypedAt(c) /\ Stage(c)' = Stage(c)
    BY <1>5 DEF TypedAt, Stage
  <2>2. /\ c2s' \in [Clients -> Seq(Phones \cup Commands \cup Texts \cup {End})]
        /\ pc[c] = "none" => c2s'[c] = <<>>
        /\ pc[c] # "none" =>
             \E at \in Labels(c2s'[c]) :
               /\ IsParse(c2s'[c], at, TypedAt(c))
               /\ at[0] = Stage(c) /\ at[Len(c2s'[c])] = After(Typing(c), frame)
    BY <1>5, PutFits
  <2>3. StreamOf(c)'
    BY <1>5, <2>1, <2>2 DEF StreamOf, Parses
  <2>4. TypeOK'
    BY <1>0, <1>5, <2>2 DEF TypeOK
  <2>5. CommandOf(c)' /\ TextsOf(c)'
    BY <1>0, <1>5, <2>1 DEF CommandOf, TextsOf
  <2> QED
    BY <2>3, <2>4, <2>5
<1>6. cli[c] \in {"tel", "text"} =>
        /\ Composed(c).tel \in Phones /\ Composed(c).text \in TypedAt(c)
        /\ Composed(c).text \in Texts \cup {End}
  BY ComposedFits
<1>7. CASE TypeTel(c)
  <2>1. cli[c] = "tel" /\ cli' = [cli EXCEPT ![c] = "text"] /\ cli'[c] = "text"
    BY <1>0, <1>7 DEF TypeTel
  <2>2. After("tel", Composed(c).tel) = "text" /\ Typing(c) = "tel" /\ Typing(c)' = "text"
    BY <2>1 DEF After, Typing
  <2> QED
    <3>1. /\ Put(c, Composed(c).tel) /\ Fits(Typing(c), Composed(c).tel, TypedAt(c))
          /\ UNCHANGED <<file, serverVars, s2c, shown, typed>>
      BY <1>6, <1>7, <2>1, <2>2 DEF TypeTel, Fits
    <3>2. cli' \in [Clients -> ClientPCs]
      BY <1>0, <2>1 DEF ClientPCs
    <3> QED
      BY <1>0, <1>5, <1>6, <2>1, <2>2, <3>1, <3>2 DEF TypeOK
<1>8. CASE TypeText(c)
  <2>1. cli[c] = "text" /\ cli' = [cli EXCEPT ![c] = "menu"] /\ cli'[c] = "menu"
    BY <1>0, <1>8 DEF TypeText
  <2>2. After("text", Composed(c).text) = "cmd" /\ Typing(c) = "text" /\ Typing(c)' = "cmd"
    BY <2>1 DEF After, Typing
  <2> QED
    <3>1. /\ Put(c, Composed(c).text) /\ Fits(Typing(c), Composed(c).text, TypedAt(c))
          /\ UNCHANGED <<file, serverVars, s2c, shown, typed>>
      BY <1>6, <1>8, <2>1, <2>2 DEF TypeText, Fits
    <3>2. cli' \in [Clients -> ClientPCs]
      BY <1>0, <2>1 DEF ClientPCs
    <3> QED
      BY <1>0, <1>5, <1>6, <2>1, <2>2, <3>1, <3>2 DEF TypeOK
<1>9. CASE ChooseView(c)
  <2>1. cli[c] = "menu" /\ cli' = [cli EXCEPT ![c] = "view"] /\ cli'[c] = "view"
    BY <1>0, <1>9 DEF ChooseView
  <2>2. After("cmd", "view") = "cmd" /\ Typing(c) = "cmd" /\ Typing(c)' = "cmd"
    BY <2>1 DEF After, Typing
  <2> QED
    <3>1. /\ Put(c, "view") /\ Fits(Typing(c), "view", TypedAt(c)) /\ "view" \in Commands
          /\ UNCHANGED <<file, serverVars, s2c, typed>>
      BY <1>9, <2>2 DEF ChooseView, Fits, Commands
    <3>2. cli' \in [Clients -> ClientPCs]
      BY <1>0, <2>1 DEF ClientPCs
    <3>3. shown' \in [Clients -> Seq(Texts \cup {End})]
      BY <1>0, <1>9 DEF TypeOK, ChooseView
    <3> QED
      BY <1>0, <1>5, <2>1, <2>2, <3>1, <3>2, <3>3 DEF TypeOK
<1>10. CASE Leave(c)
  <2>1. /\ cli[c] = "menu" /\ cli' = [cli EXCEPT ![c] = "off"] /\ cli'[c] = "off"
        /\ Typing(c) = "cmd"
    BY <1>0, <1>10 DEF Leave, Typing
  <2>2. /\ s2c' \in [Clients -> Seq(Texts \cup {End})]
        /\ \A d \in Clients : Len(s2c'[d]) <= SockBuf
    BY <1>0, <1>10, EmptyType DEF Leave
  <2> QED
    <3>1. /\ Put(c, "quit") /\ Fits(Typing(c), "quit", TypedAt(c)) /\ "quit" \in Commands
          /\ UNCHANGED <<file, serverVars, shown, typed>>
      BY <1>10, <2>1 DEF Leave, Fits, Commands
    <3>2. cli' \in [Clients -> ClientPCs]
      BY <1>0, <2>1 DEF ClientPCs
    <3> QED
      BY <1>0, <1>5, <2>1, <2>2, <3>1, <3>2 DEF TypeOK
<1>11. CASE Mistype(c)
  <2>1. Typing(c)' = Typing(c) /\ Stage(c)' = Stage(c) /\ TypedAt(c)' = TypedAt(c)
        /\ cli'[c] = "wedged" /\ cli[c] = "menu"
    BY <1>0, <1>11 DEF Mistype, Typing, Stage, TypedAt
  <2>2. TypeOK'
    BY <1>0, <1>11 DEF TypeOK, Mistype, ClientPCs
  <2> QED
    BY <1>0, <1>11, <2>1, <2>2 DEF Mistype, StreamOf, CommandOf, TextsOf, Parses
<1>12. CASE Receive(c)
  <2>1. /\ cli[c] = "view" /\ cli'[c] \in {"view", "menu"} /\ UNCHANGED <<file, serverVars, c2s, typed>>
        /\ cli' \in [Clients -> ClientPCs]
    BY <1>0, <1>12 DEF Receive, ClientPCs
  <2>2. Typing(c)' = Typing(c) /\ Stage(c)' = Stage(c) /\ TypedAt(c)' = TypedAt(c)
    BY <2>1 DEF Typing, Stage, TypedAt
  <2>3. /\ s2c[c] \in Seq(Texts \cup {End}) /\ s2c[c] # <<>> /\ shown[c] \in Seq(Texts \cup {End})
        /\ s2c' = [s2c EXCEPT ![c] = Tail(s2c[c])]
    BY <1>0, <1>12 DEF TypeOK, Receive
  <2>4. /\ Tail(s2c[c]) \in Seq(Texts \cup {End}) /\ Len(Tail(s2c[c])) <= Len(s2c[c])
        /\ Append(shown[c], Head(s2c[c])) \in Seq(Texts \cup {End})
    BY <2>3, TailElements, AppendElements
  <2>5. s2c' \in [Clients -> Seq(Texts \cup {End})] /\ \A d \in Clients : Len(s2c'[d]) <= SockBuf
    BY <1>0, <2>3, <2>4, ShorterType
  <2>6. shown' \in [Clients -> Seq(Texts \cup {End})]
    BY <1>0, <1>12, <2>4 DEF TypeOK, Receive
  <2>7. TypeOK'
    BY <1>0, <2>1, <2>5, <2>6 DEF TypeOK
  <2> QED
    BY <1>0, <2>1, <2>2, <2>7 DEF StreamOf, CommandOf, TextsOf, Parses
<1>13. CASE Kill(c)
  <2>1. /\ cli'[c] = "off" /\ cli' \in [Clients -> ClientPCs] /\ cli[c] # "off"
        /\ UNCHANGED <<file, serverVars, shown, typed>>
        /\ Stage(c)' = Stage(c) /\ TypedAt(c)' = TypedAt(c)
    BY <1>0, <1>13 DEF Kill, ClientPCs, Stage, TypedAt
  <2>2. /\ s2c' \in [Clients -> Seq(Texts \cup {End})]
        /\ \A d \in Clients : Len(s2c'[d]) <= SockBuf
    BY <1>0, <1>13, EmptyType DEF Kill
  <2>3. /\ c2s' \in [Clients -> Seq(Phones \cup Commands \cup Texts \cup {End})]
        /\ StreamOf(c)'
    <3> DEFINE S == Phones \cup Commands \cup Texts \cup {End}
    <3>1. c2s \in [Clients -> Seq(S)] /\ c2s[c] \in Seq(S)
      BY <1>0 DEF TypeOK
    <3>2. CASE UNCHANGED c2s
      BY <1>0, <2>1, <3>1, <3>2 DEF StreamOf, Parses
    <3>3. ASSUME NEW n \in 0 .. Len(c2s[c]), c2s' = [c2s EXCEPT ![c] = SubSeq(c2s[c], 1, n)]
          PROVE  c2s' \in [Clients -> Seq(S)] /\ StreamOf(c)'
      <4>1. SubSeq(c2s[c], 1, n) \in Seq(S) /\ Len(SubSeq(c2s[c], 1, n)) = n
        BY <3>1, PrefixElements
      <4>2. c2s' \in [Clients -> Seq(S)] /\ c2s'[c] = SubSeq(c2s[c], 1, n)
        BY <3>1, <3>3, <4>1
      <4>3. CASE pc[c] = "none"
        <5>1. c2s[c] = <<>>
          BY <1>0, <4>3 DEF StreamOf
        <5>2. n = 0
          BY <5>1
        <5>3. c2s'[c] = <<>>
          BY <4>1, <4>2, <5>2
        <5> QED
          BY <2>1, <4>2, <4>3, <5>3 DEF StreamOf
      <4>4. CASE pc[c] # "none"
        <5>1. PICK at \in Labels(c2s[c]) : Parses(c, at)
          BY <1>0, <4>4 DEF StreamOf
        <5>2. PICK new \in Labels(SubSeq(c2s[c], 1, n)) :
                /\ IsParse(SubSeq(c2s[c], 1, n), new, TypedAt(c))
                /\ \A i \in 0 .. n : new[i] = at[i]
          <6> HIDE DEF S
          <6> QED
            BY <3>1, <5>1, ParsePrefix DEF Parses
        <5>3. new[0] = Stage(c)
          BY <5>1, <5>2 DEF Parses
        <5> QED
          BY <2>1, <4>2, <4>4, <5>2, <5>3 DEF StreamOf, Parses
      <4> QED
        BY <4>2, <4>3, <4>4
    <3> QED
      BY <1>13, <3>1, <3>2, <3>3 DEF Kill
  <2>4. TypeOK'
    BY <1>0, <2>1, <2>2, <2>3 DEF TypeOK
  <2> QED
    BY <1>0, <2>1, <2>3, <2>4 DEF CommandOf, TextsOf
<1> QED
  BY <1>2, <1>3, <1>4, <1>7, <1>8, <1>9, <1>10, <1>11, <1>12, <1>13 DEF ClientStep

LEMMA StepType == TypeInv /\ [Next]_vars => TypeInv'
<1> SUFFICES ASSUME TypeInv, [Next]_vars PROVE TypeInv'
  OBVIOUS
<1>1. CASE UNCHANGED vars
  <2>1. TypeOK'
    BY <1>1 DEF TypeInv, TypeOK, vars, serverVars, clientVars
  <2> QED
    BY <1>1, <2>1, Elsewhere DEF TypeInv, vars, serverVars, clientVars
<1> QED
  BY <1>1, ReceiveType, FileType, ClientType DEF Next, ThreadStep

\* Every variable keeps its type, and no connection ever has more frames under way
\* than it buffers: every frame is taken for what it was sent as.
THEOREM TypeCorrect == Spec => []TypeOK
<1>1. TypeInv => TypeOK
  BY DEF TypeInv
<1> QED
  BY <1>1, InitType, StepType, PTL DEF Spec

LEMMA TypeAlways == Spec => []TypeInv
  BY InitType, StepType, PTL DEF Spec

-----------------------------------------------------------------------------
LEMMA MutexStep == TypeOK /\ MutexHeld /\ [Next]_vars => MutexHeld'
<1> SUFFICES ASSUME TypeOK, MutexHeld, [Next]_vars PROVE MutexHeld'
  OBVIOUS
<1> USE YBAssumption
<1> USE DEF MutexHeld, Critical
<1>0. owner \in Clients \cup {NoThread} /\ pc \in [Clients -> ThreadPCs]
  BY DEF TypeOK
<1>1. CASE pc' = pc /\ owner' = owner
  BY <1>1
<1>2. ASSUME NEW c \in Clients, NEW from \in ThreadPCs, NEW to \in ThreadPCs,
             Goto(c, from, to), owner' = owner, from \in Critical <=> to \in Critical
      PROVE  MutexHeld'
  BY <1>0, <1>2 DEF Goto
<1>3. ASSUME NEW c \in Clients, ClientStep(c)
      PROVE  MutexHeld'
  <2>1. ASSUME NEW p \in Phones, Connect(c, p)
        PROVE  MutexHeld'
    BY <2>1, <1>2 DEF Connect, ThreadPCs
  <2> QED
    BY <1>1, <1>3, <2>1 DEF ClientStep, Refuse, ChoosePost, TypeTel, TypeText, ChooseView,
       Leave, Mistype, Receive, Kill, serverVars
<1>4. ASSUME NEW c \in Clients, ThreadStep(c)
      PROVE  MutexHeld'
  <2>1. CASE Unlock(c)
    BY <1>0, <2>1 DEF Unlock, Goto
  <2>2. CASE Hello(c) \/ RecvTel(c) \/ RecvText(c)
    BY <1>2, <2>2 DEF Hello, RecvTel, RecvText, ThreadPCs
  <2>3. CASE RecvCmd(c)
    BY <1>2, <2>3 DEF RecvCmd, Case, ThreadPCs
  <2>4. CASE AppendRecord(c) \/ EndOfFile(c)
    BY <1>2, <2>4 DEF AppendRecord, EndOfFile, ThreadPCs
  <2>5. CASE ReadRecord(c)
    BY <1>1, <2>5 DEF ReadRecord
  <2> QED
    BY <1>4, <2>1, <2>2, <2>3, <2>4, <2>5 DEF ThreadStep
<1>5. ASSUME NEW c \in Clients, Acquire(c)
      PROVE  MutexHeld'
  BY <1>0, <1>5 DEF Acquire, Goto
<1> QED
  BY <1>1, <1>3, <1>4, <1>5 DEF Next, vars, serverVars

\* fMutex excludes: messages.txt is read and extended by its owner alone, and no
\* thread ends owning it, whatever faults occur.
THEOREM MutualExclusion == Spec => []MutexHeld
<1>1. Init => MutexHeld
  BY YBAssumption DEF Init, MutexHeld, Critical
<1>2. TypeInv => TypeOK
  BY DEF TypeInv
<1> QED
  BY <1>1, <1>2, MutexStep, TypeAlways, PTL DEF Spec

-----------------------------------------------------------------------------
\* How far a view has come.
Selected(c) == {i \in 1 .. pos[c] - 1 : file[i].tel = cTel[c]}

ScanOf(c) ==
  /\ pos[c] \in 1 .. Len(file) + 1
  /\ sent[c] \subseteq 1 .. Len(file)
  /\ pc[c] = "scan" => sent[c] = Selected(c)
  /\ pc[c] \in {"scan", "unlock"} /\ slot[c].cmd = "view" =>
       \A j \in 1 .. pos[c] - 1 : ~Unreadable(file[j])
  /\ pc[c] = "unlock" /\ slot[c].cmd = "view" => AtEnd(c) /\ sent[c] = Selected(c)

ScanInv == \A c \in Clients : ScanOf(c)

\* The step of a thread that is at work on the file.
LEMMA ScanWorking ==
  ASSUME TypeInv, NEW c \in Clients, ScanOf(c),
         Acquire(c) \/ AppendRecord(c) \/ ReadRecord(c) \/ EndOfFile(c) \/ Unlock(c)
  PROVE  ScanOf(c)'
<1>0. /\ TypeOK /\ CommandOf(c) /\ file \in Seq(Records) /\ Len(file) \in Nat
      /\ pc \in [Clients -> ThreadPCs] /\ pos \in [Clients -> Nat] /\ sent \in [Clients -> SUBSET Nat]
      /\ isOpen \in [Clients -> BOOLEAN]
  <2>1. TypeOK /\ CommandOf(c)
    BY DEF TypeInv, OfClient
  <2>2. file \in Seq(Records)
    BY <2>1 DEF TypeOK
  <2>3. Len(file) \in Nat
    BY <2>2
  <2> QED
    BY <2>1, <2>2, <2>3 DEF TypeOK
<1>1. CASE Acquire(c)
  <2>1. /\ pos'[c] = 1 /\ UNCHANGED <<file, cTel, slot>>
        /\ pc[c] = "wait" /\ pc'[c] = IF slot[c].cmd = "post" THEN "append" ELSE "scan"
        /\ sent'[c] = IF slot[c].cmd = "view" THEN {} ELSE sent[c]
    BY <1>0, <1>1 DEF Acquire, Goto
  <2>2. pc'[c] = "scan" => sent'[c] = {}
    BY <1>0, <2>1 DEF CommandOf
  <2> QED
    BY <1>0, <2>1, <2>2 DEF ScanOf, Selected
<1>2. CASE AppendRecord(c)
  <2>1. /\ pc[c] = "append" /\ pc'[c] = "unlock" /\ slot[c].cmd = "post"
        /\ UNCHANGED <<slot, pos, sent>>
    BY <1>0, <1>2 DEF AppendRecord, Goto, CommandOf
  <2>2. Len(file') \in {Len(file), Len(file) + 1}
    <3>1. file' = file \/ file' = Append(file, [tel |-> slot[c].tel, text |-> slot[c].text])
      BY <1>2 DEF AppendRecord
    <3> QED
      BY <1>0, <3>1
  <2> QED
    BY <1>0, <2>1, <2>2 DEF ScanOf
<1>3. CASE ReadRecord(c)
  <2>1. /\ pc[c] = "scan" /\ pos[c] <= Len(file) /\ ~Unreadable(file[pos[c]])
        /\ pos' = [pos EXCEPT ![c] = @ + 1] /\ UNCHANGED <<file, pc, cTel, slot, isOpen>>
    BY <1>3 DEF ReadRecord
  <2>2. pos'[c] = pos[c] + 1 /\ pos[c] \in 1 .. Len(file)
    BY <1>0, <2>1 DEF ScanOf
  <2>3. sent'[c] = IF file[pos[c]].tel = cTel[c] THEN sent[c] \cup {pos[c]} ELSE sent[c]
    BY <1>0, <1>3 DEF ReadRecord
  <2>4. sent[c] = Selected(c) /\ sent[c] \subseteq 1 .. Len(file)
        /\ slot[c].cmd = "view" /\ \A j \in 1 .. pos[c] - 1 : ~Unreadable(file[j])
    BY <1>0, <2>1 DEF ScanOf, CommandOf
  <2>5. Selected(c)' = {i \in 1 .. pos[c] : file[i].tel = cTel[c]}
    BY <2>1, <2>2 DEF Selected
  <2>6. sent'[c] = Selected(c)'
    BY <2>2, <2>3, <2>4, <2>5 DEF Selected
  <2>7. \A j \in 1 .. pos'[c] - 1 : ~Unreadable(file[j])
    BY <2>1, <2>2, <2>4
  <2> QED
    BY <1>0, <2>1, <2>2, <2>3, <2>4, <2>6, <2>7 DEF ScanOf, Unreadable
<1>4. CASE EndOfFile(c)
  <2>1. /\ pc[c] = "scan" /\ pc'[c] = "unlock" /\ AtEnd(c) /\ slot[c].cmd = "view"
        /\ UNCHANGED <<file, cTel, slot, isOpen, pos, sent>>
    BY <1>0, <1>4 DEF EndOfFile, Goto, CommandOf
  <2> QED
    BY <2>1 DEF ScanOf, Selected, AtEnd, Unreadable
<1>5. CASE Unlock(c)
  <2>1. pc'[c] = "cmd" /\ pos'[c] = 1 /\ UNCHANGED <<file, sent>>
    BY <1>0, <1>5 DEF Unlock, Goto
  <2> QED
    BY <1>0, <2>1 DEF ScanOf
<1> QED
  BY <1>1, <1>2, <1>3, <1>4, <1>5

LEMMA ScanStep == TypeInv /\ MutexHeld /\ ScanInv /\ [Next]_vars => ScanInv'
<1> SUFFICES ASSUME TypeInv, MutexHeld, ScanInv, [Next]_vars, NEW d \in Clients
             PROVE  ScanOf(d)'
  BY DEF ScanInv
<1>0. ScanOf(d) /\ TypeOK /\ pc \in [Clients -> ThreadPCs] /\ file \in Seq(Records)
  BY DEF ScanInv, TypeInv, TypeOK
<1>1. ASSUME UNCHANGED <<file, pc[d], cTel[d], slot[d], isOpen[d], pos[d], sent[d]>>
      PROVE  ScanOf(d)'
  BY <1>0, <1>1 DEF ScanOf, Selected, AtEnd, Unreadable
<1>2. CASE UNCHANGED vars
  BY <1>1, <1>2 DEF vars, serverVars
<1>3. ASSUME NEW c \in Clients, c # d, Acquire(c) \/ ThreadStep(c) \/ ClientStep(c)
      PROVE  ScanOf(d)'
  <2>1. UNCHANGED <<pc[d], cTel[d], slot[d], isOpen[d], pos[d], sent[d]>>
    BY <1>0, <1>3, OthersUntouched
  <2>2. CASE AppendRecord(c)
    <3>1. pc[c] \in Critical /\ pc[d] \notin {"scan", "unlock"}
      BY <1>0, <1>3, <2>2 DEF MutexHeld, Critical, AppendRecord, Goto
    <3>2. file' = file \/ file' = Append(file, [tel |-> slot[c].tel, text |-> slot[c].text])
      BY <2>2 DEF AppendRecord
    <3>3. Len(file) \in Nat /\ Len(file') \in {Len(file), Len(file) + 1}
      BY <1>0, <3>2
    <3> QED
      BY <1>0, <2>1, <3>1, <3>3 DEF ScanOf
  <2>3. CASE file' = file
    BY <1>1, <2>1, <2>3
  <2> QED
    BY <1>3, <2>2, <2>3
    DEF Acquire, ThreadStep, Hello, RecvCmd, RecvTel, RecvText, ReadRecord, EndOfFile, Unlock,
        ClientStep, Connect, Refuse, ChoosePost, TypeTel, TypeText, ChooseView, Leave, Mistype,
        Receive, Kill
<1>4. ASSUME Hello(d) \/ RecvCmd(d) \/ RecvTel(d) \/ RecvText(d)
      PROVE  ScanOf(d)'
  <2>1. pc'[d] \notin {"scan", "unlock"} /\ UNCHANGED <<file, pos, sent>>
    BY <1>0, <1>4 DEF Hello, RecvCmd, Case, RecvTel, RecvText, Goto
  <2> QED
    BY <1>0, <2>1 DEF ScanOf
<1>5. ASSUME ClientStep(d)
      PROVE  ScanOf(d)'
  <2>1. ASSUME NEW p \in Phones, Connect(d, p)
        PROVE  ScanOf(d)'
    <3>1. pc'[d] = "hello" /\ sent'[d] = {} /\ UNCHANGED <<file, pos>>
      BY <1>0, <2>1 DEF Connect, Goto, TypeOK
    <3> QED
      BY <1>0, <3>1 DEF ScanOf
  <2> QED
    BY <1>1, <1>5, <2>1 DEF ClientStep, Refuse, ChoosePost, TypeTel, TypeText, ChooseView,
       Leave, Mistype, Receive, Kill, serverVars
<1> QED
  BY <1>0, <1>2, <1>3, <1>4, <1>5, ScanWorking DEF Next, ThreadStep, ScanInv

LEMMA ScanAlways == Spec => []ScanInv
<1>1. Init => ScanInv
  BY DEF Init, ScanInv, ScanOf
<1> QED
  BY <1>1, ScanStep, TypeAlways, MutualExclusion, PTL DEF Spec

\* A view in which the file could be opened answers with all the mail for the
\* caller that precedes the first record that cannot be read, however many threads
\* post meanwhile.
THEOREM ViewsAreComplete == Spec => []ViewComplete
<1>1. TypeInv /\ ScanInv => ViewComplete
  <2> SUFFICES ASSUME TypeInv, ScanInv, NEW c \in Clients,
                      pc[c] = "unlock", slot[c].cmd = "view", isOpen[c]
               PROVE  sent[c] = {i \in 1 .. Len(file) : /\ file[i].tel = cTel[c]
                                                        /\ \A j \in 1 .. i : ~Unreadable(file[j])}
    BY DEF ViewComplete
  <2>1. /\ pos[c] \in 1 .. Len(file) + 1 /\ Len(file) \in Nat
        /\ sent[c] = {i \in 1 .. pos[c] - 1 : file[i].tel = cTel[c]}
        /\ \A j \in 1 .. pos[c] - 1 : ~Unreadable(file[j])
        /\ pos[c] <= Len(file) => Unreadable(file[pos[c]])
    BY DEF ScanInv, ScanOf, Selected, AtEnd, TypeInv, TypeOK
  <2>2. ASSUME NEW i \in 1 .. Len(file), \A j \in 1 .. i : ~Unreadable(file[j])
        PROVE  i \in 1 .. pos[c] - 1
    BY <2>1, <2>2
  <2>3. ASSUME NEW i \in 1 .. pos[c] - 1
        PROVE  i \in 1 .. Len(file) /\ \A j \in 1 .. i : ~Unreadable(file[j])
    BY <2>1
  <2> QED
    BY <2>1, <2>2, <2>3
<1> QED
  BY <1>1, TypeAlways, ScanAlways, PTL

-----------------------------------------------------------------------------
(* The stages of a given parse, when a frame is received or sent.          *)

LEMMA ReceivedParse ==
  ASSUME TypeInv, NEW c \in Clients, Received(c), NEW at \in Labels(c2s[c]), Parses(c, at),
         cli'[c] = cli[c], typed'[c] = typed[c], Stage(c)' = After(Stage(c), Head(c2s[c]))
  PROVE  /\ c2s[c] \in Seq(Phones \cup Commands \cup Texts \cup {End})
         /\ Len(c2s[c]) \in Nat \ {0} /\ Len(c2s'[c]) = Len(c2s[c]) - 1
         /\ \A i \in 1 .. Len(c2s'[c]) : c2s'[c][i] = c2s[c][i + 1]
         /\ Head(c2s[c]) = c2s[c][1] /\ at[0] = Stage(c)
         /\ \E new \in Labels(c2s'[c]) :
              /\ Parses(c, new)'
              /\ \A i \in 0 .. Len(c2s'[c]) : new[i] = at[i + 1]
<1> DEFINE S == Phones \cup Commands \cup Texts \cup {End}
           q == c2s[c]
<1>1. c2s \in [Clients -> Seq(S)] /\ q \in Seq(S) /\ q # <<>>
  BY DEF TypeInv, TypeOK, Received
<1>2. c2s' = [c2s EXCEPT ![c] = Tail(q)]
  BY DEF Received
<1>3. c2s'[c] = Tail(q)
  BY <1>1, <1>2
<1>4. IsParse(q, at, TypedAt(c)) /\ at[0] = Stage(c) /\ at \in Labels(q)
      /\ (cli[c] # "off" => at[Len(q)] = Typing(c))
  BY DEF Parses
<1>5. TypedAt(c)' = TypedAt(c) /\ Typing(c)' = Typing(c)
  BY DEF TypedAt, Typing
<1>6. /\ Head(q) = q[1] /\ Len(q) \in Nat \ {0} /\ Len(Tail(q)) = Len(q) - 1
      /\ \A i \in 1 .. Len(Tail(q)) : Tail(q)[i] = q[i + 1]
  <2> HIDE DEF S, q
  <2> QED
    BY <1>1, TailElements
<1>7. /\ ParseTailOf(q, at) \in Labels(Tail(q))
      /\ IsParse(Tail(q), ParseTailOf(q, at), TypedAt(c))
      /\ ParseTailOf(q, at)[0] = After(at[0], Head(q))
      /\ ParseTailOf(q, at)[Len(Tail(q))] = at[Len(q)]
      /\ \A i \in 0 .. Len(Tail(q)) : ParseTailOf(q, at)[i] = at[i + 1]
  <2> HIDE DEF S, q
  <2> QED
    BY <1>1, <1>4, ParseTail
<1>8. \E new \in Labels(c2s'[c]) :
        /\ IsParse(c2s'[c], new, TypedAt(c)) /\ new[0] = After(Stage(c), Head(q))
        /\ (cli[c] # "off" => new[Len(c2s'[c])] = Typing(c))
        /\ \A i \in 0 .. Len(c2s'[c]) : new[i] = at[i + 1]
  BY <1>3, <1>4, <1>7
<1> QED
  BY <1>1, <1>3, <1>4, <1>5, <1>6, <1>8 DEF Parses

LEMMA PutParse ==
  ASSUME TypeInv, NEW c \in Clients, pc[c] # "none", cli[c] # "off",
         NEW at \in Labels(c2s[c]), Parses(c, at),
         NEW frame \in Phones \cup Commands \cup Texts \cup {End}, Put(c, frame),
         TypedAt(c) \subseteq TypedAt(c)', Fits(Typing(c), frame, TypedAt(c)'),
         cli'[c] # "off" => Typing(c)' = After(Typing(c), frame), pc'[c] = pc[c]
  PROVE  /\ c2s[c] \in Seq(Phones \cup Commands \cup Texts \cup {End})
         /\ Len(c2s[c]) \in Nat /\ Len(c2s'[c]) = Len(c2s[c]) + 1
         /\ \A i \in 1 .. Len(c2s[c]) : c2s'[c][i] = c2s[c][i]
         /\ c2s'[c][Len(c2s'[c])] = frame /\ at[Len(c2s[c])] = Typing(c)
         /\ \E new \in Labels(c2s'[c]) :
              /\ Parses(c, new)'
              /\ \A i \in 0 .. Len(c2s[c]) : new[i] = at[i]
<1> DEFINE S == Phones \cup Commands \cup Texts \cup {End}
           q == c2s[c]
           new == ParseAppendOf(q, at, frame)
<1>1. c2s \in [Clients -> Seq(S)] /\ q \in Seq(S) /\ frame \in S
  BY DEF TypeInv, TypeOK
<1>2. c2s' = [c2s EXCEPT ![c] = Append(q, frame)]
  BY DEF Put
<1>3. c2s'[c] = Append(q, frame)
  BY <1>1, <1>2
<1>4. /\ IsParse(q, at, TypedAt(c)') /\ at[0] = Stage(c) /\ at[Len(q)] = Typing(c)
      /\ at \in Labels(q)
  BY ParseMore DEF Parses
<1>5. Stage(c)' = Stage(c)
  BY DEF Stage
<1>6. /\ Len(q) \in Nat /\ Len(Append(q, frame)) = Len(q) + 1
      /\ \A i \in 1 .. Len(q) : Append(q, frame)[i] = q[i]
      /\ Append(q, frame)[Len(q) + 1] = frame
  <2> HIDE DEF S, q
  <2> QED
    BY <1>1, AppendElements
<1>7. Fits(at[Len(q)], frame, TypedAt(c)')
  BY <1>4
<1>8. /\ ParseAppendOf(q, at, frame) \in Labels(Append(q, frame))
      /\ IsParse(Append(q, frame), ParseAppendOf(q, at, frame), TypedAt(c)')
      /\ \A i \in 0 .. Len(q) : ParseAppendOf(q, at, frame)[i] = at[i]
      /\ ParseAppendOf(q, at, frame)[Len(Append(q, frame))] = After(at[Len(q)], frame)
  <2> HIDE DEF S, q, new
  <2> QED
    BY <1>1, <1>4, <1>7, ParseAppend, ZenonT(60)
<1>9. new[0] = Stage(c) /\ new[Len(Append(q, frame))] = After(Typing(c), frame)
  BY <1>4, <1>6, <1>8
<1>10. \E any \in Labels(c2s'[c]) :
         /\ IsParse(c2s'[c], any, TypedAt(c)') /\ any[0] = Stage(c)'
         /\ any[Len(c2s'[c])] = After(Typing(c), frame)
         /\ \A i \in 0 .. Len(c2s[c]) : any[i] = at[i]
  BY <1>3, <1>5, <1>8, <1>9
<1>11. c2s'[c][Len(c2s'[c])] = frame
  BY <1>3, <1>6
<1> QED
  BY <1>1, <1>3, <1>4, <1>6, <1>10, <1>11 DEF Parses

-----------------------------------------------------------------------------
(* The texts of an answer, in the order of the records.                    *)

Rank(chosen, i) == Cardinality({j \in chosen : j <= i})

\* These texts are those of the chosen records of f, in file order.
Lists(chosen, f, texts) ==
  /\ texts \in Seq(Texts)
  /\ Len(texts) = Cardinality(chosen)
  /\ \A i \in chosen : texts[Rank(chosen, i)] = f[i].text

LEMMA ListsNone == \A f : Lists({}, f, <<>>)
  BY FS_EmptySet DEF Lists

\* A further record of f, behind the chosen ones.
LEMMA ListsMore ==
  ASSUME NEW n \in Nat, NEW chosen \in SUBSET (1 .. n - 1), NEW f, NEW texts,
         Lists(chosen, f, texts), f[n].text \in Texts
  PROVE  Lists(chosen \cup {n}, f, Append(texts, f[n].text))
<1> DEFINE more == chosen \cup {n}
           long == Append(texts, f[n].text)
<1>1. IsFiniteSet(1 .. n - 1)
  BY FS_Interval
<1>2. IsFiniteSet(chosen) /\ Cardinality(chosen) \in Nat
  BY <1>1, FS_Subset, FS_CardinalityType
<1>3. n \notin chosen /\ \A i \in chosen : i \in Nat /\ i < n
  OBVIOUS
<1>4. Cardinality(more) = Cardinality(chosen) + 1
  BY <1>2, <1>3, FS_AddElement
<1>5. /\ long \in Seq(Texts) /\ Len(long) = Len(texts) + 1
      /\ \A i \in 1 .. Len(texts) : long[i] = texts[i]
      /\ long[Len(texts) + 1] = f[n].text
  BY AppendElements DEF Lists
<1>6. {j \in more : j <= n} = more
  <2>1. \A j \in more : j <= n
    BY <1>3
  <2> HIDE DEF more
  <2> QED
    BY <2>1
<1>7. long[Rank(more, n)] = f[n].text
  BY <1>4, <1>5, <1>6 DEF Rank, Lists
<1>8. ASSUME NEW i \in chosen PROVE long[Rank(more, i)] = f[i].text
  <2>1. {j \in more : j <= i} = {j \in chosen : j <= i}
    BY <1>3
  <2>2. Rank(chosen, i) \in 1 .. Len(texts)
    <3> DEFINE low == {j \in chosen : j <= i}
    <3>1. IsFiniteSet(low) /\ Cardinality(low) <= Cardinality(chosen) /\ Cardinality(low) \in Nat
      BY <1>2, FS_Subset, FS_CardinalityType
    <3>2. i \in low
      BY <1>3
    <3>3. Cardinality(low) # 0
      BY <3>1, <3>2, FS_EmptySet
    <3> QED
      BY <1>2, <3>1, <3>3 DEF Rank, Lists
  <2> QED
    BY <1>5, <2>1, <2>2 DEF Rank, Lists
<1> QED
  BY <1>4, <1>5, <1>7, <1>8 DEF Lists

\* The records that were chosen stay as they are.
LEMMA ListsSame ==
  ASSUME NEW chosen, NEW f, NEW g, NEW texts, Lists(chosen, f, texts),
         \A i \in chosen : g[i] = f[i]
  PROVE  Lists(chosen, g, texts)
  BY DEF Lists

\* A text moves from the connection to the screen.
LEMMA MoveOne ==
  ASSUME NEW S, NEW s \in Seq(S), NEW t \in Seq(S), t # <<>>
  PROVE  Append(s, Head(t)) \o Tail(t) = s \o t
  OBVIOUS

\* A text gets into the connection.
LEMMA PutLast ==
  ASSUME NEW S, NEW s \in Seq(S), NEW t \in Seq(S), NEW x \in S
  PROVE  s \o Append(t, x) = Append(s \o t, x)
  OBVIOUS

-----------------------------------------------------------------------------
\* While nobody types "!end", it is not in the file either.
NoEndAt(c) == End \notin TypedAt(c) /\ slot[c].text # End
NoEnd == /\ \A i \in 1 .. Len(file) : file[i].text # End
         /\ \A c \in Clients : NoEndAt(c)

LEMMA NoEndStep ==
  ASSUME EndTyped = FALSE
  PROVE  TypeInv /\ NoEnd /\ [Next]_vars => NoEnd'
<1> SUFFICES ASSUME TypeInv, NoEnd, [Next]_vars PROVE NoEnd'
  OBVIOUS
<1> USE YBAssumption DEF serverVars, clientVars
<1>0. /\ TypeOK /\ file \in Seq(Records) /\ typed \in [Clients -> Seq(Messages)]
      /\ slot \in [Clients -> [cmd : Commands, tel : Phones \cup {Fill}, text : Texts \cup {End, Fill}]]
  BY DEF TypeInv, TypeOK
<1>1. ASSUME NEW d \in Clients, UNCHANGED <<typed[d], slot[d]>>
      PROVE  NoEndAt(d)'
  BY <1>1 DEF NoEnd, NoEndAt, TypedAt
<1>2. ASSUME NEW c \in Clients, Acquire(c) \/ ThreadStep(c) \/ ClientStep(c)
      PROVE  NoEndAt(c)'
  <2>1. CASE Hello(c) \/ Acquire(c) \/ AppendRecord(c) \/ ReadRecord(c) \/ EndOfFile(c) \/ Unlock(c)
    BY <1>1, <2>1 DEF Hello, Acquire, AppendRecord, ReadRecord, EndOfFile, Unlock
  <2>2. CASE RecvCmd(c) \/ RecvTel(c)
    <3>1. slot'[c].text = slot[c].text \/ slot'[c].text = Fill
      BY <1>0, <2>2 DEF RecvCmd, RecvTel, FreshSlot
    <3>2. typed' = typed
      BY <2>2 DEF RecvCmd, RecvTel
    <3> QED
      BY <3>1, <3>2 DEF NoEnd, NoEndAt, TypedAt
  <2>3. CASE RecvText(c)
    <3>1. typed' = typed
      BY <2>3 DEF RecvText
    <3>2. slot'[c].text = slot[c].text \/ slot'[c].text \in TypedAt(c)
      <4>1. CASE Received(c) /\ slot' = [slot EXCEPT ![c].text = Head(c2s[c])]
        <5>1. pc[c] # "none" /\ Stage(c) = "text"
          BY <2>3 DEF RecvText, Goto, Stage
        <5>2. Head(c2s[c]) \in TypedAt(c)
          BY <4>1, <5>1, ReceivedFits DEF Fits
        <5> QED
          BY <1>0, <4>1, <5>2
      <4>2. CASE UNCHANGED slot
        BY <4>2
      <4> QED
        BY <2>3, <4>1, <4>2 DEF RecvText
    <3> QED
      BY <3>1, <3>2 DEF NoEnd, NoEndAt, TypedAt
  <2>4. ASSUME NEW p \in Phones, Connect(c, p)
        PROVE  NoEndAt(c)'
    <3>1. slot'[c] = FreshSlot /\ typed' = typed
      BY <1>0, <2>4 DEF Connect
    <3> QED
      BY <3>1 DEF NoEnd, NoEndAt, TypedAt, FreshSlot
  <2>5. ASSUME NEW p \in Phones, NEW t \in NextTexts, ChoosePost(c, p, t)
        PROVE  NoEndAt(c)'
    <3> DEFINE m == [tel |-> p, text |-> t]
    <3>1. t # End /\ m \in Messages /\ slot' = slot
      BY <2>5 DEF NextTexts, Messages, ChoosePost
    <3>2. typed'[c] = Append(typed[c], m)
      BY <1>0, <2>5 DEF ChoosePost
    <3>3. ASSUME NEW k \in 1 .. Len(typed'[c]) PROVE typed'[c][k].text # End
      <4>1. typed[c] \in Seq(Messages)
        BY <1>0
      <4>2. (k \in 1 .. Len(typed[c]) /\ typed'[c][k] = typed[c][k]) \/ typed'[c][k] = m
        <5> HIDE DEF m
        <5> QED
          BY <3>1, <3>2, <3>3, <4>1, AppendElements
      <4> QED
        BY <3>1, <4>2 DEF NoEnd, NoEndAt, TypedAt
    <3> QED
      BY <3>1, <3>3 DEF NoEnd, NoEndAt, TypedAt
  <2>6. CASE Refuse(c) \/ TypeTel(c) \/ TypeText(c) \/ ChooseView(c) \/ Leave(c) \/ Mistype(c)
             \/ Receive(c) \/ Kill(c)
    BY <1>1, <2>6 DEF Refuse, TypeTel, TypeText, ChooseView, Leave, Mistype, Receive, Kill
  <2> QED
    BY <1>2, <2>1, <2>2, <2>3, <2>4, <2>5, <2>6 DEF ThreadStep, ClientStep
<1>3. \A d \in Clients : NoEndAt(d)'
  <2> SUFFICES ASSUME NEW d \in Clients PROVE NoEndAt(d)'
    OBVIOUS
  <2>1. CASE UNCHANGED vars
    BY <1>1, <2>1 DEF vars
  <2>2. ASSUME NEW c \in Clients, c # d, Acquire(c) \/ ThreadStep(c) \/ ClientStep(c)
        PROVE  NoEndAt(d)'
    BY <1>0, <1>1, <2>2, OthersUntouched
  <2> QED
    BY <1>2, <2>1, <2>2 DEF Next
<1>4. \A i \in 1 .. Len(file') : file'[i].text # End
  <2>1. CASE file' = file
    BY <2>1 DEF NoEnd
  <2>2. ASSUME NEW c \in Clients, AppendRecord(c)
        PROVE  \A i \in 1 .. Len(file') : file'[i].text # End
    <3> DEFINE r == [tel |-> slot[c].tel, text |-> slot[c].text]
    <3>1. file' = file \/ file' = Append(file, r)
      BY <2>2 DEF AppendRecord
    <3>2. r \in Records /\ r.text # End
      BY <1>0 DEF Records, NoEnd, NoEndAt
    <3>3. CASE file' = Append(file, r)
      <4> SUFFICES ASSUME NEW i \in 1 .. Len(file') PROVE file'[i].text # End
        OBVIOUS
      <4>1. (i \in 1 .. Len(file) /\ file'[i] = file[i]) \/ file'[i] = r
        <5> HIDE DEF r
        <5> QED
          BY <1>0, <3>2, <3>3, AppendElements
      <4> QED
        BY <3>2, <4>1 DEF NoEnd
    <3> QED
      BY <2>1, <3>1, <3>3
  <2> QED
    BY <2>1, <2>2
    DEF Next, vars, Acquire, ThreadStep, Hello, RecvCmd, RecvTel, RecvText, ReadRecord, EndOfFile,
        Unlock, ClientStep, Connect, Refuse, ChoosePost, TypeTel, TypeText, ChooseView, Leave,
        Mistype, Receive, Kill
<1> QED
  BY <1>3, <1>4 DEF NoEnd

-----------------------------------------------------------------------------
(* Thread and client agree on where they are in a view.                    *)

\* Frame i in flight is the command to view.
ViewAt(c, at, i) == at[i - 1] = "cmd" /\ c2s[c][i] = "view"

Viewing(c) == pc[c] \in {"wait", "scan"} /\ slot[c].cmd = "view"

Printed(c, texts) == Lists(sent[c], file, texts)

\* The stages of a view: the client is at its menu and has printed the last
\* answer; it has sent the command; the thread has received it, is sending the
\* records, has sent the end mark.
Idle(c, at) ==
  /\ cli[c] \in {"menu", "tel", "text", "wedged"} /\ ~Viewing(c)
  /\ \A i \in 1 .. Len(c2s[c]) : ~ViewAt(c, at, i)
  /\ s2c[c] = <<>> /\ Printed(c, shown[c])

Asked(c, at) ==
  /\ cli[c] = "view" /\ ~Viewing(c)
  /\ \A i \in 1 .. Len(c2s[c]) : ViewAt(c, at, i) <=> i = Len(c2s[c])
  /\ c2s[c] # <<>> /\ s2c[c] = <<>> /\ shown[c] = <<>>

Taken(c) ==
  /\ cli[c] = "view" /\ slot[c].cmd = "view" /\ pc[c] = "wait"
  /\ c2s[c] = <<>> /\ s2c[c] = <<>> /\ shown[c] = <<>>

Partly(c) ==
  /\ cli[c] = "view" /\ pc[c] = "scan" /\ c2s[c] = <<>>
  /\ shown[c] \in Seq(Texts) /\ s2c[c] \in Seq(Texts) /\ Printed(c, shown[c] \o s2c[c])

Ended(c) ==
  /\ cli[c] = "view" /\ ~Viewing(c) /\ c2s[c] = <<>> /\ shown[c] \in Seq(Texts)
  /\ \E rest \in Seq(Texts) : s2c[c] = Append(rest, End) /\ Printed(c, shown[c] \o rest)

InStage(c, at) == Idle(c, at) \/ Asked(c, at) \/ Taken(c) \/ Partly(c) \/ Ended(c)

SyncOf(c) ==
  pc[c] # "none" /\ cli[c] # "off" =>
    \E at \in Labels(c2s[c]) : Parses(c, at) /\ InStage(c, at)

SyncInv == \A c \in Clients : SyncOf(c)

\* A thread receives a frame.
LEMMA SyncReceiving ==
  ASSUME TypeInv, NEW c \in Clients, SyncOf(c),
         Hello(c) \/ RecvCmd(c) \/ RecvTel(c) \/ RecvText(c)
  PROVE  SyncOf(c)'
<1> USE DEF clientVars
<1>0. /\ TypeOK /\ pc \in [Clients -> ThreadPCs] /\ CommandOf(c)
      /\ slot \in [Clients -> [cmd : Commands, tel : Phones \cup {Fill}, text : Texts \cup {End, Fill}]]
  BY DEF TypeInv, TypeOK, OfClient
<1>1. UNCHANGED <<file, sent, s2c, cli, shown, typed>>
  BY DEF Hello, RecvCmd, RecvTel, RecvText
<1>2. CASE cli[c] = "off" \/ pc'[c] = "none"
  BY <1>1, <1>2 DEF SyncOf
<1>3. CASE cli[c] # "off" /\ pc'[c] # "none"
  <2>1. /\ Received(c)
        /\ pc[c] \in {"hello", "cmd", "tel", "text"} /\ Stage(c) = pc[c] /\ ~Viewing(c)
    BY <1>3 DEF Hello, RecvCmd, RecvTel, RecvText, NotReceived, Goto, Stage, Viewing
  <2>2. PICK at \in Labels(c2s[c]) : Parses(c, at) /\ InStage(c, at)
    BY <1>3, <2>1 DEF SyncOf
  <2>3. /\ Stage(c)' = After(Stage(c), Head(c2s[c]))
        /\ Viewing(c)' <=> pc[c] = "cmd" /\ Head(c2s[c]) = "view"
    <3>1. CASE Hello(c)
      BY <1>0, <3>1 DEF Hello, Goto, Stage, After, Viewing
    <3>2. CASE RecvCmd(c)
      <4>1. /\ Head(c2s[c]) \in Commands /\ pc[c] = "cmd" /\ pc'[c] = Case(Head(c2s[c]))
            /\ Case(Head(c2s[c])) # "none" => slot'[c].cmd = Head(c2s[c])
        BY <1>0, <1>3, <3>2 DEF RecvCmd, NotReceived, Goto
      <4>2. Head(c2s[c]) = "post" \/ Head(c2s[c]) = "view"
        BY <1>3, <4>1 DEF Case, Commands
      <4> QED
        BY <4>1, <4>2 DEF Case, Stage, After, Viewing
    <3>3. CASE RecvTel(c)
      BY <1>0, <3>3 DEF RecvTel, Goto, Stage, After, Viewing
    <3>4. CASE RecvText(c)
      <4>1. pc[c] = "text" /\ pc'[c] = "wait" /\ slot'[c].cmd = slot[c].cmd
        BY <1>0, <3>4 DEF RecvText, Goto
      <4>2. slot[c].cmd = "post"
        BY <1>0, <4>1 DEF CommandOf
      <4> QED
        BY <4>1, <4>2 DEF Stage, After, Viewing
    <3> QED
      BY <3>1, <3>2, <3>3, <3>4
  <2>4. /\ c2s[c] \in Seq(Phones \cup Commands \cup Texts \cup {End})
        /\ Len(c2s[c]) \in Nat \ {0} /\ Len(c2s'[c]) = Len(c2s[c]) - 1
        /\ \A i \in 1 .. Len(c2s'[c]) : c2s'[c][i] = c2s[c][i + 1]
        /\ Head(c2s[c]) = c2s[c][1] /\ at[0] = pc[c]
        /\ \E new \in Labels(c2s'[c]) :
             /\ Parses(c, new)'
             /\ \A i \in 0 .. Len(c2s'[c]) : new[i] = at[i + 1]
    BY <1>1, <2>1, <2>2, <2>3, ReceivedParse
  <2>5. PICK new \in Labels(c2s'[c]) :
          Parses(c, new)' /\ \A i \in 0 .. Len(c2s'[c]) : new[i] = at[i + 1]
    BY <2>4
  <2>6. ASSUME NEW i \in 1 .. Len(c2s'[c])
        PROVE  (new[i - 1] = "cmd" /\ c2s'[c][i] = "view") <=> ViewAt(c, at, i + 1)
    <3>1. new[i - 1] = at[i] /\ c2s'[c][i] = c2s[c][i + 1] /\ (i + 1) - 1 = i
      BY <2>4, <2>5
    <3> QED
      BY <3>1 DEF ViewAt
  <2>7. ViewAt(c, at, 1) <=> Viewing(c)'
    BY <2>3, <2>4 DEF ViewAt
  <2>8. c2s[c] # <<>> /\ pc[c] # "wait" /\ pc[c] # "scan"
    BY <2>1 DEF Received
  <2>9. CASE Idle(c, at)
    <3>1. ~ViewAt(c, at, 1) /\ \A i \in 1 .. Len(c2s'[c]) : ~ViewAt(c, at, i + 1)
      BY <2>4, <2>9 DEF Idle
    <3>2. Idle(c, new)'
      BY <1>1, <2>6, <2>7, <2>9, <3>1 DEF Idle, ViewAt, Printed
    <3> QED
      BY <2>5, <3>2 DEF SyncOf, InStage
  <2>10. CASE Asked(c, at)
    <3>1. CASE Len(c2s[c]) = 1
      <4>1. Viewing(c)' /\ pc[c] = "cmd" /\ Head(c2s[c]) = "view"
        BY <2>3, <2>4, <2>7, <2>10, <3>1 DEF Asked
      <4>2. Taken(c)'
        <5>1. RecvCmd(c)
          BY <4>1 DEF Hello, RecvTel, RecvText, Goto
        <5>2. pc'[c] = "wait" /\ slot'[c].cmd = "view"
          <6>1. /\ pc' = [pc EXCEPT ![c] = Case("view")]
                /\ slot' = [slot EXCEPT ![c] = IF Case("view") = "none" THEN FreshSlot
                                                  ELSE [@ EXCEPT !.cmd = "view"]]
            BY <2>8, <4>1, <5>1 DEF RecvCmd, NotReceived, Goto
          <6>2. Case("view") = "wait"
            BY DEF Case
          <6> QED
            BY <1>0, <6>1, <6>2
        <5>3. c2s'[c] = <<>>
          <6>1. c2s'[c] \in Seq(Phones \cup Commands \cup Texts \cup {End}) /\ Len(c2s'[c]) = 0
            BY <1>0, <2>1, <2>4, <3>1, ReceivedFits DEF TypeInv
          <6> QED
            BY <6>1
        <5> QED
          BY <1>1, <2>10, <5>2, <5>3 DEF Asked, Taken
      <4> QED
        BY <2>5, <4>2 DEF SyncOf, InStage
    <3>2. CASE Len(c2s[c]) # 1
      <4>1. 1 \in 1 .. Len(c2s[c]) /\ 1 # Len(c2s[c])
        BY <2>4, <3>2
      <4>2. ~Viewing(c)'
        BY <2>7, <2>10, <4>1 DEF Asked
      <4>3. \A i \in 1 .. Len(c2s'[c]) : ViewAt(c, at, i + 1) <=> i = Len(c2s'[c])
        BY <2>4, <2>10, SMTT(30) DEF Asked
      <4>4. c2s'[c] # <<>>
        <5>1. Len(c2s'[c]) # 0
          BY <2>4, <3>2
        <5> QED
          BY <5>1
      <4>5. Asked(c, new)'
        BY <1>1, <2>6, <2>10, <4>2, <4>3, <4>4 DEF Asked, ViewAt
      <4> QED
        BY <2>5, <4>5 DEF SyncOf, InStage
    <3> QED
      BY <3>1, <3>2
  <2> QED
    BY <2>2, <2>8, <2>9, <2>10 DEF InStage, Taken, Partly, Ended
<1> QED
  BY <1>2, <1>3

\* Where a stage does not change, only the frames, the records sent and what is
\* printed matter.
LEMMA SyncElsewhere ==
  ASSUME NEW d \in Clients, SyncOf(d), Stage(d)' = Stage(d), Viewing(d)' = Viewing(d),
         pc[d] = "none" => pc'[d] = "none", pc[d] \notin {"wait", "scan"} \/ slot[d].cmd # "view" \/ pc'[d] = pc[d],
         slot'[d] = slot[d], cli'[d] = cli[d], c2s'[d] = c2s[d], s2c'[d] = s2c[d],
         sent'[d] = sent[d], shown'[d] = shown[d], typed'[d] = typed[d],
         \A i \in sent[d] : file'[i] = file[i], pc[d] = "scan" => slot[d].cmd = "view"
  PROVE  SyncOf(d)'
<1>1. ASSUME NEW texts, Printed(d, texts) PROVE Printed(d, texts)'
  BY <1>1, ListsSame DEF Printed
<1>2. CASE pc'[d] = "none" \/ cli[d] = "off"
  BY <1>2 DEF SyncOf
<1>3. CASE pc'[d] # "none" /\ cli[d] # "off"
  <2>1. PICK at \in Labels(c2s[d]) : Parses(d, at) /\ InStage(d, at)
    BY <1>3 DEF SyncOf
  <2>2. Parses(d, at)'
    BY <2>1 DEF Parses, TypedAt, Typing
  <2>3. Idle(d, at) => Idle(d, at)'
    BY <1>1 DEF Idle, ViewAt
  <2>4. Asked(d, at) => Asked(d, at)'
    BY DEF Asked, ViewAt
  <2>5. Taken(d) => Taken(d)'
    BY DEF Taken
  <2>6. Partly(d) => Partly(d)'
    BY <1>1 DEF Partly
  <2>7. Ended(d) => Ended(d)'
    BY <1>1 DEF Ended
  <2> QED
    BY <2>1, <2>2, <2>3, <2>4, <2>5, <2>6, <2>7 DEF SyncOf, InStage
<1> QED
  BY <1>2, <1>3

\* A thread opens, extends or closes the file.
LEMMA SyncHolding ==
  ASSUME TypeInv, NEW c \in Clients, ScanOf(c), SyncOf(c),
         Acquire(c) \/ AppendRecord(c) \/ Unlock(c)
  PROVE  SyncOf(c)'
<1> USE DEF clientVars
<1>0. /\ TypeOK /\ pc \in [Clients -> ThreadPCs] /\ CommandOf(c) /\ sent \in [Clients -> SUBSET Nat]
      /\ file \in Seq(Records) /\ sent[c] \subseteq 1 .. Len(file)
  BY DEF TypeInv, TypeOK, OfClient, ScanOf
<1>1. UNCHANGED <<slot, c2s, s2c, cli, shown, typed>>
  BY DEF Acquire, AppendRecord, Unlock
<1>2. CASE Acquire(c) /\ slot[c].cmd = "view"
  <2>1. /\ pc[c] = "wait" /\ pc'[c] = "scan" /\ sent'[c] = {} /\ file' = file
        /\ Stage(c)' = Stage(c)
    BY <1>0, <1>2 DEF Acquire, Goto, Stage
  <2>2. CASE cli[c] = "off"
    BY <1>1, <2>2 DEF SyncOf
  <2>3. CASE cli[c] # "off"
    <3>1. PICK at \in Labels(c2s[c]) : Parses(c, at) /\ InStage(c, at)
      BY <2>1, <2>3 DEF SyncOf
    <3>2. Parses(c, at)'
      BY <1>1, <2>1, <3>1 DEF Parses, TypedAt, Typing
    <3>3. Taken(c)
      BY <1>2, <2>1, <3>1 DEF InStage, Idle, Asked, Partly, Ended, Viewing
    <3>4. Partly(c)'
      <4>1. Printed(c, <<>>)'
        BY <2>1, ListsNone DEF Printed
      <4>2. <<>> \in Seq(Texts) /\ <<>> \o <<>> = <<>>
        OBVIOUS
      <4> QED
        BY <1>1, <2>1, <3>3, <4>1, <4>2 DEF Taken, Partly
    <3> QED
      BY <1>1, <3>2, <3>4 DEF SyncOf, InStage
  <2> QED
    BY <2>2, <2>3
<1>3. CASE Acquire(c) /\ slot[c].cmd # "view"
  <2>1. /\ pc[c] = "wait" /\ pc'[c] = "append" /\ sent'[c] = sent[c] /\ file' = file
    BY <1>0, <1>3 DEF Acquire, Goto, CommandOf
  <2>2. Stage(c)' = Stage(c) /\ Viewing(c)' = Viewing(c)
    BY <1>1, <1>3, <2>1 DEF Stage, Viewing
  <2> QED
    BY <1>1, <1>3, <2>1, <2>2, SyncElsewhere
<1>4. CASE AppendRecord(c)
  <2>1. pc[c] = "append" /\ pc'[c] = "unlock" /\ sent' = sent
    BY <1>0, <1>4 DEF AppendRecord, Goto
  <2>2. Stage(c)' = Stage(c) /\ Viewing(c)' = Viewing(c)
    BY <2>1 DEF Stage, Viewing
  <2>3. \A i \in sent[c] : file'[i] = file[i]
    <3>1. file' = file \/ file' = Append(file, [tel |-> slot[c].tel, text |-> slot[c].text])
      BY <1>4 DEF AppendRecord
    <3> QED
      BY <1>0, <3>1
  <2> QED
    BY <1>1, <2>1, <2>2, <2>3, SyncElsewhere
<1>5. CASE Unlock(c)
  <2>1. pc[c] = "unlock" /\ pc'[c] = "cmd" /\ UNCHANGED <<file, sent>>
    BY <1>0, <1>5 DEF Unlock, Goto
  <2>2. Stage(c)' = Stage(c) /\ Viewing(c)' = Viewing(c)
    BY <2>1 DEF Stage, Viewing
  <2> QED
    BY <1>1, <2>1, <2>2, SyncElsewhere
<1> QED
  BY <1>2, <1>3, <1>4, <1>5

\* A thread sends its answer, record by record and then "!end".
LEMMA SyncAnswering ==
  ASSUME TypeInv, NoEnd, NEW c \in Clients, ScanOf(c), SyncOf(c), ReadRecord(c) \/ EndOfFile(c)
  PROVE  SyncOf(c)'
<1> USE DEF clientVars
<1>0. /\ TypeOK /\ pc \in [Clients -> ThreadPCs] /\ CommandOf(c) /\ file \in Seq(Records)
      /\ s2c \in [Clients -> Seq(Texts \cup {End})] /\ sent \in [Clients -> SUBSET Nat]
  BY DEF TypeInv, TypeOK, OfClient
<1>1. pc[c] = "scan" /\ slot[c].cmd = "view" /\ UNCHANGED <<file, slot, c2s, cli, shown, typed>>
  BY <1>0 DEF ReadRecord, EndOfFile, Goto, CommandOf
<1>2. CASE cli[c] = "off"
  BY <1>1, <1>2 DEF SyncOf
<1>3. CASE cli[c] # "off"
  <2>1. PICK at \in Labels(c2s[c]) : Parses(c, at) /\ InStage(c, at)
    BY <1>1, <1>3 DEF SyncOf
  <2>2. Partly(c)
    BY <1>1, <2>1 DEF InStage, Idle, Asked, Taken, Ended, Viewing
  <2>3. CASE ReadRecord(c)
    <3>1. /\ pos[c] \in 1 .. Len(file) /\ sent[c] = Selected(c) /\ ~Unreadable(file[pos[c]]) /\ pc' = pc
      BY <1>1, <2>3 DEF ReadRecord, ScanOf
    <3>2. file[pos[c]].text \in Texts
      <4>1. file[pos[c]] \in Records
        BY <1>0, <3>1
      <4> QED
        BY <3>1, <4>1 DEF Records, Unreadable, NoEnd
    <3>3. Parses(c, at)'
      BY <1>1, <2>1, <3>1 DEF Parses, TypedAt, Typing, Stage
    <3>4. CASE UNCHANGED <<s2c, sent>>
      BY <1>1, <2>2, <3>1, <3>3, <3>4 DEF SyncOf, InStage, Partly, Printed
    <3>5. CASE /\ Send(c, file[pos[c]].text)
               /\ sent' = [sent EXCEPT ![c] = @ \cup {pos[c]}]
      <4> DEFINE x == file[pos[c]].text
      <4>1. s2c'[c] = Append(s2c[c], x) /\ sent'[c] = sent[c] \cup {pos[c]}
        BY <1>0, <1>3, <3>5 DEF Send
      <4>2. sent[c] \in SUBSET (1 .. pos[c] - 1) /\ pos[c] \in Nat
        BY <3>1 DEF Selected
      <4>3. Lists(sent[c], file, shown[c] \o s2c[c]) /\ s2c[c] \in Seq(Texts) /\ shown[c] \in Seq(Texts)
        BY <2>2 DEF Partly, Printed
      <4>4. Lists(sent'[c], file, Append(shown[c] \o s2c[c], x))
        BY <3>2, <4>1, <4>2, <4>3, ListsMore, ZenonT(60)
      <4>5. Append(shown[c] \o s2c[c], x) = shown[c] \o s2c'[c] /\ s2c'[c] \in Seq(Texts)
        <5> HIDE DEF x
        <5>1. x \in Texts
          BY <3>2 DEF x
        <5>2. shown[c] \o Append(s2c[c], x) = Append(shown[c] \o s2c[c], x)
          <6> DEFINE s == shown[c]
                     t == s2c[c]
          <6>1. s \in Seq(Texts) /\ t \in Seq(Texts)
            BY <4>3
          <6> HIDE DEF s, t
          <6>2. s \o Append(t, x) = Append(s \o t, x)
            BY <5>1, <6>1, PutLast
          <6> QED
            BY <6>2 DEF s, t
        <5>3. Append(s2c[c], x) \in Seq(Texts)
          BY <4>3, <5>1
        <5> QED
          BY <4>1, <5>2, <5>3
      <4>6. Partly(c)'
        BY <1>1, <2>2, <3>1, <4>4, <4>5 DEF Partly, Printed
      <4> QED
        BY <1>1, <3>3, <4>6 DEF SyncOf, InStage
    <3> QED
      BY <2>3, <3>4, <3>5 DEF ReadRecord
  <2>4. CASE EndOfFile(c)
    <3>1. s2c'[c] = Append(s2c[c], End) /\ pc'[c] = "unlock" /\ sent' = sent
      BY <1>0, <1>3, <2>4 DEF EndOfFile, Send, Goto
    <3>2. Parses(c, at)'
      BY <1>1, <2>1, <3>1 DEF Parses, TypedAt, Typing, Stage
    <3>3. Ended(c)'
      BY <1>1, <2>2, <3>1 DEF Partly, Ended, Printed, Viewing
    <3> QED
      BY <1>1, <3>2, <3>3 DEF SyncOf, InStage
  <2> QED
    BY <2>3, <2>4
<1> QED
  BY <1>2, <1>3

\* A client connects, works its menu, leaves or is killed.
LEMMA SyncMenu ==
  ASSUME TypeInv, NEW c \in Clients, SyncOf(c),
         \/ \E p \in Phones : Connect(c, p)
         \/ \E p \in Phones : \E t \in NextTexts : ChoosePost(c, p, t)
         \/ Refuse(c) \/ TypeTel(c) \/ TypeText(c) \/ ChooseView(c)
         \/ Leave(c) \/ Mistype(c) \/ Kill(c)
  PROVE  SyncOf(c)'
<1> USE DEF serverVars
<1>0. /\ TypeOK /\ StreamOf(c) /\ TextsOf(c) /\ cli \in [Clients -> ClientPCs]
      /\ pc \in [Clients -> ThreadPCs] /\ typed \in [Clients -> Seq(Messages)]
      /\ shown \in [Clients -> Seq(Texts \cup {End})]
  BY DEF TypeInv, TypeOK, OfClient
<1>1. ASSUME NEW p \in Phones, Connect(c, p)
      PROVE  SyncOf(c)'
  <2>1. /\ pc'[c] = "hello" /\ cli'[c] = "menu" /\ c2s'[c] = <<p>> /\ s2c'[c] = <<>>
        /\ sent'[c] = {} /\ shown'[c] = <<>>
    BY <1>0, <1>1 DEF Connect, StartClient, Goto, TypeOK
  <2>2. StreamOf(c)'
    BY <1>1, ClientType DEF ClientStep, TypeInv, OfClient
  <2>3. PICK at \in Labels(c2s'[c]) : Parses(c, at)'
    BY <2>1, <2>2 DEF StreamOf
  <2>4. at[0] = "hello"
    BY <2>1, <2>3 DEF Parses, Stage
  <2>5. \A i \in 1 .. Len(c2s'[c]) : i = 1 /\ i - 1 = 0
    BY <2>1
  <2>6. Idle(c, at)'
    BY <2>1, <2>4, <2>5, ListsNone DEF Idle, ViewAt, Viewing, Printed
  <2> QED
    BY <2>3, <2>6 DEF SyncOf, InStage
<1>2. CASE Refuse(c)
  BY <1>2 DEF Refuse, StartClient, SyncOf
<1>3. CASE Leave(c) \/ Kill(c)
  BY <1>0, <1>3 DEF Leave, Kill, SyncOf
<1>4. CASE Mistype(c)
  <2>1. /\ cli[c] = "menu" /\ cli'[c] = "wedged" /\ UNCHANGED <<file, serverVars, c2s, s2c, shown, typed>>
    BY <1>0, <1>4 DEF Mistype
  <2>2. CASE pc[c] = "none"
    BY <2>1, <2>2 DEF SyncOf
  <2>3. CASE pc[c] # "none"
    <3>1. PICK at \in Labels(c2s[c]) : Parses(c, at) /\ InStage(c, at)
      BY <2>1, <2>3 DEF SyncOf
    <3>2. Parses(c, at)'
      BY <2>1, <3>1 DEF Parses, TypedAt, Typing, Stage
    <3>3. Idle(c, at)
      BY <2>1, <3>1 DEF InStage, Asked, Taken, Partly, Ended
    <3>4. Idle(c, at)'
      BY <2>1, <3>3 DEF Idle, ViewAt, Viewing, Printed
    <3> QED
      BY <2>1, <3>2, <3>4 DEF SyncOf, InStage
  <2> QED
    BY <2>2, <2>3
<1>5. ASSUME NEW frame \in Phones \cup Commands \cup Texts \cup {End}, Put(c, frame),
             UNCHANGED <<file, serverVars, s2c>>, cli[c] \in {"menu", "tel", "text"}, cli'[c] # "off",
             Typing(c)' = After(Typing(c), frame), TypedAt(c) \subseteq TypedAt(c)',
             Fits(Typing(c), frame, TypedAt(c)'),
             \/ /\ cli'[c] \in {"menu", "tel", "text"} /\ shown' = shown
                /\ Typing(c) # "cmd" \/ frame # "view"
             \/ cli'[c] = "view" /\ shown'[c] = <<>> /\ Typing(c) = "cmd" /\ frame = "view"
      PROVE  SyncOf(c)'
  <2>1. CASE pc[c] = "none"
    BY <1>5, <2>1 DEF SyncOf
  <2>2. CASE pc[c] # "none"
    <3>1. PICK at \in Labels(c2s[c]) : Parses(c, at) /\ InStage(c, at)
      BY <1>5, <2>2 DEF SyncOf
    <3>2. Idle(c, at)
      BY <1>5, <3>1 DEF InStage, Asked, Taken, Partly, Ended
    <3>3. /\ Len(c2s[c]) \in Nat /\ Len(c2s'[c]) = Len(c2s[c]) + 1
          /\ \A i \in 1 .. Len(c2s[c]) : c2s'[c][i] = c2s[c][i]
          /\ c2s'[c][Len(c2s'[c])] = frame /\ at[Len(c2s[c])] = Typing(c)
          /\ \E new \in Labels(c2s'[c]) :
               /\ Parses(c, new)'
               /\ \A i \in 0 .. Len(c2s[c]) : new[i] = at[i]
      BY <1>5, <2>2, <3>1, PutParse
    <3>4. PICK new \in Labels(c2s'[c]) :
            Parses(c, new)' /\ \A i \in 0 .. Len(c2s[c]) : new[i] = at[i]
      BY <3>3
    <3>5. ASSUME NEW i \in 1 .. Len(c2s'[c])
          PROVE  ViewAt(c, new, i)' <=>
                   i = Len(c2s'[c]) /\ Typing(c) = "cmd" /\ frame = "view"
      <4>1. CASE i = Len(c2s'[c])
        <5>1. new[i - 1] = Typing(c) /\ c2s'[c][i] = frame
          BY <3>3, <3>4, <4>1
        <5> QED
          BY <4>1, <5>1 DEF ViewAt
      <4>2. CASE i # Len(c2s'[c])
        <5>1. i \in 1 .. Len(c2s[c]) /\ new[i - 1] = at[i - 1] /\ c2s'[c][i] = c2s[c][i]
          BY <3>3, <3>4, <4>2
        <5> QED
          BY <3>2, <4>2, <5>1 DEF ViewAt, Idle
      <4> QED
        BY <4>1, <4>2
    <3>6. CASE cli'[c] # "view"
      <4>1. Idle(c, new)'
        BY <1>5, <3>2, <3>5, <3>6 DEF Idle, Viewing, Printed
      <4> QED
        BY <3>4, <4>1 DEF SyncOf, InStage
    <3>7. CASE cli'[c] = "view"
      <4>1. c2s'[c] # <<>>
        <5>1. Len(c2s'[c]) # 0
          BY <3>3
        <5> QED
          BY <5>1
      <4>2. Asked(c, new)'
        BY <1>5, <3>2, <3>5, <3>7, <4>1 DEF Idle, Asked, Viewing
      <4> QED
        BY <3>4, <4>2 DEF SyncOf, InStage
    <3> QED
      BY <3>6, <3>7
  <2> QED
    BY <2>1, <2>2
<1>6. ASSUME NEW p \in Phones, NEW t \in NextTexts, ChoosePost(c, p, t)
      PROVE  SyncOf(c)'
  <2> DEFINE m == [tel |-> p, text |-> t]
  <2>1. /\ cli[c] = "menu" /\ cli'[c] = "tel" /\ typed'[c] = Append(typed[c], m)
        /\ Put(c, "post") /\ UNCHANGED <<file, serverVars, s2c, shown>> /\ m \in Messages
    BY <1>0, <1>6 DEF ChoosePost, Messages, NextTexts
  <2>2. TypedAt(c) \subseteq TypedAt(c)'
    <3>1. /\ Len(typed'[c]) = Len(typed[c]) + 1 /\ Len(typed[c]) \in Nat
          /\ \A k \in 1 .. Len(typed[c]) : typed'[c][k] = typed[c][k]
      <4> HIDE DEF m
      <4> QED
        BY <1>0, <2>1, AppendElements
    <3> QED
      BY <3>1 DEF TypedAt
  <2>3. Typing(c) = "cmd" /\ Typing(c)' = "tel" /\ After("cmd", "post") = "tel" /\ "post" \in Commands
    BY <2>1 DEF Typing, After, Commands
  <2> QED
    BY <1>5, <2>1, <2>2, <2>3 DEF Fits
<1>7. cli[c] \in {"tel", "text"} =>
        /\ Composed(c).tel \in Phones /\ Composed(c).text \in TypedAt(c)
        /\ Composed(c).text \in Texts \cup {End}
  BY ComposedFits
<1>8. CASE TypeTel(c) \/ TypeText(c)
  <2>1. TypedAt(c)' = TypedAt(c) /\ UNCHANGED <<file, serverVars, s2c, shown>>
    BY <1>8 DEF TypeTel, TypeText, TypedAt
  <2>2. CASE TypeTel(c)
    <3>1. cli[c] = "tel" /\ cli'[c] = "text" /\ Put(c, Composed(c).tel)
      BY <1>0, <2>2 DEF TypeTel
    <3>2. Typing(c) = "tel" /\ Typing(c)' = "text" /\ After("tel", Composed(c).tel) = "text"
      BY <3>1 DEF Typing, After
    <3> QED
      BY <1>5, <1>7, <2>1, <3>1, <3>2 DEF Fits
  <2>3. CASE TypeText(c)
    <3>1. cli[c] = "text" /\ cli'[c] = "menu" /\ Put(c, Composed(c).text)
      BY <1>0, <2>3 DEF TypeText
    <3>2. Typing(c) = "text" /\ Typing(c)' = "cmd" /\ After("text", Composed(c).text) = "cmd"
      BY <3>1 DEF Typing, After
    <3> QED
      BY <1>5, <1>7, <2>1, <3>1, <3>2 DEF Fits
  <2> QED
    BY <1>8, <2>2, <2>3
<1>9. CASE ChooseView(c)
  <2>1. /\ cli[c] = "menu" /\ cli'[c] = "view" /\ shown'[c] = <<>> /\ Put(c, "view")
        /\ TypedAt(c)' = TypedAt(c) /\ UNCHANGED <<file, serverVars, s2c>>
    BY <1>0, <1>9 DEF ChooseView, TypedAt
  <2>2. Typing(c) = "cmd" /\ Typing(c)' = "cmd" /\ After("cmd", "view") = "cmd" /\ "view" \in Commands
    BY <2>1 DEF Typing, After, Commands
  <2> QED
    BY <1>5, <2>1, <2>2 DEF Fits
<1> QED
  BY <1>1, <1>2, <1>3, <1>4, <1>6, <1>8, <1>9

\* A client reads one frame of its answer.
LEMMA SyncReading ==
  ASSUME TypeInv, NEW c \in Clients, SyncOf(c), Receive(c)
  PROVE  SyncOf(c)'
<1> USE YBAssumption DEF serverVars
<1>0. /\ TypeOK /\ s2c \in [Clients -> Seq(Texts \cup {End})] /\ cli \in [Clients -> ClientPCs]
      /\ shown \in [Clients -> Seq(Texts \cup {End})]
  BY DEF TypeInv, TypeOK
<1>1. /\ cli[c] = "view" /\ s2c[c] # <<>> /\ UNCHANGED <<file, serverVars, c2s, typed>>
      /\ s2c'[c] = Tail(s2c[c])
  BY <1>0 DEF Receive
<1>2. CASE pc[c] = "none"
  BY <1>1, <1>2 DEF SyncOf
<1>3. CASE pc[c] # "none"
  <2>1. PICK at \in Labels(c2s[c]) : Parses(c, at) /\ InStage(c, at)
    BY <1>1, <1>3 DEF SyncOf
  <2>2. cli'[c] \in {"view", "menu"}
    BY <1>0, <1>1 DEF Receive
  <2>3. Parses(c, at)'
    BY <1>1, <2>1, <2>2 DEF Parses, TypedAt, Typing, Stage
  <2>4. CASE Partly(c)
    <3>1. s2c[c] \in Seq(Texts) /\ shown[c] \in Seq(Texts)
      BY <2>4 DEF Partly
    <3>2. Head(s2c[c]) \in Texts /\ Tail(s2c[c]) \in Seq(Texts)
      BY <1>1, <3>1, TailElements
    <3>3. cli'[c] = "view" /\ shown'[c] = Append(shown[c], Head(s2c[c]))
      BY <1>0, <1>1, <3>2 DEF Receive
    <3>4. shown'[c] \o s2c'[c] = shown[c] \o s2c[c] /\ shown'[c] \in Seq(Texts)
      <4> DEFINE s == shown[c]
                 t == s2c[c]
      <4>1. s \in Seq(Texts) /\ t \in Seq(Texts) /\ t # <<>>
        BY <1>1, <3>1
      <4>2. shown'[c] = Append(s, Head(t)) /\ s2c'[c] = Tail(t)
        BY <1>1, <3>3
      <4>3. Append(s, Head(t)) \in Seq(Texts)
        BY <3>2, <4>1
      <4> HIDE DEF s, t
      <4>4. Append(s, Head(t)) \o Tail(t) = s \o t
        BY <4>1, MoveOne
      <4> QED
        BY <4>2, <4>3, <4>4 DEF s, t
    <3>5. Partly(c)'
      BY <1>1, <2>4, <3>2, <3>3, <3>4 DEF Partly, Printed
    <3> QED
      BY <2>1, <2>3, <1>1, <3>5 DEF SyncOf, InStage
  <2>5. CASE Ended(c)
    <3>1. PICK rest \in Seq(Texts) : s2c[c] = Append(rest, End) /\ Printed(c, shown[c] \o rest)
      BY <2>5 DEF Ended
    <3>2. shown[c] \in Seq(Texts)
      BY <2>5 DEF Ended
    <3>3. CASE rest = <<>>
      <4>1. Head(s2c[c]) = End /\ Tail(s2c[c]) = <<>>
        BY <3>1, <3>3
      <4>2. cli'[c] = "menu" /\ shown'[c] = shown[c]
        BY <1>0, <1>1, <4>1 DEF Receive
      <4>3. shown[c] \o rest = shown[c]
        BY <3>2, <3>3
      <4>4. \A i \in 1 .. Len(c2s'[c]) : FALSE
        BY <1>1, <2>5 DEF Ended
      <4>5. Idle(c, at)'
        BY <1>1, <2>5, <3>1, <4>1, <4>2, <4>3, <4>4 DEF Ended, Idle, Viewing, Printed
      <4> QED
        BY <1>1, <2>1, <2>3, <4>5 DEF SyncOf, InStage
    <3>4. CASE rest # <<>>
      <4>1. /\ Head(s2c[c]) = Head(rest) /\ Tail(s2c[c]) = Append(Tail(rest), End)
            /\ Head(rest) \in Texts /\ Tail(rest) \in Seq(Texts)
        BY <3>1, <3>4
      <4>2. cli'[c] = "view" /\ shown'[c] = Append(shown[c], Head(rest))
        BY <1>0, <1>1, <4>1 DEF Receive
      <4>3. shown'[c] \o Tail(rest) = shown[c] \o rest /\ shown'[c] \in Seq(Texts)
        <5> DEFINE s == shown[c]
        <5>1. s \in Seq(Texts) /\ shown'[c] = Append(s, Head(rest))
          BY <3>2, <4>2
        <5>2. Append(s, Head(rest)) \in Seq(Texts)
          BY <4>1, <5>1
        <5> HIDE DEF s
        <5>3. Append(s, Head(rest)) \o Tail(rest) = s \o rest
          BY <3>4, <5>1, MoveOne
        <5> QED
          BY <5>1, <5>2, <5>3 DEF s
      <4>4. Ended(c)'
        BY <1>1, <2>5, <3>1, <4>1, <4>2, <4>3 DEF Ended, Viewing, Printed
      <4> QED
        BY <1>1, <2>1, <2>3, <4>4 DEF SyncOf, InStage
    <3> QED
      BY <3>3, <3>4
  <2> QED
    BY <1>1, <2>1, <2>4, <2>5 DEF InStage, Idle, Asked, Taken
<1> QED
  BY <1>2, <1>3

\* The file only grows, and an action of one thread keeps what another has sent.
LEMMA FileGrows ==
  ASSUME TypeOK, [Next]_vars
  PROVE  /\ Len(file) \in Nat /\ Len(file') \in Nat /\ Len(file) <= Len(file')
         /\ \A i \in 1 .. Len(file) : file'[i] = file[i]
<1>1. file \in Seq(Records)
  BY DEF TypeOK
<1>2. CASE file' = file
  BY <1>1, <1>2
<1>3. ASSUME NEW c \in Clients, file' = Append(file, [tel |-> slot[c].tel, text |-> slot[c].text])
      PROVE  /\ Len(file') \in Nat /\ Len(file) <= Len(file')
             /\ \A i \in 1 .. Len(file) : file'[i] = file[i]
  BY <1>1, <1>3
<1>4. file' = file \/ \E c \in Clients : AppendRecord(c)
  BY DEF Next, vars, Acquire, ThreadStep, Hello, RecvCmd, RecvTel, RecvText, ReadRecord,
     EndOfFile, Unlock, ClientStep, Connect, Refuse, ChoosePost, TypeTel, TypeText, ChooseView,
     Leave, Mistype, Receive, Kill
<1>5. Len(file) \in Nat
  BY <1>1
<1> QED
  BY <1>2, <1>3, <1>4, <1>5 DEF AppendRecord

LEMMA SyncStep == TypeInv /\ NoEnd /\ ScanInv /\ SyncInv /\ [Next]_vars => SyncInv'
<1> SUFFICES ASSUME TypeInv, NoEnd, ScanInv, SyncInv, [Next]_vars, NEW d \in Clients
             PROVE  SyncOf(d)'
  BY DEF SyncInv
<1>0. /\ SyncOf(d) /\ ScanOf(d) /\ TypeOK /\ CommandOf(d)
  BY DEF SyncInv, ScanInv, TypeInv, OfClient
<1>1. \A i \in sent[d] : file'[i] = file[i]
  BY <1>0, FileGrows DEF ScanOf
<1>2. ASSUME UNCHANGED <<pc[d], slot[d], cli[d], c2s[d], s2c[d], sent[d], shown[d], typed[d]>>
      PROVE  SyncOf(d)'
  <2>1. Stage(d)' = Stage(d) /\ Viewing(d)' = Viewing(d) /\ (pc[d] = "scan" => slot[d].cmd = "view")
    BY <1>0, <1>2 DEF Stage, Viewing, CommandOf
  <2> QED
    BY <1>0, <1>1, <1>2, <2>1, SyncElsewhere
<1>3. CASE UNCHANGED vars
  BY <1>2, <1>3 DEF vars, serverVars, clientVars
<1>4. ASSUME NEW c \in Clients, c # d, Acquire(c) \/ ThreadStep(c) \/ ClientStep(c)
      PROVE  SyncOf(d)'
  BY <1>0, <1>2, <1>4, OthersUntouched
<1>5. CASE Acquire(d) \/ ThreadStep(d) \/ ClientStep(d)
  BY <1>0, <1>5, SyncReceiving, SyncHolding, SyncAnswering, SyncMenu, SyncReading
  DEF ThreadStep, ClientStep
<1> QED
  BY <1>3, <1>4, <1>5 DEF Next

\* As long as nobody types "!end", and whatever faults occur: a client back at its
\* menu has read all of the last answer and printed exactly the texts of the
\* records that were sent, in the order of the file.
THEOREM StaysInSync ==
  ASSUME EndTyped = FALSE
  PROVE  Spec => []InSync
<1>1. Init => NoEnd
  BY YBAssumption DEF Init, NoEnd, NoEndAt, TypedAt, FreshSlot
<1>2. Init => SyncInv
  BY DEF Init, SyncInv, SyncOf
<1>3. SyncInv => InSync
  BY DEF SyncInv, SyncOf, InStage, Idle, Asked, Taken, Partly, Ended, InSync, Printed, Lists, Rank
<1>4. TypeInv /\ NoEnd /\ [Next]_vars => NoEnd'
  BY NoEndStep
<1>5. Spec => []NoEnd
  BY <1>1, <1>4, TypeAlways, PTL DEF Spec
<1> QED
  BY <1>2, <1>3, <1>5, SyncStep, TypeAlways, ScanAlways, PTL DEF Spec

-----------------------------------------------------------------------------
(* Every record is traced back to the message that was typed.              *)

FileTexts == \A i \in 1 .. Len(file) : file[i].text = Fill \/ \E c \in Clients : file[i].text \in TypedAt(c)

\* No text is typed twice.
Distinct ==
  \A c, d \in Clients : \A k \in 1 .. Len(typed[c]), l \in 1 .. Len(typed[d]) :
    typed[c][k].text = typed[d][l].text => c = d /\ k = l

TextsInv == FileTexts /\ Distinct

\* What the users have typed only grows.
LEMMA TypedGrows ==
  ASSUME TypeOK, [Next]_vars, NEW c \in Clients
  PROVE  /\ Len(typed[c]) \in Nat /\ Len(typed'[c]) \in Nat /\ Len(typed[c]) <= Len(typed'[c])
         /\ \A k \in 1 .. Len(typed[c]) : typed'[c][k] = typed[c][k]
         /\ TypedAt(c) \subseteq TypedAt(c)'
<1>1. typed \in [Clients -> Seq(Messages)] /\ typed[c] \in Seq(Messages)
  BY DEF TypeOK
<1>2. Len(typed[c]) \in Nat
  BY <1>1
<1>3. SUFFICES /\ Len(typed'[c]) \in Nat /\ Len(typed[c]) <= Len(typed'[c])
               /\ \A k \in 1 .. Len(typed[c]) : typed'[c][k] = typed[c][k]
  BY <1>2 DEF TypedAt
<1>4. CASE typed'[c] = typed[c]
  BY <1>2, <1>4
<1>5. ASSUME NEW p \in Phones, NEW t \in NextTexts, ChoosePost(c, p, t)
      PROVE  /\ Len(typed'[c]) \in Nat /\ Len(typed[c]) <= Len(typed'[c])
             /\ \A k \in 1 .. Len(typed[c]) : typed'[c][k] = typed[c][k]
  <2>1. typed'[c] = Append(typed[c], [tel |-> p, text |-> t])
    BY <1>1, <1>5 DEF ChoosePost
  <2>2. [tel |-> p, text |-> t] \in Messages
    BY DEF Messages, NextTexts
  <2> QED
    BY <1>1, <1>2, <2>1, <2>2, AppendElements
<1>6. typed' = typed \/ \E d \in Clients : \E p \in Phones : \E t \in NextTexts : ChoosePost(d, p, t)
  BY DEF Next, vars, clientVars, Acquire, ThreadStep, Hello, RecvCmd, RecvTel, RecvText, AppendRecord,
     ReadRecord, EndOfFile, Unlock, ClientStep, Connect, Refuse, TypeTel, TypeText, ChooseView,
     Leave, Mistype, Receive, Kill
<1>7. ASSUME NEW d \in Clients, d # c, NEW p \in Phones, NEW t \in NextTexts, ChoosePost(d, p, t)
      PROVE  typed'[c] = typed[c]
  BY <1>1, <1>7 DEF ChoosePost
<1> QED
  BY <1>4, <1>5, <1>6, <1>7

LEMMA TextsStep ==
  ASSUME EndTyped = FALSE
  PROVE  TypeInv /\ TextsInv /\ [Next]_vars => TextsInv'
<1> SUFFICES ASSUME TypeInv, TextsInv, [Next]_vars PROVE TextsInv'
  OBVIOUS
<1> USE YBAssumption
<1>0. /\ TypeOK /\ file \in Seq(Records) /\ typed \in [Clients -> Seq(Messages)]
  BY DEF TypeInv, TypeOK
<1>1. FileTexts'
  <2>1. ASSUME NEW i \in 1 .. Len(file)
        PROVE  file[i].text = Fill \/ \E c \in Clients : file[i].text \in TypedAt(c)'
    BY <1>0, TypedGrows DEF TextsInv, FileTexts
  <2>2. CASE file' = file
    BY <2>1, <2>2 DEF FileTexts
  <2>3. ASSUME NEW c \in Clients, AppendRecord(c), isOpen[c], ~Tired(c) PROVE FileTexts'
    <3> DEFINE r == [tel |-> slot[c].tel, text |-> slot[c].text]
    <3>1. r \in Records
      <4>1. slot[c] \in [cmd : Commands, tel : Phones \cup {Fill}, text : Texts \cup {End, Fill}]
        BY <1>0 DEF TypeOK
      <4> QED
        BY <4>1 DEF Records
    <3>2. r.text = Fill \/ r.text \in TypedAt(c)'
      <4>1. typed' = typed
        BY <2>3 DEF AppendRecord, clientVars
      <4> QED
        BY <4>1 DEF TypeInv, OfClient, TextsOf, TypedAt
    <3>3. file' = Append(file, r)
      BY <2>3 DEF AppendRecord
    <3>4. ASSUME NEW i \in 1 .. Len(file') PROVE (i \in 1 .. Len(file) /\ file'[i] = file[i]) \/ file'[i] = r
      <4> HIDE DEF r
      <4> QED
        BY <1>0, <3>1, <3>3, AppendElements
    <3> QED
      BY <2>1, <3>2, <3>4 DEF FileTexts
  <2>4. file' = file \/ \E c \in Clients : AppendRecord(c) /\ isOpen[c] /\ ~Tired(c)
    BY DEF Next, vars, Acquire, ThreadStep, Hello, RecvCmd, RecvTel, RecvText, AppendRecord, ReadRecord,
       EndOfFile, Unlock, ClientStep, Connect, Refuse, ChoosePost, TypeTel, TypeText, ChooseView,
       Leave, Mistype, Receive, Kill
  <2> QED
    BY <2>2, <2>3, <2>4
<1>2. Distinct'
  <2>1. CASE typed' = typed
    BY <2>1 DEF TextsInv, Distinct
  <2>2. ASSUME NEW c \in Clients, NEW p \in Phones, NEW t \in NextTexts, ChoosePost(c, p, t)
        PROVE  Distinct'
    <3> DEFINE m == [tel |-> p, text |-> t]
               n == Len(typed[c]) + 1
    <3>1. typed' = [typed EXCEPT ![c] = Append(typed[c], m)] /\ m \in Messages
      BY <2>2 DEF ChoosePost, Messages, NextTexts
    <3>2. /\ Len(typed[c]) \in Nat /\ Len(typed'[c]) = n /\ typed'[c][n].text = t
          /\ \A k \in 1 .. Len(typed[c]) : typed'[c][k] = typed[c][k]
      <4>1. typed'[c] = Append(typed[c], m) /\ typed[c] \in Seq(Messages) /\ m.text = t
        BY <1>0, <3>1
      <4> HIDE DEF m
      <4> QED
        BY <3>1, <4>1, AppendElements
    <3>3. \A d \in Clients : d # c => typed'[d] = typed[d]
      BY <1>0, <3>1
    <3>4. \A d \in Clients : \A k \in 1 .. Len(typed[d]) : typed[d][k].text # t
      BY <2>2 DEF NextTexts, Used
    <3>5. ASSUME NEW d \in Clients, NEW k \in 1 .. Len(typed'[d]), ~ (d = c /\ k = n)
          PROVE  k \in 1 .. Len(typed[d]) /\ typed'[d][k] = typed[d][k] /\ typed'[d][k].text # t
      BY <3>2, <3>3, <3>4, <3>5
    <3> HIDE DEF m, n
    <3> SUFFICES ASSUME NEW d \in Clients, NEW e \in Clients,
                        NEW k \in 1 .. Len(typed'[d]), NEW l \in 1 .. Len(typed'[e]),
                        typed'[d][k].text = typed'[e][l].text
                 PROVE  d = e /\ k = l
      BY DEF Distinct
    <3>6. CASE (d = c /\ k = n) \/ (e = c /\ l = n)
      BY <3>2, <3>5, <3>6
    <3>7. CASE ~ (d = c /\ k = n) /\ ~ (e = c /\ l = n)
      <4>1. k \in 1 .. Len(typed[d]) /\ typed'[d][k] = typed[d][k]
        BY <3>5, <3>7
      <4>2. l \in 1 .. Len(typed[e]) /\ typed'[e][l] = typed[e][l]
        BY <3>5, <3>7
      <4>3. typed[d][k].text = typed[e][l].text
        BY <4>1, <4>2
      <4> QED
        BY <4>1, <4>2, <4>3 DEF TextsInv, Distinct
    <3> QED
      BY <3>6, <3>7
  <2>3. typed' = typed \/ \E d \in Clients : \E p \in Phones : \E t \in NextTexts : ChoosePost(d, p, t)
    BY DEF Next, vars, clientVars, Acquire, ThreadStep, Hello, RecvCmd, RecvTel, RecvText, AppendRecord,
       ReadRecord, EndOfFile, Unlock, ClientStep, Connect, Refuse, TypeTel, TypeText, ChooseView,
       Leave, Mistype, Receive, Kill
  <2> QED
    BY <2>1, <2>2, <2>3
<1> QED
  BY <1>1, <1>2 DEF TextsInv

\* num[i] is the number of the message c's thread is at, or was at last, once i of
\* the frames in flight are received.
Numbers(c) == [0 .. Len(c2s[c]) -> 0 .. Len(typed[c])]

\* Frame i carries its part of message num[i].
Carries(c, at, num, i) ==
  /\ IF at[i - 1] = "cmd" /\ c2s[c][i] = "post" THEN num[i - 1] < num[i] ELSE num[i] = num[i - 1]
  /\ at[i - 1] = "tel" => num[i] # 0 /\ c2s[c][i] = typed[c][num[i]].tel
  /\ at[i - 1] = "text" => num[i] # 0 /\ c2s[c][i] = typed[c][num[i]].text

InOrder(c) ==
  /\ \A i, j \in 1 .. Len(file), k, l \in 1 .. Len(typed[c]) :
       IsPost(i, c, k) /\ IsPost(j, c, l) /\ i < j => k < l
  /\ \A i \in 1 .. Len(file), k \in 1 .. Len(typed[c]) : IsPost(i, c, k) => file[i] = typed[c][k]

\* Message k is the one c's thread was at last: it is in the file, or what has been
\* received of it is in the slot.
Under(c, k) ==
  pc[c] \in {"tel", "text", "wait", "append"} /\ slot[c].cmd = "post" =>
    /\ k # 0 /\ \A i \in 1 .. Len(file) : ~IsPost(i, c, k)
    /\ pc[c] # "tel" => slot[c].tel = typed[c][k].tel
    /\ pc[c] \in {"wait", "append"} => slot[c].text = typed[c][k].text

AtMessage(c, k) ==
  /\ \A i \in 1 .. Len(file), l \in 1 .. Len(typed[c]) : IsPost(i, c, l) => l <= k
  /\ Under(c, k)

\* The messages on their way continue those that are in the file.
Continues(c) ==
  \E at \in Labels(c2s[c]), num \in Numbers(c) :
    /\ Parses(c, at) /\ AtMessage(c, num[0])
    /\ \A i \in 1 .. Len(c2s[c]) : Carries(c, at, num, i)
    /\ cli[c] \in {"tel", "text"} => num[Len(c2s[c])] = Len(typed[c])

PostedOf(c) == c \notin failed => InOrder(c) /\ (pc[c] # "none" => Continues(c))

PostedInv == \A c \in Clients : PostedOf(c)

\* No message of c gets into the file in this step.
NoneAdded(c) ==
  /\ Len(typed[c]) \in Nat /\ Len(typed[c]) <= Len(typed'[c])
  /\ \A i \in 1 .. Len(file'), k \in 1 .. Len(typed'[c]) : IsPost(i, c, k)' =>
       /\ i \in 1 .. Len(file) /\ k \in 1 .. Len(typed[c]) /\ IsPost(i, c, k)
       /\ file'[i] = file[i] /\ typed'[c][k] = typed[c][k]

LEMMA NoneAddedOthers ==
  ASSUME TypeInv, TextsInv, EndTyped = FALSE, [Next]_vars, NEW c \in Clients,
         ~AppendRecord(c)
  PROVE  NoneAdded(c)
<1> USE YBAssumption
<1>0. /\ TypeOK /\ file \in Seq(Records) /\ typed \in [Clients -> Seq(Messages)] /\ Len(file) \in Nat
  <2>1. TypeOK
    BY DEF TypeInv
  <2>2. file \in Seq(Records)
    BY <2>1 DEF TypeOK
  <2>3. Len(file) \in Nat
    BY <2>2
  <2> QED
    BY <2>1, <2>2, <2>3 DEF TypeOK
<1>1. /\ Len(typed[c]) \in Nat /\ Len(typed'[c]) \in Nat /\ Len(typed[c]) <= Len(typed'[c])
      /\ \A k \in 1 .. Len(typed[c]) : typed'[c][k] = typed[c][k]
  BY <1>0, TypedGrows
<1>2. TextsInv'
  BY TextsStep
<1>3. ASSUME NEW i \in 1 .. Len(file'), NEW k \in 1 .. Len(typed'[c]), IsPost(i, c, k)'
      PROVE  i \in 1 .. Len(file) /\ file'[i] = file[i]
  <2>1. CASE file' = file
    BY <2>1
  <2>2. ASSUME NEW d \in Clients, AppendRecord(d), isOpen[d], ~Tired(d)
        PROVE  i \in 1 .. Len(file) /\ file'[i] = file[i]
    <3> DEFINE r == [tel |-> slot[d].tel, text |-> slot[d].text]
    <3>1. d # c /\ file' = Append(file, r) /\ typed' = typed
      BY <2>2 DEF AppendRecord, clientVars
    <3>2. r.text \in TypedAt(d) \cup {Fill}
      BY DEF TypeInv, OfClient, TextsOf
    <3>3. r.text # typed[c][k].text
      <4>1. CASE r.text = Fill
        <5>1. typed[c][k] \in Messages
          BY <1>0, <3>1
        <5> QED
          BY <4>1, <5>1 DEF Messages
      <4>2. CASE r.text \in TypedAt(d)
        BY <3>1, <4>2 DEF TextsInv, Distinct, TypedAt
      <4> QED
        BY <3>2, <4>1, <4>2
    <3>4. file'[i].text = typed[c][k].text
      BY <1>3, <3>1 DEF IsPost
    <3>5. (i \in 1 .. Len(file) /\ file'[i] = file[i]) \/ file'[i] = r
      <4>1. r \in Records
        <5>1. slot[d] \in [cmd : Commands, tel : Phones \cup {Fill}, text : Texts \cup {End, Fill}]
          BY <1>0 DEF TypeOK
        <5> QED
          BY <5>1 DEF Records
      <4> HIDE DEF r
      <4> QED
        BY <1>0, <3>1, <4>1, AppendElements
    <3> QED
      BY <3>3, <3>4, <3>5
  <2>3. file' = file \/ \E d \in Clients : AppendRecord(d) /\ isOpen[d] /\ ~Tired(d)
    BY DEF Next, vars, Acquire, ThreadStep, Hello, RecvCmd, RecvTel, RecvText, AppendRecord, ReadRecord,
       EndOfFile, Unlock, ClientStep, Connect, Refuse, ChoosePost, TypeTel, TypeText, ChooseView,
       Leave, Mistype, Receive, Kill
  <2> QED
    BY <2>1, <2>2, <2>3
<1>4. ASSUME NEW i \in 1 .. Len(file'), NEW k \in 1 .. Len(typed'[c]), IsPost(i, c, k)'
      PROVE  k \in 1 .. Len(typed[c])
  <2>1. CASE typed'[c] = typed[c]
    BY <1>4, <2>1
  <2>2. ASSUME NEW p \in Phones, NEW t \in NextTexts, ChoosePost(c, p, t), k \notin 1 .. Len(typed[c])
        PROVE  FALSE
    <3>1. typed'[c] = Append(typed[c], [tel |-> p, text |-> t]) /\ typed[c] \in Seq(Messages) /\ file' = file
      BY <1>0, <2>2 DEF ChoosePost
    <3>2. typed'[c][k] = [tel |-> p, text |-> t]
      <4>1. [tel |-> p, text |-> t] \in Messages
        BY DEF Messages, NextTexts
      <4> QED
        BY <1>1, <2>2, <3>1, <4>1, AppendElements
    <3>3. file[i].text = t /\ i \in 1 .. Len(file)
      BY <1>4, <3>1, <3>2 DEF IsPost
    <3>4. t # Fill /\ \A d \in Clients : t \notin TypedAt(d)
      BY <2>2 DEF NextTexts, Used, TypedAt
    <3> QED
      BY <3>3, <3>4 DEF TextsInv, FileTexts
  <2>3. typed'[c] = typed[c] \/ \E p \in Phones : \E t \in NextTexts : ChoosePost(c, p, t)
    <3>1. CASE typed' = typed
      BY <3>1
    <3>2. ASSUME NEW d \in Clients, d # c, NEW p \in Phones, NEW t \in NextTexts, ChoosePost(d, p, t)
          PROVE  typed'[c] = typed[c]
      BY <1>0, <3>2 DEF ChoosePost
    <3> QED
      BY <3>1, <3>2
      DEF Next, vars, clientVars, Acquire, ThreadStep, Hello, RecvCmd, RecvTel, RecvText, AppendRecord,
          ReadRecord, EndOfFile, Unlock, ClientStep, Connect, Refuse, TypeTel, TypeText, ChooseView,
          Leave, Mistype, Receive, Kill
  <2> QED
    BY <2>1, <2>2, <2>3
<1>5. ASSUME NEW i \in 1 .. Len(file'), NEW k \in 1 .. Len(typed'[c]), IsPost(i, c, k)'
      PROVE  /\ i \in 1 .. Len(file) /\ k \in 1 .. Len(typed[c]) /\ IsPost(i, c, k)
             /\ file'[i] = file[i] /\ typed'[c][k] = typed[c][k]
  <2>1. /\ i \in 1 .. Len(file) /\ k \in 1 .. Len(typed[c])
        /\ file'[i] = file[i] /\ typed'[c][k] = typed[c][k]
    BY <1>1, <1>3, <1>4, <1>5
  <2> QED
    BY <1>1, <1>5, <2>1 DEF IsPost
<1> QED
  BY <1>1, <1>5 DEF NoneAdded

\* Then the order of its messages, and where its thread is, stay as they are.
LEMMA KeptOrder ==
  ASSUME NEW c \in Clients, NoneAdded(c), InOrder(c)
  PROVE  InOrder(c)'
<1>1. ASSUME NEW i \in 1 .. Len(file'), NEW j \in 1 .. Len(file'),
             NEW k \in 1 .. Len(typed'[c]), NEW l \in 1 .. Len(typed'[c]),
             IsPost(i, c, k)', IsPost(j, c, l)', i < j
      PROVE  k < l
  BY <1>1 DEF NoneAdded, InOrder
<1>2. ASSUME NEW i \in 1 .. Len(file'), NEW k \in 1 .. Len(typed'[c]), IsPost(i, c, k)'
      PROVE  file'[i] = typed'[c][k]
  BY <1>2 DEF NoneAdded, InOrder
<1> QED
  BY <1>1, <1>2 DEF InOrder

LEMMA KeptBelow ==
  ASSUME NEW c \in Clients, NoneAdded(c), NEW k \in Nat,
         \A i \in 1 .. Len(file), l \in 1 .. Len(typed[c]) : IsPost(i, c, l) => l <= k
  PROVE  \A i \in 1 .. Len(file'), l \in 1 .. Len(typed'[c]) : IsPost(i, c, l)' => l <= k
  BY DEF NoneAdded

LEMMA KeptUnder ==
  ASSUME NEW c \in Clients, NoneAdded(c), NEW k \in 0 .. Len(typed[c]), Under(c, k),
         k # 0 => typed'[c][k] = typed[c][k],
         pc'[c] = pc[c] \/ (pc[c] = "wait" /\ pc'[c] = "append") \/ pc'[c] \notin {"tel", "text", "wait", "append"},
         slot'[c] = slot[c]
  PROVE  Under(c, k)'
<1>1. ASSUME k # 0, \A i \in 1 .. Len(file) : ~IsPost(i, c, k), NEW i \in 1 .. Len(file')
      PROVE  ~IsPost(i, c, k)'
  <2>1. k \in 1 .. Len(typed'[c])
    BY <1>1 DEF NoneAdded, IsPost
  <2> QED
    BY <1>1, <2>1 DEF NoneAdded
<1> QED
  BY <1>1 DEF Under

LEMMA PostedElsewhere ==
  ASSUME TypeInv, NEW d \in Clients, PostedOf(d), NoneAdded(d), Stage(d)' = Stage(d),
         pc[d] = "none" => pc'[d] = "none",
         pc'[d] = pc[d] \/ (pc[d] = "wait" /\ pc'[d] = "append") \/ pc'[d] \notin {"tel", "text", "wait", "append"},
         slot'[d] = slot[d], d \in failed' <=> d \in failed, c2s'[d] = c2s[d],
         typed'[d] = typed[d], Typing(d)' = Typing(d), cli'[d] \in {"tel", "text"} => cli[d] \in {"tel", "text"},
         cli[d] = "off" => cli'[d] = "off"
  PROVE  PostedOf(d)'
<1> SUFFICES ASSUME d \notin failed PROVE InOrder(d)' /\ (pc'[d] # "none" => Continues(d)')
  BY DEF PostedOf
<1>1. InOrder(d)'
  BY KeptOrder DEF PostedOf
<1>2. ASSUME pc'[d] # "none" PROVE Continues(d)'
  <2>1. PICK at \in Labels(c2s[d]), num \in Numbers(d) :
          /\ Parses(d, at) /\ AtMessage(d, num[0])
          /\ \A i \in 1 .. Len(c2s[d]) : Carries(d, at, num, i)
          /\ cli[d] \in {"tel", "text"} => num[Len(c2s[d])] = Len(typed[d])
    BY <1>2 DEF PostedOf, Continues
  <2>2. Parses(d, at)'
    BY <2>1 DEF Parses, TypedAt
  <2>3. num[0] \in 0 .. Len(typed[d]) /\ num[0] \in Nat
    <3>1. Len(c2s[d]) \in Nat
      BY DEF TypeInv, TypeOK
    <3> QED
      BY <3>1 DEF Numbers, NoneAdded
  <2>4. AtMessage(d, num[0])'
    <3>1. \A i \in 1 .. Len(file'), l \in 1 .. Len(typed'[d]) : IsPost(i, d, l)' => l <= num[0]
      BY <2>1, <2>3, KeptBelow DEF AtMessage
    <3>2. Under(d, num[0])'
      BY <2>1, <2>3, KeptUnder DEF AtMessage
    <3> QED
      BY <3>1, <3>2 DEF AtMessage
  <2>5. \A i \in 1 .. Len(c2s'[d]) : Carries(d, at, num, i)'
    BY <2>1 DEF Carries
  <2> QED
    BY <2>1, <2>2, <2>4, <2>5 DEF Continues, Numbers
<1> QED
  BY <1>1, <1>2

\* A thread receives a frame: it goes on to the next message, or on with its own.
LEMMA PostedReceiving ==
  ASSUME TypeInv, NEW c \in Clients, PostedOf(c), NoneAdded(c),
         Hello(c) \/ RecvCmd(c) \/ RecvTel(c) \/ RecvText(c)
  PROVE  PostedOf(c)'
<1> USE YBAssumption DEF clientVars
<1>0. /\ TypeOK /\ pc \in [Clients -> ThreadPCs] /\ failed \subseteq Clients /\ CommandOf(c)
      /\ slot \in [Clients -> [cmd : Commands, tel : Phones \cup {Fill}, text : Texts \cup {End, Fill}]]
  BY DEF TypeInv, TypeOK, OfClient
<1>1. UNCHANGED <<file, cli, typed>>
  BY DEF Hello, RecvCmd, RecvTel, RecvText
<1>2. CASE NotReceived(c)
  <2>1. c \in failed'
    BY <1>0, <1>2 DEF NotReceived
  <2> QED
    BY <2>1 DEF PostedOf
<1>3. CASE c \in failed /\ Received(c)
  BY <1>3 DEF PostedOf, Received
<1>4. CASE c \notin failed /\ Received(c)
  <2>1. InOrder(c)'
    BY <1>4, KeptOrder DEF PostedOf
  <2>2. CASE pc'[c] = "none"
    BY <2>1, <2>2 DEF PostedOf
  <2>3. CASE pc'[c] # "none"
    <3>1. /\ pc[c] \in {"hello", "cmd", "tel", "text"} /\ Stage(c) = pc[c] /\ c2s[c] # <<>>
      BY <1>4 DEF Hello, RecvCmd, RecvTel, RecvText, Received, Goto, Stage
    <3>2. PICK at \in Labels(c2s[c]), num \in Numbers(c) :
            /\ Parses(c, at) /\ AtMessage(c, num[0])
            /\ \A i \in 1 .. Len(c2s[c]) : Carries(c, at, num, i)
            /\ cli[c] \in {"tel", "text"} => num[Len(c2s[c])] = Len(typed[c])
      BY <1>4, <3>1 DEF PostedOf, Continues
    <3>3. /\ pc[c] = "hello" => pc'[c] = "cmd" /\ slot' = slot
          /\ pc[c] = "cmd" =>
               \/ Head(c2s[c]) = "post" /\ pc'[c] = "tel"
               \/ Head(c2s[c]) = "view" /\ pc'[c] = "wait" /\ slot'[c].cmd = "view"
          /\ pc[c] = "tel" => /\ pc'[c] = "text" /\ slot'[c].tel = Head(c2s[c])
          /\ pc[c] = "text" => /\ pc'[c] = "wait" /\ slot'[c].text = Head(c2s[c])
                               /\ slot'[c].tel = slot[c].tel
      <4>1. CASE Hello(c)
        BY <1>0, <4>1 DEF Hello, Goto
      <4>2. CASE RecvCmd(c)
        <5>1. /\ Head(c2s[c]) \in Commands /\ pc[c] = "cmd" /\ pc'[c] = Case(Head(c2s[c]))
              /\ Case(Head(c2s[c])) # "none" => slot'[c].cmd = Head(c2s[c])
          BY <1>0, <3>1, <4>2 DEF RecvCmd, NotReceived, Goto
        <5>2. Head(c2s[c]) = "post" \/ Head(c2s[c]) = "view"
          BY <2>3, <5>1 DEF Case, Commands
        <5> QED
          BY <5>1, <5>2 DEF Case
      <4>3. CASE RecvTel(c)
        <5>1. slot' = [slot EXCEPT ![c].tel = Head(c2s[c])]
          BY <3>1, <4>3 DEF RecvTel, NotReceived
        <5> QED
          BY <1>0, <4>3, <5>1 DEF RecvTel, Goto
      <4>4. CASE RecvText(c)
        <5>1. slot' = [slot EXCEPT ![c].text = Head(c2s[c])]
          BY <3>1, <4>4 DEF RecvText, NotReceived
        <5> QED
          BY <1>0, <4>4, <5>1 DEF RecvText, Goto
      <4> QED
        BY <4>1, <4>2, <4>3, <4>4
    <3>4. Stage(c)' = After(Stage(c), Head(c2s[c]))
      BY <3>1, <3>3 DEF Stage, After
    <3>5. /\ Len(c2s[c]) \in Nat \ {0} /\ Len(c2s'[c]) = Len(c2s[c]) - 1
          /\ \A i \in 1 .. Len(c2s'[c]) : c2s'[c][i] = c2s[c][i + 1]
          /\ Head(c2s[c]) = c2s[c][1] /\ at[0] = pc[c]
          /\ \E new \in Labels(c2s'[c]) :
               /\ Parses(c, new)'
               /\ \A i \in 0 .. Len(c2s'[c]) : new[i] = at[i + 1]
      BY <1>1, <1>4, <3>1, <3>2, <3>4, ReceivedParse
    <3>6. PICK new \in Labels(c2s'[c]) :
            Parses(c, new)' /\ \A i \in 0 .. Len(c2s'[c]) : new[i] = at[i + 1]
      BY <3>5
    <3>7. PICK later \in [0 .. Len(c2s'[c]) -> 0 .. Len(typed'[c])] :
            \A i \in 0 .. Len(c2s'[c]) : later[i] = num[i + 1] /\ i + 1 \in 0 .. Len(c2s[c])
      <4> DEFINE f == [i \in 0 .. Len(c2s'[c]) |-> num[i + 1]]
      <4>1. \A i \in 0 .. Len(c2s'[c]) : f[i] = num[i + 1] /\ i + 1 \in 0 .. Len(c2s[c])
        BY <3>5
      <4>2. f \in [0 .. Len(c2s'[c]) -> 0 .. Len(typed'[c])]
        BY <1>1, <4>1 DEF Numbers
      <4> HIDE DEF f
      <4> QED
        BY <4>1, <4>2
    <3>9. later[0] = num[1] /\ later[Len(c2s'[c])] = num[Len(c2s[c])]
      BY <3>5, <3>7
    <3>10. ASSUME NEW i \in 1 .. Len(c2s'[c])
           PROVE  Carries(c, new, later, i)'
      <4>1. /\ later[i] = num[i + 1] /\ later[i - 1] = num[i] /\ new[i - 1] = at[i]
            /\ c2s'[c][i] = c2s[c][i + 1] /\ (i + 1) - 1 = i /\ i + 1 \in 1 .. Len(c2s[c])
        <5>1. /\ i \in 0 .. Len(c2s'[c]) /\ i - 1 \in 0 .. Len(c2s'[c]) /\ (i - 1) + 1 = i
              /\ (i + 1) - 1 = i /\ i + 1 \in 1 .. Len(c2s[c])
          BY <3>5
        <5>2. later[i] = num[i + 1]
          BY <3>7, <5>1
        <5>3. later[i - 1] = num[(i - 1) + 1]
          BY <3>7, <5>1
        <5>4. new[i - 1] = at[(i - 1) + 1]
          BY <3>6, <5>1
        <5> QED
          BY <3>5, <5>1, <5>2, <5>3, <5>4
      <4>2. Carries(c, at, num, i + 1)
        BY <3>2, <4>1
      <4> QED
        BY <1>1, <4>1, <4>2 DEF Carries
    <3>11. /\ num[0] \in 0 .. Len(typed[c]) /\ num[1] \in 0 .. Len(typed[c])
           /\ num[0] \in Nat /\ num[1] \in Nat
      BY <3>5 DEF Numbers, NoneAdded
    <3>12. /\ IF pc[c] = "cmd" /\ Head(c2s[c]) = "post" THEN num[0] < num[1] ELSE num[1] = num[0]
           /\ pc[c] = "tel" => num[1] # 0 /\ Head(c2s[c]) = typed[c][num[1]].tel
           /\ pc[c] = "text" => num[1] # 0 /\ Head(c2s[c]) = typed[c][num[1]].text
      <4>1. Carries(c, at, num, 1) /\ 1 - 1 = 0
        BY <3>2, <3>5
      <4> QED
        BY <3>5, <4>1 DEF Carries
    <3>13. \A i \in 1 .. Len(file), l \in 1 .. Len(typed[c]) : IsPost(i, c, l) => l <= num[0]
      BY <3>2 DEF AtMessage
    <3>14. \A i \in 1 .. Len(file'), l \in 1 .. Len(typed'[c]) : IsPost(i, c, l)' => l <= num[1]
      <4>1. num[0] <= num[1]
        BY <3>11, <3>12
      <4>2. \A i \in 1 .. Len(file), l \in 1 .. Len(typed[c]) : IsPost(i, c, l) => l <= num[1]
        BY <3>11, <3>13, <4>1
      <4> QED
        BY <3>11, <4>2, KeptBelow
    <3>15. \A i \in 1 .. Len(file), k \in Nat : IsPost(i, c, k)' <=> IsPost(i, c, k)
      BY <1>1 DEF IsPost
    <3>16. Under(c, num[1])'
      <4>1. CASE pc[c] = "hello"
        BY <3>3, <4>1 DEF Under
      <4>2. CASE pc[c] = "cmd"
        <5>1. CASE Head(c2s[c]) = "post"
          <6>1. pc'[c] = "tel" /\ num[0] < num[1]
            BY <3>3, <3>12, <4>2, <5>1
          <6>2. num[1] \in 1 .. Len(typed[c]) /\ num[1] # 0 /\ ~ (num[1] <= num[0])
            BY <3>11, <6>1
          <6>3. \A i \in 1 .. Len(file) : ~IsPost(i, c, num[1])
            BY <3>13, <6>2
          <6> QED
            BY <1>1, <3>11, <3>15, <6>1, <6>2, <6>3 DEF Under
        <5>2. CASE Head(c2s[c]) # "post"
          BY <3>3, <4>2, <5>2 DEF Under
        <5> QED
          BY <5>1, <5>2
      <4>3. CASE pc[c] = "tel"
        <5>1. Under(c, num[0]) /\ slot[c].cmd = "post" /\ num[1] = num[0]
          BY <1>0, <3>2, <3>12, <4>3 DEF AtMessage, CommandOf
        <5>2. \A i \in 1 .. Len(file) : ~IsPost(i, c, num[1])
          BY <4>3, <5>1 DEF Under
        <5> QED
          BY <1>1, <3>3, <3>11, <3>12, <3>15, <4>3, <5>2 DEF Under
      <4>4. CASE pc[c] = "text"
        <5>1. Under(c, num[0]) /\ slot[c].cmd = "post" /\ num[1] = num[0]
          BY <1>0, <3>2, <3>12, <4>4 DEF AtMessage, CommandOf
        <5>2. (\A i \in 1 .. Len(file) : ~IsPost(i, c, num[1])) /\ slot[c].tel = typed[c][num[1]].tel
          BY <4>4, <5>1 DEF Under
        <5> QED
          BY <1>1, <3>3, <3>11, <3>12, <3>15, <4>4, <5>2 DEF Under
      <4> QED
        BY <3>1, <4>1, <4>2, <4>3, <4>4
    <3>17. AtMessage(c, later[0])'
      BY <3>9, <3>14, <3>16 DEF AtMessage
    <3>18. cli'[c] \in {"tel", "text"} => later[Len(c2s'[c])] = Len(typed'[c])
      BY <1>1, <3>2, <3>9
    <3>19. later \in Numbers(c)'
      BY DEF Numbers
    <3>20. Continues(c)'
      BY <3>6, <3>10, <3>17, <3>18, <3>19 DEF Continues
    <3> QED
      BY <2>1, <3>20 DEF PostedOf
  <2> QED
    BY <2>2, <2>3
<1> QED
  BY <1>2, <1>3, <1>4 DEF Hello, RecvCmd, RecvTel, RecvText

\* A thread appends the message it was sent: it is behind all earlier ones.
LEMMA PostedAppending ==
  ASSUME TypeInv, TextsInv, NEW c \in Clients, PostedOf(c), AppendRecord(c)
  PROVE  PostedOf(c)'
<1> USE DEF clientVars
<1>0. /\ pc \in [Clients -> ThreadPCs] /\ CommandOf(c) /\ file \in Seq(Records)
      /\ slot[c] \in [cmd : Commands, tel : Phones \cup {Fill}, text : Texts \cup {End, Fill}]
      /\ typed[c] \in Seq(Messages)
  BY DEF TypeInv, TypeOK, OfClient
<1>1. /\ UNCHANGED <<slot, failed, c2s, cli, typed>>
      /\ pc[c] = "append" /\ pc'[c] = "unlock" /\ slot[c].cmd = "post"
  BY <1>0 DEF AppendRecord, Goto, CommandOf
<1>2. SUFFICES ASSUME c \notin failed PROVE InOrder(c)' /\ Continues(c)'
  BY <1>1 DEF PostedOf
<1>3. PICK at \in Labels(c2s[c]), num \in Numbers(c) :
        /\ Parses(c, at) /\ AtMessage(c, num[0])
        /\ \A i \in 1 .. Len(c2s[c]) : Carries(c, at, num, i)
        /\ cli[c] \in {"tel", "text"} => num[Len(c2s[c])] = Len(typed[c])
  BY <1>1, <1>2 DEF PostedOf, Continues
<1> DEFINE n == num[0]
           r == [tel |-> slot[c].tel, text |-> slot[c].text]
<1>4. n \in 0 .. Len(typed[c]) /\ Len(typed[c]) \in Nat
  <2>1. Len(c2s[c]) \in Nat
    BY DEF TypeInv, TypeOK
  <2>2. Len(typed[c]) \in Nat
    BY <1>0
  <2> QED
    BY <2>1, <2>2 DEF Numbers
<1>5. /\ n # 0 /\ slot[c].tel = typed[c][n].tel /\ slot[c].text = typed[c][n].text
      /\ \A i \in 1 .. Len(file) : ~IsPost(i, c, n)
      /\ \A i \in 1 .. Len(file), l \in 1 .. Len(typed[c]) : IsPost(i, c, l) => l <= n
  BY <1>1, <1>3 DEF AtMessage, Under
<1>6. n \in 1 .. Len(typed[c])
  BY <1>4, <1>5
<1>7. r = typed[c][n] /\ r \in Records
  <2>1. typed[c][n] \in Messages
    BY <1>0, <1>6
  <2>2. r \in Records
    BY <1>0 DEF Records
  <2> QED
    BY <1>5, <2>1, <2>2 DEF Messages
<1>8. /\ \A i \in 1 .. Len(file') : \/ i \in 1 .. Len(file) /\ file'[i] = file[i]
                                    \/ i = Len(file) + 1 /\ file'[i] = typed[c][n]
      /\ Len(file) \in Nat
  <2>1. file' = file \/ file' = Append(file, r)
    BY DEF AppendRecord
  <2> HIDE DEF r, n
  <2>2. /\ Len(file) \in Nat /\ Len(Append(file, r)) = Len(file) + 1
        /\ \A i \in 1 .. Len(file) : Append(file, r)[i] = file[i]
        /\ Append(file, r)[Len(file) + 1] = r
    BY <1>0, <1>7, AppendElements
  <2> QED
    BY <1>7, <2>1, <2>2
<1> HIDE DEF n, r
<1>9. ASSUME NEW i \in 1 .. Len(file'), NEW k \in 1 .. Len(typed[c]), IsPost(i, c, k)'
      PROVE  /\ file'[i] = typed[c][k] /\ k <= n
             /\ i \in 1 .. Len(file) => k < n /\ IsPost(i, c, k) /\ i < Len(file) + 1
             /\ i \notin 1 .. Len(file) => k = n /\ i = Len(file) + 1
  <2>1. file'[i].text = typed[c][k].text /\ k <= Len(typed[c])
    BY <1>1, <1>9 DEF IsPost
  <2>2. CASE i \in 1 .. Len(file)
    <3>1. file'[i] = file[i]
      BY <1>8, <2>2
    <3>2. IsPost(i, c, k)
      BY <2>1, <3>1 DEF IsPost
    <3>3. k <= n /\ k # n
      BY <1>5, <2>2, <3>2
    <3>4. file[i] = typed[c][k]
      BY <1>2, <2>2, <3>2 DEF PostedOf, InOrder
    <3>5. k < n
      BY <1>4, <3>3
    <3> QED
      BY <1>8, <2>2, <3>1, <3>2, <3>3, <3>4, <3>5
  <2>3. CASE i \notin 1 .. Len(file)
    <3>1. i = Len(file) + 1 /\ file'[i] = typed[c][n]
      BY <1>8, <2>3
    <3>2. k = n
      BY <1>6, <2>1, <3>1 DEF TextsInv, Distinct
    <3> QED
      BY <1>4, <2>3, <3>1, <3>2
  <2> QED
    BY <2>2, <2>3
<1>10. InOrder(c)'
  <2>1. ASSUME NEW i \in 1 .. Len(file'), NEW j \in 1 .. Len(file'),
               NEW k \in 1 .. Len(typed[c]), NEW l \in 1 .. Len(typed[c]),
               IsPost(i, c, k)', IsPost(j, c, l)', i < j
        PROVE  k < l
    <3>1. CASE j \in 1 .. Len(file)
      <4>1. i \in 1 .. Len(file)
        BY <1>8, <2>1, <3>1
      <4>2. IsPost(i, c, k) /\ IsPost(j, c, l)
        BY <1>9, <2>1, <3>1, <4>1
      <4> QED
        BY <1>2, <2>1, <3>1, <4>1, <4>2 DEF PostedOf, InOrder
    <3>2. CASE j \notin 1 .. Len(file)
      <4>1. l = n /\ j = Len(file) + 1
        BY <1>9, <2>1, <3>2
      <4>2. i \in 1 .. Len(file)
        BY <1>8, <2>1, <4>1
      <4> QED
        BY <1>9, <2>1, <4>1, <4>2
    <3> QED
      BY <3>1, <3>2
  <2> QED
    BY <1>1, <1>9, <2>1 DEF InOrder
<1>11. AtMessage(c, n)'
  BY <1>1, <1>9 DEF AtMessage, Under
<1>12. Parses(c, at)'
  BY <1>1, <1>3 DEF Parses, TypedAt, Typing, Stage
<1>13. \A i \in 1 .. Len(c2s'[c]) : Carries(c, at, num, i)'
  BY <1>1, <1>3 DEF Carries
<1>14. Continues(c)'
  BY <1>1, <1>3, <1>11, <1>12, <1>13 DEF Continues, Numbers, n
<1> QED
  BY <1>10, <1>14

\* A client sends a frame: it begins the next message, or belongs to the last.
LEMMA PostedSending ==
  ASSUME TypeInv, TypeOK', NEW c \in Clients, PostedOf(c), NoneAdded(c), cli[c] # "off",
         NEW frame \in Phones \cup Commands \cup Texts \cup {End}, Put(c, frame),
         TypedAt(c) \subseteq TypedAt(c)', Fits(Typing(c), frame, TypedAt(c)'),
         cli'[c] # "off" => Typing(c)' = After(Typing(c), frame),
         pc'[c] = pc[c], slot'[c] = slot[c], c \in failed' <=> c \in failed,
         \A k \in 1 .. Len(typed[c]) : typed'[c][k] = typed[c][k],
         Typing(c) = "cmd" /\ frame = "post" => Len(typed'[c]) = Len(typed[c]) + 1,
         Typing(c) = "cmd" /\ frame # "post" => cli'[c] \notin {"tel", "text"},
         Typing(c) # "cmd" => /\ Len(typed'[c]) = Len(typed[c]) /\ typed[c] # <<>>
                              /\ frame = IF Typing(c) = "tel" THEN Composed(c).tel ELSE Composed(c).text
  PROVE  PostedOf(c)'
<1>1. SUFFICES ASSUME c \notin failed, pc[c] # "none" PROVE Continues(c)'
  BY KeptOrder DEF PostedOf
<1>2. PICK at \in Labels(c2s[c]), num \in Numbers(c) :
        /\ Parses(c, at) /\ AtMessage(c, num[0])
        /\ \A i \in 1 .. Len(c2s[c]) : Carries(c, at, num, i)
        /\ cli[c] \in {"tel", "text"} => num[Len(c2s[c])] = Len(typed[c])
  BY <1>1 DEF PostedOf, Continues
<1>3. /\ Len(c2s[c]) \in Nat /\ Len(c2s'[c]) = Len(c2s[c]) + 1
      /\ \A i \in 1 .. Len(c2s[c]) : c2s'[c][i] = c2s[c][i]
      /\ c2s'[c][Len(c2s'[c])] = frame /\ at[Len(c2s[c])] = Typing(c)
      /\ \E new \in Labels(c2s'[c]) :
           /\ Parses(c, new)'
           /\ \A i \in 0 .. Len(c2s[c]) : new[i] = at[i]
  BY <1>1, <1>2, PutParse
<1>4. PICK new \in Labels(c2s'[c]) :
        Parses(c, new)' /\ \A i \in 0 .. Len(c2s[c]) : new[i] = at[i]
  BY <1>3
<1>5. Len(typed[c]) \in Nat /\ Len(typed'[c]) \in Nat /\ Len(typed[c]) <= Len(typed'[c])
  <2>1. typed[c] \in Seq(Messages) /\ typed'[c] \in Seq(Messages)
    BY DEF TypeInv, TypeOK
  <2> QED
    BY <2>1 DEF NoneAdded
<1>6. /\ \A i \in 0 .. Len(c2s[c]) : num[i] \in 0 .. Len(typed[c])
      /\ Typing(c) # "cmd" => num[Len(c2s[c])] = Len(typed[c])
  BY <1>2 DEF Numbers, Typing
<1>7. PICK longer \in [0 .. Len(c2s'[c]) -> 0 .. Len(typed'[c])] :
        /\ \A i \in 0 .. Len(c2s[c]) : longer[i] = num[i]
        /\ longer[Len(c2s'[c])] = IF Typing(c) = "cmd" /\ frame = "post"
                                    THEN Len(typed'[c]) ELSE num[Len(c2s[c])]
  <2> DEFINE last == IF Typing(c) = "cmd" /\ frame = "post" THEN Len(typed'[c]) ELSE num[Len(c2s[c])]
             f == [i \in 0 .. Len(c2s'[c]) |-> IF i <= Len(c2s[c]) THEN num[i] ELSE last]
  <2>1. last \in 0 .. Len(typed'[c])
    BY <1>3, <1>5, <1>6
  <2> HIDE DEF last
  <2>2. /\ \A i \in 0 .. Len(c2s[c]) : f[i] = num[i]
        /\ f[Len(c2s'[c])] = last
    BY <1>3
  <2>3. f \in [0 .. Len(c2s'[c]) -> 0 .. Len(typed'[c])]
    BY <1>3, <1>5, <1>6, <2>1
  <2> HIDE DEF f
  <2> QED
    BY <2>2, <2>3 DEF last
<1>8. ASSUME NEW i \in 1 .. Len(c2s'[c])
      PROVE  Carries(c, new, longer, i)'
  <2>1. CASE i \in 1 .. Len(c2s[c])
    <3>1. /\ i \in 0 .. Len(c2s[c]) /\ i - 1 \in 0 .. Len(c2s[c])
      BY <1>3, <2>1
    <3>2. /\ longer[i] = num[i] /\ longer[i - 1] = num[i - 1] /\ new[i - 1] = at[i - 1]
          /\ c2s'[c][i] = c2s[c][i]
      BY <1>3, <1>4, <1>7, <2>1, <3>1
    <3>3. Carries(c, at, num, i)
      BY <1>2, <2>1
    <3>4. num[i] # 0 => typed'[c][num[i]] = typed[c][num[i]]
      BY <1>5, <1>6, <3>1
    <3> QED
      BY <3>2, <3>3, <3>4 DEF Carries
  <2>2. CASE i = Len(c2s'[c])
    <3>1. /\ i - 1 = Len(c2s[c]) /\ longer[i - 1] = num[Len(c2s[c])] /\ new[i - 1] = Typing(c)
          /\ c2s'[c][i] = frame
      BY <1>3, <1>4, <1>7, <2>2
    <3>2. num[Len(c2s[c])] \in 0 .. Len(typed[c])
      BY <1>3, <1>6
    <3>3. CASE Typing(c) = "cmd" /\ frame = "post"
      <4>1. longer[i] = Len(typed'[c]) /\ longer[i - 1] < longer[i]
        BY <1>5, <1>7, <2>2, <3>1, <3>2, <3>3
      <4> QED
        BY <3>1, <3>3, <4>1 DEF Carries
    <3>4. CASE Typing(c) = "cmd" /\ frame # "post"
      BY <1>7, <2>2, <3>1, <3>4 DEF Carries
    <3>5. CASE Typing(c) # "cmd"
      <4>1. longer[i] = Len(typed[c]) /\ longer[i - 1] = longer[i]
        BY <1>6, <1>7, <2>2, <3>1, <3>5
      <4>2. Len(typed[c]) # 0
        <5>1. typed[c] \in Seq(Messages)
          BY DEF TypeInv, TypeOK
        <5> QED
          BY <3>5, <5>1
      <4>3. typed'[c][Len(typed[c])] = Composed(c)
        BY <1>5, <4>2 DEF Composed
      <4>4. Typing(c) \in {"tel", "text"}
        BY <3>5 DEF Typing
      <4> QED
        BY <3>1, <3>5, <4>1, <4>2, <4>3, <4>4 DEF Carries
    <3> QED
      BY <3>3, <3>4, <3>5
  <2> QED
    BY <1>3, <2>1, <2>2
<1>9. longer[0] = num[0] /\ num[0] \in 0 .. Len(typed[c]) /\ num[0] \in Nat
  BY <1>3, <1>5, <1>6, <1>7
<1>10. AtMessage(c, longer[0])'
  <2>1. \A i \in 1 .. Len(file'), l \in 1 .. Len(typed'[c]) : IsPost(i, c, l)' => l <= num[0]
    BY <1>2, <1>9, KeptBelow DEF AtMessage
  <2>2. num[0] # 0 => typed'[c][num[0]] = typed[c][num[0]]
    BY <1>5, <1>9
  <2>3. Under(c, num[0])'
    BY <1>2, <1>9, <2>2, KeptUnder DEF AtMessage
  <2> QED
    BY <1>9, <2>1, <2>3 DEF AtMessage
<1>11. cli'[c] \in {"tel", "text"} => longer[Len(c2s'[c])] = Len(typed'[c])
  BY <1>6, <1>7
<1> QED
  BY <1>4, <1>8, <1>10, <1>11 DEF Continues, Numbers

\* A client connects: its messages continue behind all that were typed before.
LEMMA PostedConnecting ==
  ASSUME TypeInv, NEW c \in Clients, NEW p \in Phones, PostedOf(c), NoneAdded(c), Connect(c, p)
  PROVE  PostedOf(c)'
<1>1. /\ pc'[c] = "hello" /\ cli'[c] = "menu" /\ c2s'[c] = <<p>> /\ UNCHANGED <<file, failed, typed>>
  BY DEF TypeInv, TypeOK, Connect, StartClient, Goto
<1>2. StreamOf(c)'
  BY ClientType DEF ClientStep, TypeInv, OfClient
<1>3. PICK at \in Labels(c2s'[c]) : Parses(c, at)'
  BY <1>1, <1>2 DEF StreamOf
<1>4. at[0] = "hello"
  BY <1>1, <1>3 DEF Parses, Stage
<1>5. typed[c] \in Seq(Messages) /\ Len(typed[c]) \in Nat
  <2>1. typed[c] \in Seq(Messages)
    BY DEF TypeInv, TypeOK
  <2> QED
    BY <2>1
<1>6. Len(c2s'[c]) = 1 /\ \A i \in 1 .. Len(c2s'[c]) : i = 1 /\ i - 1 = 0
  BY <1>1
<1>7. PICK num \in [0 .. 1 -> 0 .. Len(typed[c])] : num[0] = Len(typed[c]) /\ num[1] = Len(typed[c])
  <2> DEFINE f == [i \in 0 .. 1 |-> Len(typed[c])]
  <2>1. f \in [0 .. 1 -> 0 .. Len(typed[c])] /\ f[0] = Len(typed[c]) /\ f[1] = Len(typed[c])
    BY <1>5
  <2> HIDE DEF f
  <2> QED
    BY <2>1
<1>8. AtMessage(c, num[0])'
  BY <1>1, <1>5, <1>7 DEF AtMessage, Under
<1>9. \A i \in 1 .. Len(c2s'[c]) : Carries(c, at, num, i)'
  BY <1>4, <1>6, <1>7 DEF Carries
<1>10. num \in Numbers(c)'
  BY <1>1, <1>6 DEF Numbers
<1>11. Continues(c)'
  BY <1>1, <1>3, <1>8, <1>9, <1>10 DEF Continues
<1> QED
  BY <1>1, <1>11, KeptOrder DEF PostedOf

\* A client is killed: the frames that still arrive are those of earlier messages.
LEMMA PostedKill ==
  ASSUME TypeInv, NEW c \in Clients, PostedOf(c), NoneAdded(c), Kill(c)
  PROVE  PostedOf(c)'
<1> USE DEF serverVars
<1> DEFINE S == Phones \cup Commands \cup Texts \cup {End}
           q == c2s[c]
<1>0. c2s \in [Clients -> Seq(S)] /\ q \in Seq(S) /\ Len(q) \in Nat /\ cli \in [Clients -> ClientPCs]
  <2>1. c2s \in [Clients -> Seq(S)] /\ cli \in [Clients -> ClientPCs]
    BY DEF TypeInv, TypeOK
  <2>2. q \in Seq(S)
    BY <2>1
  <2>3. Len(q) \in Nat
    BY <2>2
  <2> QED
    BY <2>1, <2>2, <2>3
<1>1. cli'[c] = "off" /\ UNCHANGED <<file, serverVars, typed>>
  BY <1>0 DEF Kill
<1>2. SUFFICES ASSUME c \notin failed, pc[c] # "none" PROVE Continues(c)'
  BY <1>1, KeptOrder DEF PostedOf
<1>3. PICK n \in 0 .. Len(q) : c2s'[c] = SubSeq(q, 1, n)
  <2>1. CASE UNCHANGED c2s
    <3>1. SubSeq(q, 1, Len(q)) = q
      BY <1>0
    <3>2. Len(q) \in 0 .. Len(q) /\ c2s'[c] = q
      BY <1>0, <2>1
    <3> HIDE DEF S, q
    <3> QED
      BY <3>1, <3>2
  <2>2. CASE \E n \in 0 .. Len(q) : c2s' = [c2s EXCEPT ![c] = SubSeq(@, 1, n)]
    BY <1>0, <2>2
  <2> QED
    BY <2>1, <2>2 DEF Kill
<1>4. PICK at \in Labels(q), num \in Numbers(c) :
        /\ Parses(c, at) /\ AtMessage(c, num[0])
        /\ \A i \in 1 .. Len(q) : Carries(c, at, num, i)
  BY <1>2 DEF PostedOf, Continues
<1>5. /\ Len(c2s'[c]) = n /\ \A i \in 1 .. n : c2s'[c][i] = q[i]
  <2> HIDE DEF S, q
  <2> QED
    BY <1>0, <1>3, PrefixElements
<1>6. PICK new \in Labels(c2s'[c]) :
        IsParse(c2s'[c], new, TypedAt(c)) /\ \A i \in 0 .. n : new[i] = at[i]
  <2>1. IsParse(q, at, TypedAt(c))
    BY <1>4 DEF Parses
  <2> HIDE DEF S, q
  <2> QED
    BY <1>0, <1>3, <1>4, <2>1, ParsePrefix
<1>7. Parses(c, new)'
  <2>1. new[0] = Stage(c)
    BY <1>4, <1>6 DEF Parses
  <2> QED
    BY <1>1, <1>6, <2>1 DEF Parses, TypedAt, Stage
<1>8. PICK first \in [0 .. n -> 0 .. Len(typed[c])] : \A i \in 0 .. n : first[i] = num[i]
  <2> DEFINE f == [i \in 0 .. n |-> num[i]]
  <2>1. \A i \in 0 .. n : i \in 0 .. Len(q)
    BY <1>0
  <2>2. \A i \in 0 .. n : num[i] \in 0 .. Len(typed[c])
    BY <2>1 DEF Numbers
  <2>3. f \in [0 .. n -> 0 .. Len(typed[c])] /\ \A i \in 0 .. n : f[i] = num[i]
    BY <2>2, Zenon
  <2> HIDE DEF f
  <2> QED
    BY <2>3
<1>9. \A i \in 1 .. Len(c2s'[c]) : Carries(c, new, first, i)'
  <2> SUFFICES ASSUME NEW i \in 1 .. n PROVE Carries(c, new, first, i)'
    BY <1>5
  <2>1. i \in 1 .. Len(q) /\ i \in 0 .. n /\ i - 1 \in 0 .. n
    BY <1>0
  <2>2. first[i] = num[i] /\ first[i - 1] = num[i - 1] /\ new[i - 1] = at[i - 1] /\ c2s'[c][i] = q[i]
    BY <1>5, <1>6, <1>8, <2>1
  <2>3. Carries(c, at, num, i)
    BY <1>4, <2>1
  <2> QED
    BY <1>1, <2>2, <2>3 DEF Carries
<1>10. AtMessage(c, first[0])'
  <2>1. first[0] = num[0]
    BY <1>8
  <2>2. AtMessage(c, num[0])'
    BY <1>1, <1>4 DEF AtMessage, Under, IsPost
  <2> QED
    BY <2>1, <2>2
<1>11. first \in Numbers(c)'
  BY <1>1, <1>5 DEF Numbers
<1> QED
  BY <1>1, <1>7, <1>9, <1>10, <1>11 DEF Continues

\* The other actions of a client.
LEMMA PostedMenu ==
  ASSUME TypeInv, [Next]_vars, NEW c \in Clients, PostedOf(c), NoneAdded(c), ClientStep(c)
  PROVE  PostedOf(c)'
<1> USE DEF serverVars
<1>0. /\ TypeOK /\ cli \in [Clients -> ClientPCs] /\ typed \in [Clients -> Seq(Messages)] /\ TypeOK'
      /\ TypedAt(c) \subseteq TypedAt(c)' /\ \A k \in 1 .. Len(typed[c]) : typed'[c][k] = typed[c][k]
  BY StepType, TypedGrows DEF TypeInv, TypeOK
<1>1. CASE \E p \in Phones : Connect(c, p)
  BY <1>1, PostedConnecting
<1>2. CASE Kill(c)
  BY <1>2, PostedKill
<1>3. CASE Refuse(c)
  BY <1>3, KeptOrder DEF Refuse, StartClient, PostedOf
<1>4. CASE Mistype(c) \/ Receive(c)
  <2>1. /\ UNCHANGED <<file, serverVars, c2s, typed>> /\ cli[c] \in {"menu", "view"}
        /\ cli'[c] \in {"menu", "view", "wedged"}
    BY <1>0, <1>4 DEF Mistype, Receive
  <2>2. Stage(c)' = Stage(c) /\ Typing(c)' = Typing(c)
    BY <2>1 DEF Stage, Typing
  <2> QED
    BY <2>1, <2>2, PostedElsewhere
<1>5. ASSUME NEW p \in Phones, NEW t \in NextTexts, ChoosePost(c, p, t)
      PROVE  PostedOf(c)'
  <2>1. /\ cli[c] = "menu" /\ cli'[c] = "tel" /\ Put(c, "post") /\ UNCHANGED <<file, serverVars>>
        /\ typed'[c] = Append(typed[c], [tel |-> p, text |-> t])
    BY <1>0, <1>5 DEF ChoosePost
  <2>2. Len(typed'[c]) = Len(typed[c]) + 1
    <3>1. PICK m \in Messages : m = [tel |-> p, text |-> t]
      BY DEF Messages, NextTexts
    <3>2. typed[c] \in Seq(Messages) /\ typed'[c] = Append(typed[c], m)
      BY <1>0, <2>1, <3>1
    <3> QED
      BY <3>2
  <2>3. Typing(c) = "cmd" /\ Typing(c)' = "tel" /\ After("cmd", "post") = "tel" /\ "post" \in Commands
    BY <2>1 DEF Typing, After, Commands
  <2> QED
    BY <1>0, <2>1, <2>2, <2>3, PostedSending DEF Fits
<1>6. CASE ChooseView(c)
  <2>1. /\ cli[c] = "menu" /\ cli'[c] = "view" /\ Put(c, "view") /\ UNCHANGED <<file, serverVars, typed>>
    BY <1>0, <1>6 DEF ChooseView
  <2>2. Typing(c) = "cmd" /\ Typing(c)' = "cmd" /\ After("cmd", "view") = "cmd" /\ "view" \in Commands
    BY <2>1 DEF Typing, After, Commands
  <2> QED
    BY <1>0, <2>1, <2>2, PostedSending DEF Fits
<1>7. CASE Leave(c)
  <2>1. /\ cli[c] = "menu" /\ cli'[c] = "off" /\ Put(c, "quit") /\ UNCHANGED <<file, serverVars, typed>>
    BY <1>0, <1>7 DEF Leave
  <2>2. Typing(c) = "cmd" /\ "quit" \in Commands
    BY <2>1 DEF Typing, Commands
  <2> QED
    BY <1>0, <2>1, <2>2, PostedSending DEF Fits
<1>8. cli[c] \in {"tel", "text"} =>
        /\ Composed(c).tel \in Phones /\ Composed(c).text \in TypedAt(c)
        /\ Composed(c).text \in Texts \cup {End} /\ typed[c] # <<>>
  BY ComposedFits DEF TypeInv, OfClient, TextsOf
<1>9. CASE TypeTel(c)
  <2>1. /\ cli[c] = "tel" /\ cli'[c] = "text" /\ Put(c, Composed(c).tel) /\ UNCHANGED <<file, serverVars, typed>>
    BY <1>0, <1>9 DEF TypeTel
  <2>2. Typing(c) = "tel" /\ Typing(c)' = "text" /\ After("tel", Composed(c).tel) = "text"
    BY <2>1 DEF Typing, After
  <2> QED
    BY <1>0, <1>8, <2>1, <2>2, PostedSending DEF Fits
<1>10. CASE TypeText(c)
  <2>1. /\ cli[c] = "text" /\ cli'[c] = "menu" /\ Put(c, Composed(c).text) /\ UNCHANGED <<file, serverVars, typed>>
    BY <1>0, <1>10 DEF TypeText
  <2>2. Typing(c) = "text" /\ Typing(c)' = "cmd" /\ After("text", Composed(c).text) = "cmd"
    BY <2>1 DEF Typing, After
  <2>3. TypedAt(c)' = TypedAt(c)
    BY <2>1 DEF TypedAt
  <2> QED
    BY <1>0, <1>8, <2>1, <2>2, <2>3, PostedSending DEF Fits
<1> QED
  BY <1>1, <1>2, <1>3, <1>4, <1>5, <1>6, <1>7, <1>9, <1>10 DEF ClientStep

LEMMA PostedStep ==
  ASSUME EndTyped = FALSE
  PROVE  TypeInv /\ TextsInv /\ PostedInv /\ [Next]_vars => PostedInv'
<1> SUFFICES ASSUME TypeInv, TextsInv, PostedInv, [Next]_vars, NEW d \in Clients
             PROVE  PostedOf(d)'
  BY DEF PostedInv
<1>0. PostedOf(d) /\ TypeOK /\ pc \in [Clients -> ThreadPCs] /\ CommandOf(d)
  BY DEF PostedInv, TypeInv, TypeOK, OfClient
<1>1. CASE AppendRecord(d)
  BY <1>0, <1>1, PostedAppending
<1>2. CASE ~AppendRecord(d)
  <2>1. NoneAdded(d)
    BY <1>2, NoneAddedOthers
  <2>2. ASSUME UNCHANGED <<pc[d], slot[d], c2s[d], typed[d], cli[d]>>, d \in failed' <=> d \in failed
        PROVE  PostedOf(d)'
    <3>1. Stage(d)' = Stage(d) /\ Typing(d)' = Typing(d)
      BY <2>2 DEF Stage, Typing
    <3> QED
      BY <1>0, <2>1, <2>2, <3>1, PostedElsewhere
  <2>3. CASE UNCHANGED vars
    BY <2>2, <2>3 DEF vars, serverVars, clientVars
  <2>4. ASSUME NEW c \in Clients, c # d, Acquire(c) \/ ThreadStep(c) \/ ClientStep(c)
        PROVE  PostedOf(d)'
    BY <1>0, <2>2, <2>4, OthersUntouched
  <2>5. CASE Acquire(d) \/ ReadRecord(d) \/ EndOfFile(d) \/ Unlock(d)
    <3>1. UNCHANGED <<slot, failed, c2s, typed, cli>>
      BY <2>5 DEF Acquire, ReadRecord, EndOfFile, Unlock, clientVars
    <3>2. \/ pc[d] = "wait" /\ pc'[d] = "append"
          \/ pc[d] \in {"wait", "scan", "unlock"} /\ pc'[d] \in {"scan", "unlock", "cmd"}
      BY <1>0, <2>5 DEF Acquire, ReadRecord, EndOfFile, Unlock, Goto
    <3>3. Stage(d)' = Stage(d) /\ Typing(d)' = Typing(d)
      BY <3>1, <3>2 DEF Stage, Typing
    <3> QED
      BY <1>0, <2>1, <3>1, <3>2, <3>3, PostedElsewhere
  <2>6. CASE Hello(d) \/ RecvCmd(d) \/ RecvTel(d) \/ RecvText(d)
    BY <1>0, <2>1, <2>6, PostedReceiving
  <2>7. CASE ClientStep(d)
    BY <1>0, <2>1, <2>7, PostedMenu
  <2> QED
    BY <1>2, <2>3, <2>4, <2>5, <2>6, <2>7 DEF Next, ThreadStep
<1> QED
  BY <1>1, <1>2

\* As long as nobody types "!end", and whatever faults occur: while no receive of
\* its thread has failed, the messages of a client are in the file at most once, in
\* the order they were typed, and each for its addressee.
THEOREM PostedOnlyOnce ==
  ASSUME EndTyped = FALSE
  PROVE  Spec => []PostedOnce
<1>1. Init => TextsInv
  BY DEF Init, TextsInv, FileTexts, Distinct
<1>2. Init => PostedInv
  BY DEF Init, PostedInv, PostedOf, InOrder
<1>3. TypeInv /\ PostedInv => PostedOnce
  <2> SUFFICES ASSUME TypeInv, PostedInv, NEW c \in Clients \ failed
               PROVE  /\ \A i, j \in 1 .. Len(file), k, l \in 1 .. MaxPosts :
                           IsPost(i, c, k) /\ IsPost(j, c, l) /\ i < j => k < l
                      /\ \A i \in 1 .. Len(file), k \in 1 .. MaxPosts :
                           IsPost(i, c, k) => file[i] = typed[c][k]
    BY DEF PostedOnce
  <2>1. InOrder(c)
    BY DEF PostedInv, PostedOf
  <2>2. Len(typed[c]) \in Nat
    <3>1. typed[c] \in Seq(Messages)
      BY DEF TypeInv, TypeOK
    <3> QED
      BY <3>1
  <2>3. \A i \in 1 .. Len(file), k \in 1 .. MaxPosts : IsPost(i, c, k) => k \in 1 .. Len(typed[c])
    BY <2>2, YBAssumption DEF IsPost
  <2> QED
    BY <2>1, <2>3 DEF InOrder
<1>4. TypeInv /\ TextsInv /\ [Next]_vars => TextsInv'
  BY TextsStep
<1>5. TypeInv /\ TextsInv /\ PostedInv /\ [Next]_vars => PostedInv'
  BY PostedStep
<1> QED
  BY <1>1, <1>2, <1>3, <1>4, <1>5, TypeAlways, PTL DEF Spec

-----------------------------------------------------------------------------
(***************************************************************************)
(* YBPostServer implements the atomic mail store of Mailbox, when the file *)
(* can always be opened and no connection is dropped in the middle of a    *)
(* message.  A post takes effect when its record is appended, a view when  *)
(* the end of the file is reached.                                         *)
(***************************************************************************)
NoFaults == {"drop", "open"} \cap Faults = {}

\* A client that has gone left no message half typed.
Left(c) ==
  \E at \in Labels(c2s[c]) : Parses(c, at) /\ at[Len(c2s[c])] \in {"cmd", "end"}

\* Only the thread of a client that has gone repeats a message, and then it has
\* nothing to receive any more.
GoneOf(c) ==
  repeats[c] # 0 =>
    cli[c] = "off" /\ c2s[c] = <<>> /\ pc[c] # "none" /\ slot[c].cmd = "post"

GoneInv == \A c \in Clients : GoneOf(c)

\* A message is received whole: what was never received is not appended.
WholeOf(c) ==
  /\ pc[c] # "none" /\ cli[c] = "off" /\ slot[c].text = Fill => Left(c)
  /\ slot[c].cmd = "post" /\ slot[c].text = Fill => pc[c] \in {"tel", "text"}
  /\ pc[c] \in Critical => isOpen[c]

WholeInv ==
  /\ \A c \in Clients : WholeOf(c)
  /\ \A i \in 1 .. Len(file) : ~Unreadable(file[i])

-----------------------------------------------------------------------------
LEMMA GoneStep ==
  ASSUME TypeInv, GoneInv, [Next]_vars
  PROVE  GoneInv'
<1> USE YBAssumption DEF Goto, serverVars, clientVars
<1> SUFFICES ASSUME NEW d \in Clients PROVE GoneOf(d)'
  BY DEF GoneInv
<1>0. /\ TypeOK /\ GoneOf(d) /\ pc \in [Clients -> ThreadPCs] /\ repeats \in [Clients -> 0 .. MaxRepeats + 1]
      /\ slot \in [Clients -> [cmd : Commands, tel : Phones \cup {Fill}, text : Texts \cup {End, Fill}]]
  BY DEF TypeInv, TypeOK, GoneInv
<1>1. CASE UNCHANGED vars
  BY <1>0, <1>1 DEF vars, GoneOf
<1>2. ASSUME NEW c \in Clients, c # d, Acquire(c) \/ ThreadStep(c) \/ ClientStep(c)
      PROVE  GoneOf(d)'
  BY <1>0, <1>2, OthersUntouched DEF GoneOf
<1>3. CASE RecvCmd(d)
  <2>1. PICK command \in Commands :
          /\ \/ Received(d) /\ command = Head(c2s[d]) /\ UNCHANGED repeats
             \/ /\ NotReceived(d) /\ command = slot[d].cmd
                /\ repeats' = [repeats EXCEPT ![d] = IF command = "post" /\ ~Tired(d) THEN @ + 1 ELSE @]
          /\ pc' = [pc EXCEPT ![d] = Case(command)]
          /\ slot' = [slot EXCEPT ![d] = IF Case(command) = "none" THEN FreshSlot
                                                                   ELSE [@ EXCEPT !.cmd = command]]
    BY <1>3 DEF RecvCmd
  <2>2. CASE Received(d)
    BY <1>0, <1>3, <2>1, <2>2 DEF RecvCmd, Received, NotReceived, GoneOf
  <2>3. CASE NotReceived(d) /\ command = "post" /\ command = slot[d].cmd
    <3>1. Case(command) = "tel"
      BY <2>3 DEF Case
    <3>2. slot'[d].cmd = "post" /\ pc'[d] = "tel"
      BY <1>0, <2>1, <2>3, <3>1
    <3> QED
      BY <1>3, <2>3, <3>2 DEF RecvCmd, NotReceived, GoneOf
  <2>4. CASE NotReceived(d) /\ command # "post" /\ command = slot[d].cmd
    <3>1. repeats[d] = 0 /\ repeats' = [repeats EXCEPT ![d] = @]
      BY <1>0, <2>1, <2>4 DEF Received, NotReceived, GoneOf
    <3> QED
      BY <1>0, <3>1 DEF GoneOf
  <2> QED
    BY <2>1, <2>2, <2>3, <2>4
<1>4. CASE Hello(d) \/ RecvTel(d) \/ RecvText(d)
  <2>1. /\ UNCHANGED <<repeats, cli>> /\ pc'[d] # "none" /\ slot'[d].cmd = slot[d].cmd
        /\ c2s[d] = <<>> => c2s' = c2s
    BY <1>0, <1>4 DEF Hello, RecvTel, RecvText, Received, NotReceived
  <2> QED
    BY <1>0, <2>1 DEF GoneOf
<1>5. CASE Acquire(d) \/ AppendRecord(d) \/ ReadRecord(d) \/ EndOfFile(d) \/ Unlock(d)
  <2>1. UNCHANGED <<repeats, cli, slot, c2s>> /\ pc'[d] # "none"
    BY <1>0, <1>5 DEF Acquire, AppendRecord, ReadRecord, EndOfFile, Unlock
  <2> QED
    BY <1>0, <2>1 DEF GoneOf
<1>6. CASE ClientStep(d)
  <2>1. UNCHANGED repeats
    BY <1>6 DEF ClientStep, Connect, Refuse, ChoosePost, TypeTel, TypeText, ChooseView, Leave,
       Mistype, Receive, Kill
  <2>2. ~(cli[d] = "off" /\ pc[d] # "none")
    BY <1>6 DEF ClientStep, Connect, Refuse, StartClient, ChoosePost, TypeTel, TypeText, ChooseView,
       Leave, Mistype, Receive, Kill
  <2> QED
    BY <1>0, <2>1, <2>2 DEF GoneOf
<1> QED
  BY <1>1, <1>2, <1>3, <1>4, <1>5, <1>6 DEF Next, ThreadStep

LEMMA WholeElsewhere ==
  ASSUME NEW d \in Clients, WholeOf(d), pc'[d] = pc[d], slot'[d] = slot[d], isOpen'[d] = isOpen[d],
         c2s'[d] = c2s[d], cli'[d] = cli[d], typed'[d] = typed[d]
  PROVE  WholeOf(d)'
  BY ZenonT(60) DEF WholeOf, Left, Parses, TypedAt, Stage, Typing, Critical

\* What the thread receives next was sent by a client that finishes its messages.
LEMMA LeftReceiving ==
  ASSUME TypeInv, NEW c \in Clients, Left(c), Received(c), cli'[c] = cli[c], typed'[c] = typed[c],
         Stage(c)' = After(Stage(c), Head(c2s[c]))
  PROVE  Left(c)'
<1>1. PICK at \in Labels(c2s[c]) : Parses(c, at) /\ at[Len(c2s[c])] \in {"cmd", "end"}
  BY DEF Left
<1>2. PICK new \in Labels(c2s'[c]) : Parses(c, new)' /\ \A i \in 0 .. Len(c2s'[c]) : new[i] = at[i + 1]
  BY <1>1, ReceivedParse
<1>3. Len(c2s[c]) \in Nat \ {0} /\ Len(c2s'[c]) = Len(c2s[c]) - 1
  BY <1>1, ReceivedParse
<1>4. Len(c2s'[c]) \in 0 .. Len(c2s'[c]) /\ Len(c2s'[c]) + 1 = Len(c2s[c])
  BY <1>3
<1>5. new[Len(c2s'[c])] = at[Len(c2s[c])]
  BY <1>2, <1>4
<1> QED
  BY <1>1, <1>2, <1>5 DEF Left

\* The thread finds the connection closed only between two messages.
LEMMA LeftEmpty ==
  ASSUME NEW c \in Clients, Left(c), c2s[c] = <<>>
  PROVE  pc[c] \notin {"hello", "tel", "text"}
<1>1. PICK at \in Labels(c2s[c]) : Parses(c, at) /\ at[Len(c2s[c])] \in {"cmd", "end"}
  BY DEF Left
<1>2. Len(c2s[c]) = 0
  OBVIOUS
<1> QED
  BY <1>1, <1>2 DEF Parses, Stage

LEMMA LeftStill ==
  ASSUME NEW c \in Clients, Left(c), Stage(c)' = Stage(c), c2s'[c] = c2s[c], cli'[c] = cli[c],
         typed'[c] = typed[c]
  PROVE  Left(c)'
  BY DEF Left, Parses, TypedAt, Typing

\* A thread receives.
LEMMA WholeReceiving ==
  ASSUME NoFaults, TypeInv, NEW c \in Clients, WholeOf(c),
         Hello(c) \/ RecvCmd(c) \/ RecvTel(c) \/ RecvText(c)
  PROVE  WholeOf(c)'
<1> USE DEF clientVars, Goto
<1>0. /\ TypeOK /\ CommandOf(c) /\ TextsOf(c) /\ pc \in [Clients -> ThreadPCs]
      /\ slot \in [Clients -> [cmd : Commands, tel : Phones \cup {Fill}, text : Texts \cup {End, Fill}]]
      /\ UNCHANGED <<cli, typed>>
  BY DEF TypeInv, OfClient, TypeOK, Hello, RecvCmd, RecvTel, RecvText
<1>1. pc'[c] \notin Critical /\ pc[c] # "none"
  BY <1>0 DEF Hello, RecvCmd, Case, RecvTel, RecvText, Critical
<1>2. CASE Hello(c)
  <2>1. /\ pc[c] = "hello" /\ pc'[c] = "cmd" /\ slot' = slot /\ slot[c] = FreshSlot
        /\ Received(c) \/ NotReceived(c)
    BY <1>0, <1>2 DEF Hello, CommandOf
  <2>2. Stage(c) = "hello" /\ Stage(c)' = "cmd"
    BY <2>1 DEF Stage
  <2>3. CASE Received(c)
    BY <1>0, <1>1, <2>1, <2>2, <2>3, LeftReceiving DEF WholeOf, After, FreshSlot
  <2>4. CASE NotReceived(c)
    BY <1>1, <2>1, <2>4, LeftEmpty DEF WholeOf, NotReceived, FreshSlot
  <2> QED
    BY <2>1, <2>3, <2>4
<1>3. CASE RecvCmd(c)
  <2>1. PICK command \in Commands :
          /\ \/ Received(c) /\ command = Head(c2s[c])
             \/ NotReceived(c) /\ command = slot[c].cmd
          /\ pc[c] = "cmd" /\ pc' = [pc EXCEPT ![c] = Case(command)]
          /\ slot' = [slot EXCEPT ![c] = IF Case(command) = "none" THEN FreshSlot
                                                                   ELSE [@ EXCEPT !.cmd = command]]
    BY <1>3 DEF RecvCmd
  <2>2. /\ pc'[c] = Case(command) /\ Stage(c) = "cmd"
        /\ slot'[c] = IF Case(command) = "none" THEN FreshSlot ELSE [slot[c] EXCEPT !.cmd = command]
    BY <1>0, <2>1 DEF Stage
  <2>3. \/ command = "post" /\ pc'[c] = "tel" /\ Stage(c)' = "tel"
        \/ command = "view" /\ pc'[c] = "wait" /\ Stage(c)' = "cmd"
        \/ command = "quit" /\ pc'[c] = "none"
    BY <2>2 DEF Case, Commands, Stage
  <2>4. CASE pc'[c] = "none"
    BY <2>2, <2>4 DEF WholeOf, FreshSlot, Critical
  <2>5. CASE pc'[c] # "none"
    <3>1. slot'[c] = [slot[c] EXCEPT !.cmd = command] /\ Case(command) # "none"
      BY <2>2, <2>5
    <3>2. slot'[c].text = slot[c].text /\ slot'[c].cmd = command
      BY <1>0, <3>1
    <3>3. slot'[c].cmd = "post" => pc'[c] \in {"tel", "text"}
      BY <2>3, <3>2
    <3>4. CASE Received(c) /\ command = Head(c2s[c])
      <4>1. Stage(c)' = After(Stage(c), Head(c2s[c]))
        BY <2>2, <2>3, <2>5, <3>4 DEF After
      <4> QED
        BY <1>0, <1>1, <3>2, <3>3, <3>4, <4>1, LeftReceiving DEF WholeOf
    <3>5. CASE NotReceived(c) /\ command = slot[c].cmd
      <4>1. slot[c].text = Fill => command # "post"
        BY <2>1, <3>5 DEF WholeOf
      <4>2. slot[c].text = Fill => Stage(c)' = Stage(c)
        BY <2>2, <2>3, <2>5, <4>1
      <4>3. c2s' = c2s
        BY <3>5 DEF NotReceived
      <4> QED
        BY <1>0, <1>1, <3>2, <3>3, <4>2, <4>3, LeftStill DEF WholeOf
    <3> QED
      BY <2>1, <3>4, <3>5
  <2> QED
    BY <2>4, <2>5
<1>4. CASE RecvTel(c)
  <2>1. /\ pc[c] = "tel" /\ pc'[c] = "text"
        /\ Received(c) \/ NotReceived(c)
        /\ slot'[c].text = slot[c].text /\ slot'[c].cmd = slot[c].cmd
    BY <1>0, <1>4 DEF RecvTel
  <2>2. Stage(c) = "tel" /\ Stage(c)' = "text"
    BY <2>1 DEF Stage
  <2>3. CASE Received(c)
    BY <1>0, <1>1, <2>1, <2>2, <2>3, LeftReceiving DEF WholeOf, After
  <2>4. CASE NotReceived(c)
    BY <1>0, <1>1, <2>1, <2>4, LeftEmpty DEF WholeOf, NotReceived
  <2> QED
    BY <2>1, <2>3, <2>4
<1>5. CASE RecvText(c)
  <2>1. pc[c] = "text" /\ pc'[c] = "wait" /\ Stage(c) = "text"
    BY <1>0, <1>5 DEF RecvText, Stage
  <2>2. CASE Received(c) /\ slot' = [slot EXCEPT ![c].text = Head(c2s[c])]
    <3>1. slot'[c].text = Head(c2s[c])
      BY <1>0, <2>2
    <3>2. Head(c2s[c]) \in TypedAt(c)
      BY <2>1, <2>2, ReceivedFits DEF Fits
    <3>3. slot'[c].text # Fill
      BY <1>0, <3>1, <3>2, TypedTexts, YBAssumption
    <3> QED
      BY <1>1, <3>3 DEF WholeOf
  <2>3. CASE NotReceived(c) /\ UNCHANGED slot
    BY <1>0, <1>1, <2>1, <2>3, LeftEmpty DEF WholeOf, NotReceived
  <2> QED
    BY <1>5, <2>2, <2>3 DEF RecvText
<1> QED
  BY <1>2, <1>3, <1>4, <1>5

\* A thread works on the file.
LEMMA WholeWorking ==
  ASSUME NoFaults, TypeInv, NEW c \in Clients, WholeOf(c),
         Acquire(c) \/ AppendRecord(c) \/ ReadRecord(c) \/ EndOfFile(c) \/ Unlock(c)
  PROVE  WholeOf(c)'
<1> USE DEF clientVars, Goto
<1>0. /\ TypeOK /\ CommandOf(c) /\ pc \in [Clients -> ThreadPCs] /\ isOpen \in [Clients -> BOOLEAN]
      /\ UNCHANGED <<slot, c2s, cli, typed>>
  BY DEF TypeInv, OfClient, TypeOK, Acquire, AppendRecord, ReadRecord, EndOfFile, Unlock
<1>1. /\ pc[c] \in {"wait", "append", "scan", "unlock"} /\ pc'[c] \in {"append", "scan", "unlock", "cmd"}
  BY <1>0 DEF Acquire, AppendRecord, ReadRecord, EndOfFile, Unlock
<1>2. pc'[c] \in Critical => isOpen'[c]
  <2>1. CASE Acquire(c)
    BY <1>0, <2>1 DEF Acquire, NoFaults
  <2>2. CASE Unlock(c)
    BY <1>0, <2>2 DEF Unlock, Critical
  <2>3. CASE AppendRecord(c) \/ ReadRecord(c) \/ EndOfFile(c)
    BY <1>0, <2>3 DEF AppendRecord, ReadRecord, EndOfFile, Critical, WholeOf
  <2> QED
    BY <2>1, <2>2, <2>3
<1>3. Stage(c)' = Stage(c)
  BY <1>1 DEF Stage
<1> QED
  BY <1>0, <1>1, <1>2, <1>3, LeftStill DEF WholeOf

\* A client acts, or goes.
LEMMA WholeClient ==
  ASSUME NoFaults, TypeInv, NEW c \in Clients, WholeOf(c), ClientStep(c)
  PROVE  WholeOf(c)'
<1> USE DEF serverVars, Goto
<1>0. /\ TypeOK /\ StreamOf(c) /\ CommandOf(c) /\ pc \in [Clients -> ThreadPCs] /\ cli \in [Clients -> ClientPCs]
  BY DEF TypeInv, OfClient, TypeOK
<1>1. ASSUME NEW p \in Phones, Connect(c, p)
      PROVE  WholeOf(c)'
  <2>1. pc'[c] = "hello" /\ slot'[c] = FreshSlot /\ cli'[c] = "menu"
    BY <1>0, <1>1 DEF Connect, StartClient, TypeOK
  <2> QED
    BY <2>1 DEF WholeOf, FreshSlot, Critical
<1>2. ASSUME UNCHANGED <<pc, slot, isOpen>>, cli'[c] # "off"
      PROVE  WholeOf(c)'
  BY <1>2 DEF WholeOf, Critical
<1>3. CASE Leave(c)
  <2>1. cli[c] = "menu" /\ cli'[c] = "off" /\ UNCHANGED <<pc, slot, isOpen, typed>> /\ Put(c, "quit")
    BY <1>0, <1>3 DEF Leave
  <2>2. ASSUME pc[c] # "none" PROVE Left(c)'
    <3>1. PICK at \in Labels(c2s[c]) : Parses(c, at)
      BY <1>0, <2>2 DEF StreamOf
    <3>2. Typing(c) = "cmd" /\ "quit" \in Commands /\ TypedAt(c)' = TypedAt(c) /\ pc'[c] = pc[c]
      BY <2>1 DEF Typing, Commands, TypedAt
    <3>3. Fits(Typing(c), "quit", TypedAt(c)')
      BY <3>2 DEF Fits
    <3>4. /\ Len(c2s[c]) \in Nat /\ Len(c2s'[c]) = Len(c2s[c]) + 1
          /\ c2s'[c][Len(c2s'[c])] = "quit" /\ at[Len(c2s[c])] = "cmd"
          /\ \E new \in Labels(c2s'[c]) :
               Parses(c, new)' /\ \A i \in 0 .. Len(c2s[c]) : new[i] = at[i]
      BY <2>1, <2>2, <3>1, <3>2, <3>3, PutParse
    <3>5. PICK new \in Labels(c2s'[c]) :
            Parses(c, new)' /\ \A i \in 0 .. Len(c2s[c]) : new[i] = at[i]
      BY <3>4
    <3>6. Len(c2s'[c]) \in 1 .. Len(c2s'[c]) /\ Len(c2s'[c]) - 1 = Len(c2s[c]) /\ Len(c2s[c]) \in 0 .. Len(c2s[c])
      BY <3>4
    <3>7. new[Len(c2s'[c])] = After(new[Len(c2s'[c]) - 1], c2s'[c][Len(c2s'[c])])
      BY <3>5, <3>6 DEF Parses, IsParse
    <3>8. new[Len(c2s'[c])] = "end"
      BY <3>4, <3>5, <3>6, <3>7 DEF After
    <3> QED
      BY <3>5, <3>8 DEF Left
  <2> QED
    BY <2>1, <2>2 DEF WholeOf
<1>4. CASE Kill(c)
  <2>1. cli[c] \notin {"off", "tel", "text"} /\ UNCHANGED <<pc, slot, isOpen, typed, c2s>>
    BY <1>0, <1>4 DEF Kill, NoFaults
  <2>2. ASSUME pc[c] # "none" PROVE Left(c)'
    <3>1. PICK at \in Labels(c2s[c]) : Parses(c, at)
      BY <1>0, <2>2 DEF StreamOf
    <3>2. at[Len(c2s[c])] = "cmd"
      BY <2>1, <3>1 DEF Parses, Typing
    <3>3. Parses(c, at)' /\ at \in Labels(c2s'[c])
      <4>1. cli'[c] = "off" /\ Stage(c)' = Stage(c)
        BY <1>0, <1>4, <2>1 DEF Kill, Stage
      <4> QED
        BY <2>1, <3>1, <4>1 DEF Parses, TypedAt
    <3> QED
      BY <2>1, <3>2, <3>3 DEF Left
  <2> QED
    BY <2>1, <2>2 DEF WholeOf
<1>5. CASE \/ Refuse(c) \/ Mistype(c) \/ Receive(c) \/ ChooseView(c) \/ TypeTel(c) \/ TypeText(c)
           \/ \E p \in Phones : \E t \in NextTexts : ChoosePost(c, p, t)
  <2>1. UNCHANGED <<pc, slot, isOpen>> /\ cli'[c] # "off"
    BY <1>0, <1>5 DEF Refuse, StartClient, Mistype, Receive, ChooseView, TypeTel, TypeText, ChoosePost
  <2> QED
    BY <1>2, <2>1
<1> QED
  BY <1>1, <1>3, <1>4, <1>5 DEF ClientStep

LEMMA WholeStep ==
  ASSUME NoFaults, TypeInv, WholeInv, [Next]_vars
  PROVE  WholeInv'
<1>0. TypeOK /\ file \in Seq(Records)
  BY DEF TypeInv, TypeOK
<1>1. ASSUME NEW d \in Clients PROVE WholeOf(d)'
  <2>0. WholeOf(d)
    BY DEF WholeInv
  <2>1. CASE UNCHANGED vars
    BY <2>0, <2>1, WholeElsewhere DEF vars, serverVars, clientVars
  <2>2. ASSUME NEW c \in Clients, c # d, Acquire(c) \/ ThreadStep(c) \/ ClientStep(c)
        PROVE  WholeOf(d)'
    BY <1>0, <2>0, <2>2, OthersUntouched, WholeElsewhere
  <2>3. CASE Acquire(d) \/ ThreadStep(d) \/ ClientStep(d)
    BY <2>0, <2>3, WholeReceiving, WholeWorking, WholeClient DEF ThreadStep
  <2> QED
    BY <2>1, <2>2, <2>3 DEF Next
<1>2. ASSUME NEW c \in Clients, AppendRecord(c), NEW i \in 1 .. Len(file')
      PROVE  ~Unreadable(file'[i])
  <2> DEFINE r == [tel |-> slot[c].tel, text |-> slot[c].text]
  <2>1. pc[c] = "append" /\ file' \in {file, Append(file, r)}
    BY <1>2 DEF AppendRecord, Goto
  <2>2. slot[c].cmd = "post" /\ slot[c].text # Fill
    BY <2>1 DEF TypeInv, OfClient, CommandOf, WholeInv, WholeOf
  <2>3. r \in Records /\ r.text # Fill
    <3>1. slot[c] \in [cmd : Commands, tel : Phones \cup {Fill}, text : Texts \cup {End, Fill}]
      BY <1>0 DEF TypeOK
    <3> QED
      BY <2>2, <3>1 DEF Records
  <2>4. (i \in 1 .. Len(file) /\ file'[i] = file[i]) \/ file'[i] = r
    <3> HIDE DEF r
    <3> QED
      BY <1>0, <1>2, <2>1, <2>3, AppendElements
  <2> QED
    BY <2>3, <2>4 DEF WholeInv, Unreadable
<1>3. file' = file \/ \E c \in Clients : AppendRecord(c)
  BY DEF Next, vars, Acquire, ThreadStep, Hello, RecvCmd, RecvTel, RecvText, ReadRecord,
     EndOfFile, Unlock, ClientStep, Connect, Refuse, ChoosePost, TypeTel, TypeText, ChooseView,
     Leave, Mistype, Receive, Kill
<1> QED
  BY <1>1, <1>2, <1>3 DEF WholeInv, Unreadable

-----------------------------------------------------------------------------
(* Each step is a step of the mail store or a stutter.                     *)

\* The records of an answer do not change when the file grows.
Mail(c) == {<<i, file[i]>> : i \in sent[c]}

LEMMA MailKept ==
  ASSUME TypeOK, [Next]_vars, NEW c \in Clients, sent[c] \subseteq 1 .. Len(file), sent'[c] = sent[c]
  PROVE  Mail(c)' = Mail(c)
<1>1. \A i \in sent[c] : file'[i] = file[i]
  BY FileGrows
<1> QED
  BY <1>1 DEF Mail

LEMMA StatusOf ==
  \A c \in Clients :
    /\ Asking[c] = IF Busy(c) THEN slot[c].cmd ELSE "none"
    /\ Answer[c] = IF Busy(c) \/ slot[c].cmd # "view" THEN {} ELSE Mail(c)
  BY DEF Asking, Answer, Mail

\* An action of connection c changes the status of c alone.
LEMMA StatusElsewhere ==
  ASSUME TypeOK, ScanInv, [Next]_vars, NEW c \in Clients,
         Acquire(c) \/ ThreadStep(c) \/ ClientStep(c)
  PROVE  /\ Asking' = [Asking EXCEPT ![c] = IF Busy(c)' THEN slot'[c].cmd ELSE "none"]
         /\ Answer' = [Answer EXCEPT ![c] = IF Busy(c)' \/ slot'[c].cmd # "view"
                                              THEN {} ELSE Mail(c)']
<1>1. ASSUME NEW d \in Clients, d # c
      PROVE  (Busy(d)' <=> Busy(d)) /\ slot'[d] = slot[d] /\ Mail(d)' = Mail(d)
  <2>1. (Busy(d)' <=> Busy(d)) /\ slot'[d] = slot[d] /\ sent'[d] = sent[d]
    BY <1>1, OthersUntouched DEF Busy, Tired
  <2>2. Mail(d)' = Mail(d)
    BY <2>1, MailKept DEF ScanInv, ScanOf
  <2> QED
    BY <2>1, <2>2
<1>2. Asking' = [d \in Clients |-> Asking'[d]] /\ Answer' = [d \in Clients |-> Answer'[d]]
  BY DEF Asking, Answer
<1>3. Asking = [d \in Clients |-> Asking[d]] /\ Answer = [d \in Clients |-> Answer[d]]
  BY DEF Asking, Answer
<1>4. \A d \in Clients :
        /\ Asking'[d] = IF Busy(d)' THEN slot'[d].cmd ELSE "none"
        /\ Answer'[d] = IF Busy(d)' \/ slot'[d].cmd # "view" THEN {} ELSE Mail(d)'
  BY DEF Asking, Answer, Mail
<1>5. \A d \in Clients : d # c => Asking'[d] = Asking[d] /\ Answer'[d] = Answer[d]
  BY <1>1, <1>4, StatusOf
<1>6. Asking' = [Asking EXCEPT ![c] = IF Busy(c)' THEN slot'[c].cmd ELSE "none"]
  BY <1>2, <1>3, <1>4, <1>5
<1> QED
  BY <1>2, <1>3, <1>4, <1>5, <1>6

\* The steps the mail store does not notice: whoever is at work stays at work, and
\* whoever is not keeps the answer of the last command.
LEMMA Stutter ==
  ASSUME TypeOK, ScanInv, [Next]_vars, NEW c \in Clients,
         Acquire(c) \/ ThreadStep(c) \/ ClientStep(c),
         file' = file, cTel' = cTel, slot'[c].cmd = slot[c].cmd,
         Busy(c)' <=> Busy(c),
         ~Busy(c) /\ slot[c].cmd = "view" => sent'[c] = sent[c]
  PROVE  UNCHANGED Store!mailVars
<1>1. Asking'[c] = Asking[c] /\ Answer'[c] = Answer[c]
  <2>1. sent'[c] = sent[c] => Mail(c)' = Mail(c)
    BY MailKept DEF ScanInv, ScanOf
  <2>2. /\ Asking'[c] = IF Busy(c)' THEN slot'[c].cmd ELSE "none"
        /\ Answer'[c] = IF Busy(c)' \/ slot'[c].cmd # "view" THEN {} ELSE Mail(c)'
    BY DEF Asking, Answer, Mail
  <2> QED
    BY <2>1, <2>2, StatusOf
<1>2. /\ Asking' = [Asking EXCEPT ![c] = Asking'[c]] /\ Answer' = [Answer EXCEPT ![c] = Answer'[c]]
  <2>1. /\ Asking'[c] = IF Busy(c)' THEN slot'[c].cmd ELSE "none"
        /\ Answer'[c] = IF Busy(c)' \/ slot'[c].cmd # "view" THEN {} ELSE Mail(c)'
    BY DEF Asking, Answer, Mail
  <2> QED
    BY <2>1, StatusElsewhere
<1>3. Asking' = Asking /\ Answer' = Answer
  <2>1. Asking = [d \in Clients |-> Asking[d]] /\ Answer = [d \in Clients |-> Answer[d]]
    BY DEF Asking, Answer
  <2> QED
    BY <1>1, <1>2, <2>1
<1>4. Box' = Box
  BY DEF Box
<1> QED
  BY <1>3, <1>4 DEF Store!mailVars

\* A connection opens, introduces itself, or ends: its last answer is forgotten.
LEMMA HelloStep ==
  ASSUME TypeInv, TypeOK', ScanInv, [Next]_vars, NEW c \in Clients,
         \/ \E p \in Phones : Connect(c, p)
         \/ Hello(c)
         \/ RecvCmd(c) /\ pc'[c] = "none"
  PROVE  Store!Hello(c)
<1> USE DEF Goto, clientVars
<1>0. TypeOK /\ CommandOf(c) /\ pc \in [Clients -> ThreadPCs] /\ cTel \in [Clients -> Phones \cup {NoPhone}]
      /\ cTel'[c] \in Phones \cup {NoPhone}
      /\ slot \in [Clients -> [cmd : Commands, tel : Phones \cup {Fill}, text : Texts \cup {End, Fill}]]
  BY DEF TypeInv, OfClient, TypeOK
<1>1. /\ file' = file /\ cTel' = [cTel EXCEPT ![c] = cTel'[c]]
      /\ pc[c] \in {"none", "hello", "cmd"} /\ pc'[c] \in {"hello", "cmd", "none"}
      /\ Acquire(c) \/ ThreadStep(c) \/ ClientStep(c)
  BY <1>0 DEF Connect, StartClient, Hello, Received, NotReceived, RecvCmd, ThreadStep, ClientStep
<1>2. slot'[c] = FreshSlot
  <2>1. CASE \E p \in Phones : Connect(c, p)
    BY <1>0, <2>1 DEF Connect
  <2>2. CASE Hello(c)
    BY <1>0, <2>2 DEF Hello, CommandOf
  <2>3. CASE RecvCmd(c) /\ pc'[c] = "none"
    BY <1>0, <2>3 DEF RecvCmd
  <2> QED
    BY <2>1, <2>2, <2>3
<1>3. Asking' = [Asking EXCEPT ![c] = "none"] /\ Answer' = [Answer EXCEPT ![c] = {}]
  BY <1>0, <1>1, <1>2, StatusElsewhere DEF Busy, Working, FreshSlot
<1>4. Asking[c] = "none"
  BY <1>1, StatusOf DEF Busy, Working
<1>5. Asking' = Asking
  BY <1>3, <1>4 DEF Asking
<1>6. Box' = Box
  BY <1>1 DEF Box
<1> QED
  BY <1>0, <1>1, <1>3, <1>4, <1>5, <1>6 DEF Store!Hello

LEMMA AskStep ==
  ASSUME TypeInv, ScanInv, [Next]_vars, NEW c \in Clients, RecvCmd(c), pc'[c] # "none", Busy(c)'
  PROVE  Store!Ask(c)
<1>0. TypeOK /\ pc \in [Clients -> ThreadPCs]
      /\ slot \in [Clients -> [cmd : Commands, tel : Phones \cup {Fill}, text : Texts \cup {End, Fill}]]
  BY DEF TypeInv, TypeOK
<1>1. PICK command \in Commands :
        /\ pc[c] = "cmd" /\ pc' = [pc EXCEPT ![c] = Case(command)]
        /\ slot' = [slot EXCEPT ![c] = IF Case(command) = "none" THEN FreshSlot
                                                                 ELSE [@ EXCEPT !.cmd = command]]
  BY DEF RecvCmd, Goto
<1>2. pc'[c] = Case(command) /\ command \in {"post", "view"} /\ pc'[c] \in Working
  BY <1>0, <1>1 DEF Case, Commands, Working
<1>3. slot'[c].cmd = command
  BY <1>0, <1>1, <1>2
<1>4. UNCHANGED <<file, cTel>> /\ ThreadStep(c)
  BY DEF RecvCmd, ThreadStep
<1>5. Asking' = [Asking EXCEPT ![c] = command] /\ Answer' = [Answer EXCEPT ![c] = {}]
  BY <1>0, <1>2, <1>3, <1>4, StatusElsewhere
<1>6. Asking[c] = "none"
  BY <1>1, StatusOf DEF Busy, Working
<1>7. Box' = Box
  BY <1>4 DEF Box
<1> QED
  BY <1>2, <1>4, <1>5, <1>6, <1>7 DEF Store!Ask

\* A post takes effect when its record is appended.
LEMMA PostStep ==
  ASSUME TypeInv, WholeInv, ScanInv, [Next]_vars, NEW c \in Clients, AppendRecord(c), ~Tired(c)
  PROVE  Store!Post(c)
<1> DEFINE r == [tel |-> slot[c].tel, text |-> slot[c].text]
           n == Len(file) + 1
<1>0. TypeOK /\ pc \in [Clients -> ThreadPCs] /\ file \in Seq(Records)
  BY DEF TypeInv, TypeOK
<1>1. /\ pc[c] = "append" /\ pc'[c] = "unlock" /\ slot[c].cmd = "post" /\ isOpen[c]
      /\ UNCHANGED <<cTel, slot>>
  BY <1>0 DEF AppendRecord, Goto, TypeInv, OfClient, CommandOf, WholeInv, WholeOf, Critical
<1>2. file' = Append(file, r) /\ r \in Records
  <2>1. slot[c] \in [cmd : Commands, tel : Phones \cup {Fill}, text : Texts \cup {End, Fill}]
    BY <1>0 DEF TypeOK
  <2> QED
    BY <1>1, <2>1 DEF AppendRecord, Records
<1>3. /\ Len(file) \in Nat /\ Len(file') = n /\ file'[n] = r
      /\ \A i \in 1 .. Len(file) : file'[i] = file[i]
  <2> HIDE DEF r
  <2> QED
    BY <1>0, <1>2, AppendElements
<1>4. Asking' = [Asking EXCEPT ![c] = "none"] /\ Answer' = [Answer EXCEPT ![c] = {}]
  BY <1>0, <1>1, StatusElsewhere DEF ThreadStep, Busy, Working
<1>5. Asking[c] = "post"
  BY <1>1, StatusOf DEF Busy, Working
<1>6. <<n, r>> \in Nat \X Records /\ <<n, r>> \notin Box /\ Box' = Box \cup {<<n, r>>}
  <2>1. <<n, r>> \in Nat \X Records
    BY <1>2, <1>3
  <2>2. 1 .. Len(file') = (1 .. Len(file)) \cup {n} /\ n \notin 1 .. Len(file)
    BY <1>3
  <2> HIDE DEF n, r
  <2>3. Box' = Box \cup {<<n, r>>}
    BY <1>3, <2>2 DEF Box
  <2>4. <<n, r>> \notin Box
    BY <2>2 DEF Box
  <2> QED
    BY <2>1, <2>3, <2>4
<1> QED
  BY <1>1, <1>4, <1>5, <1>6 DEF Store!Post, Store!CarryOut

\* A view takes effect when the end of the file is reached.
LEMMA ViewStep ==
  ASSUME TypeInv, GoneInv, WholeInv, ScanInv, [Next]_vars, NEW c \in Clients, EndOfFile(c)
  PROVE  Store!View(c)
<1>0. TypeOK /\ pc \in [Clients -> ThreadPCs] /\ file \in Seq(Records) /\ ScanOf(c)
  BY DEF TypeInv, TypeOK, ScanInv
<1>1. /\ pc[c] = "scan" /\ pc'[c] = "unlock" /\ slot[c].cmd = "view" /\ isOpen[c] /\ AtEnd(c)
      /\ UNCHANGED <<file, cTel, slot, sent>>
  BY <1>0 DEF EndOfFile, Goto, TypeInv, OfClient, CommandOf, WholeInv, WholeOf, Critical
<1>2. Len(file) \in Nat
  BY <1>0
<1>3. pos[c] = Len(file) + 1
  BY <1>0, <1>1, <1>2 DEF ScanOf, AtEnd, WholeInv
<1>4. sent[c] = {i \in 1 .. Len(file) : file[i].tel = cTel[c]}
  BY <1>0, <1>1, <1>2, <1>3 DEF ScanOf, Selected
<1>5. Mail(c)' = {m \in Box : IsTo(m, cTel[c])}
  BY <1>1, <1>4 DEF Mail, Box, IsTo
<1>6. Asking' = [Asking EXCEPT ![c] = "none"] /\ Answer' = [Answer EXCEPT ![c] = Mail(c)']
  BY <1>0, <1>1, StatusElsewhere DEF ThreadStep, Busy, Working
<1>7. Asking[c] = "view"
  <2>1. ~Tired(c)
    BY <1>1, YBAssumption DEF Tired, GoneInv, GoneOf
  <2> QED
    BY <1>1, <2>1, StatusOf DEF Busy, Working
<1>8. Box' = Box
  BY <1>1 DEF Box
<1> QED
  BY <1>1, <1>5, <1>6, <1>7, <1>8 DEF Store!View, Store!CarryOut

\* Whoever repeats a message beyond the bound was at that message before.
LEMMA TiredRepeats ==
  ASSUME TypeInv, GoneInv, NEW c \in Clients, RecvCmd(c), pc'[c] # "none", ~Busy(c)'
  PROVE  slot'[c].cmd = slot[c].cmd /\ slot[c].cmd = "post"
<1> USE YBAssumption DEF Goto
<1>0. /\ pc \in [Clients -> ThreadPCs] /\ repeats \in [Clients -> 0 .. MaxRepeats + 1] /\ GoneOf(c)
      /\ slot \in [Clients -> [cmd : Commands, tel : Phones \cup {Fill}, text : Texts \cup {End, Fill}]]
  BY DEF TypeInv, TypeOK, GoneInv
<1>1. PICK command \in Commands :
        /\ \/ Received(c) /\ command = Head(c2s[c]) /\ UNCHANGED repeats
           \/ /\ NotReceived(c) /\ command = slot[c].cmd
              /\ repeats' = [repeats EXCEPT ![c] = IF command = "post" /\ ~Tired(c) THEN @ + 1 ELSE @]
        /\ pc' = [pc EXCEPT ![c] = Case(command)]
        /\ slot' = [slot EXCEPT ![c] = IF Case(command) = "none" THEN FreshSlot
                                                                 ELSE [@ EXCEPT !.cmd = command]]
  BY DEF RecvCmd
<1>2. Case(command) # "none" /\ Case(command) \in Working
  BY <1>0, <1>1 DEF Case, Commands, Working
<1>3. repeats'[c] > MaxRepeats
  BY <1>0, <1>1, <1>2 DEF Busy, Tired
<1>4. slot'[c].cmd = command
  BY <1>0, <1>1, <1>2
<1>5. CASE repeats[c] # 0
  BY <1>0, <1>1, <1>4, <1>5 DEF GoneOf, Received
<1>6. CASE repeats[c] = 0
  <2>1. repeats' # repeats
    BY <1>3, <1>6
  <2>2. NotReceived(c) /\ command = slot[c].cmd /\ command = "post"
    BY <1>0, <1>1, <2>1
  <2> QED
    BY <1>4, <2>2
<1> QED
  BY <1>5, <1>6

LEMMA MailStep ==
  ASSUME TypeInv, TypeOK', GoneInv, WholeInv, ScanInv, [Next]_vars
  PROVE  [Store!MailNext]_(Store!mailVars)
<1> USE DEF Goto, clientVars, serverVars
<1>0. TypeOK /\ pc \in [Clients -> ThreadPCs] /\ sent \in [Clients -> SUBSET Nat]
      /\ slot \in [Clients -> [cmd : Commands, tel : Phones \cup {Fill}, text : Texts \cup {End, Fill}]]
  BY DEF TypeInv, TypeOK
<1>1. CASE UNCHANGED vars
  BY <1>1 DEF vars, Store!mailVars, Box, Asking, Answer, Busy, Tired
<1>2. ASSUME NEW c \in Clients, Acquire(c) \/ ThreadStep(c) \/ ClientStep(c)
      PROVE  [Store!MailNext]_(Store!mailVars)
  <2>1. CASE (\E p \in Phones : Connect(c, p)) \/ Hello(c) \/ (RecvCmd(c) /\ pc'[c] = "none")
    BY <2>1, HelloStep DEF Store!MailNext
  <2>2. CASE RecvCmd(c) /\ pc'[c] # "none"
    <3>1. CASE Busy(c)'
      BY <2>2, <3>1, AskStep DEF Store!MailNext
    <3>2. CASE ~Busy(c)'
      <4>1. slot'[c].cmd = slot[c].cmd /\ slot[c].cmd = "post"
        BY <2>2, <3>2, TiredRepeats
      <4>2. file' = file /\ cTel' = cTel /\ ~Busy(c)
        BY <2>2 DEF RecvCmd, Busy, Working
      <4> QED
        BY <1>0, <1>2, <3>2, <4>1, <4>2, Stutter
    <3> QED
      BY <3>1, <3>2
  <2>3. CASE AppendRecord(c)
    <3>1. CASE ~Tired(c)
      BY <2>3, <3>1, PostStep DEF Store!MailNext
    <3>2. CASE Tired(c)
      <4>1. file' = file /\ UNCHANGED <<cTel, slot, sent, repeats>>
        BY <2>3, <3>2 DEF AppendRecord
      <4>2. ~Busy(c) /\ ~Busy(c)'
        BY <3>2, <4>1 DEF Busy, Tired
      <4> QED
        BY <1>0, <1>2, <4>1, <4>2, Stutter
    <3> QED
      BY <3>1, <3>2
  <2>4. CASE EndOfFile(c)
    BY <2>4, ViewStep DEF Store!MailNext
  <2>5. CASE RecvTel(c) \/ RecvText(c)
    <3>1. file' = file /\ cTel' = cTel /\ sent' = sent /\ (Busy(c)' <=> Busy(c))
      BY <1>0, <2>5 DEF RecvTel, RecvText, Busy, Tired, Working
    <3>2. slot'[c].cmd = slot[c].cmd
      BY <1>0, <2>5 DEF RecvTel, RecvText
    <3> QED
      BY <1>0, <1>2, <3>1, <3>2, Stutter
  <2>6. CASE Acquire(c) \/ ReadRecord(c)
    <3>1. /\ file' = file /\ cTel' = cTel /\ slot' = slot /\ repeats' = repeats
          /\ pc[c] \in Working /\ pc'[c] \in Working
      BY <1>0, <2>6 DEF Acquire, ReadRecord, Working
    <3>2. (Busy(c)' <=> Busy(c)) /\ (~Busy(c) => slot[c].cmd # "view")
      BY <3>1, YBAssumption DEF Busy, Tired, GoneInv, GoneOf
    <3> QED
      BY <1>0, <1>2, <3>1, <3>2, Stutter
  <2>7. CASE Unlock(c)
    <3>1. /\ file' = file /\ cTel' = cTel /\ slot' = slot /\ sent' = sent
          /\ ~Busy(c) /\ ~Busy(c)'
      BY <1>0, <2>7 DEF Unlock, Busy, Working
    <3> QED
      BY <1>0, <1>2, <3>1, Stutter
  <2>8. CASE ClientStep(c) /\ ~ (\E p \in Phones : Connect(c, p))
    <3>1. UNCHANGED <<file, cTel, slot, sent, pc, repeats>>
      BY <2>8 DEF ClientStep, Refuse, ChoosePost, TypeTel, TypeText, ChooseView, Leave, Mistype,
         Receive, Kill
    <3>2. Busy(c)' <=> Busy(c)
      BY <3>1 DEF Busy, Tired
    <3> QED
      BY <1>0, <1>2, <3>1, <3>2, Stutter
  <2> QED
    BY <1>2, <2>1, <2>2, <2>3, <2>4, <2>5, <2>6, <2>7, <2>8 DEF ThreadStep
<1> QED
  BY <1>1, <1>2 DEF Next

LEMMA MailStart == Init => Store!MailInit
<1> SUFFICES ASSUME Init PROVE Store!MailInit
  OBVIOUS
<1>1. Box = {}
  BY DEF Init, Box
<1>2. Asking = [c \in Clients |-> "none"] /\ Answer = [c \in Clients |-> {}]
  BY DEF Init, Asking, Answer, Busy, Working, FreshSlot
<1> QED
  BY <1>1, <1>2 DEF Init, Store!MailInit

\* Posts and views of any number of threads are atomic operations of one mail store,
\* as long as the file can be opened and no connection is dropped: a view lists all
\* the mail for its caller, a post stores exactly one record.
THEOREM Implements == ASSUME NoFaults PROVE Spec => Atomic
<1>1. Init => WholeInv
  BY DEF Init, WholeInv, WholeOf, FreshSlot, Critical
<1>1a. Init => GoneInv
  BY DEF Init, GoneInv, GoneOf
<1>2. TypeInv /\ WholeInv /\ [Next]_vars => WholeInv'
  BY NoFaults, WholeStep
<1>3. Spec => [](TypeInv /\ GoneInv /\ WholeInv /\ ScanInv)
  BY <1>1, <1>1a, <1>2, GoneStep, TypeAlways, ScanAlways, PTL DEF Spec
<1>4. TypeInv /\ TypeInv' /\ GoneInv /\ WholeInv /\ ScanInv /\ [Next]_vars
        => [Store!MailNext]_(Store!mailVars)
  BY MailStep DEF TypeInv
<1>5. Spec => Store!MailSpec
  BY <1>3, <1>4, MailStart, PTL DEF Spec, Store!MailSpec
<1> QED
  BY <1>5 DEF Atomic

=============================================================================
