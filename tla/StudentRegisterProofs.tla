------------------------ MODULE StudentRegisterProofs ------------------------
(***************************************************************************)
(* Proofs about StudentRegister, for any number of windows, rows, buffered *)
(* frames and deletes.                                                     *)
(***************************************************************************)
EXTENDS StudentRegister, SequenceTheorems, TLAPS

\* What Tail does to a queue, element by element.
LEMMA TailElements ==
  ASSUME NEW S, NEW q \in Seq(S), q # <<>>
  PROVE  /\ Head(q) = q[1] /\ Head(q) \in S /\ Len(q) \in Nat \ {0}
         /\ Tail(q) \in Seq(S) /\ Len(Tail(q)) = Len(q) - 1
         /\ \A i \in 1 .. Len(Tail(q)) : Tail(q)[i] = q[i + 1]
  OBVIOUS

\* What Append does to a queue, element by element.
LEMMA AppendElements ==
  ASSUME NEW S, NEW q \in Seq(S), NEW x \in S
  PROVE  /\ Append(q, x) \in Seq(S) /\ Len(Append(q, x)) = Len(q) + 1 /\ Len(q) \in Nat
         /\ \A i \in 1 .. Len(q) : Append(q, x)[i] = q[i]
         /\ Append(q, x)[Len(q) + 1] = x
  OBVIOUS

\* A queue that is not empty is its front and its last element.
LEMMA FrontLast ==
  ASSUME NEW S, NEW q \in Seq(S), q # <<>>
  PROVE  Front(q) \in Seq(S) /\ q = Append(Front(q), q[Len(q)])
  BY DEF Front

LEMMA FrontAppend ==
  ASSUME NEW S, NEW q \in Seq(S), NEW x \in S
  PROVE  /\ Append(q, x) # <<>> /\ Append(q, x)[Len(Append(q, x))] = x
         /\ Front(Append(q, x)) = q
  BY DEF Front

LEMMA OneElement ==
  ASSUME NEW S, NEW q \in Seq(S), q # <<>>, Len(q) <= 1
  PROVE  Len(q) = 1 /\ Tail(q) = <<>> /\ Len(<<>>) = 0
<1>1. Len(q) = 1
  <2>1. Len(q) \in Nat \ {0}
    BY TailElements
  <2> QED
    BY <2>1
<1>2. Tail(q) \in Seq(S) /\ Len(Tail(q)) = 0
  BY <1>1, TailElements
<1> QED
  BY <1>1, <1>2, EmptySeq

-----------------------------------------------------------------------------
(* The conversation of a window with its child.                            *)

\* What the child receives next.
Stages == {"command", "fields", "number"}

Frames == {DISCONNECT, VIEW, ADD, DELETE} \cup Rows \cup {Empty} \cup 1 .. MaxNumber

\* The frames that can be received at a stage, and the stage that follows.
Fits(stage, frame) ==
  \/ stage = "command" /\ frame \in {DISCONNECT, VIEW, ADD, DELETE}
  \/ stage = "fields" /\ frame \in Rows \cup {Empty}
  \/ stage = "number" /\ frame \in 1 .. MaxNumber

After(stage, frame) ==
  IF stage # "command" THEN "command"
  ELSE IF frame = ADD THEN "fields"
  ELSE IF frame = DELETE THEN "number" ELSE "command"

Asks(stage, frame) == stage = "command" /\ frame = VIEW

\* at[i] is the stage once i of the frames of q are received.
Labels(q) == [0 .. Len(q) -> Stages]

\* The frames of q lead from one stage to another, and none of them asks for a view.
Talk(q, from, to) ==
  \E at \in Labels(q) :
    /\ at[0] = from /\ at[Len(q)] = to
    /\ \A i \in 1 .. Len(q) :
         /\ Fits(at[i - 1], q[i]) /\ ~Asks(at[i - 1], q[i])
         /\ at[i] = After(at[i - 1], q[i])

\* The last frame of q, and no other, asks for a view.
Asked(q, from) == q # <<>> /\ q[Len(q)] = VIEW /\ Talk(Front(q), from, "command")

LEMMA AfterStage == \A stage, frame : After(stage, frame) \in Stages
  BY DEF After, Stages

LEMMA FitsFrame == \A stage, frame : Fits(stage, frame) => frame \in Frames
  BY DEF Fits, Frames

\* Nothing is sent.
LEMMA TalkNothing ==
  ASSUME NEW stage \in Stages
  PROVE  Talk(<<>>, stage, stage) /\ \A to : Talk(<<>>, stage, to) => to = stage
<1>1. [i \in 0 .. 0 |-> stage] \in Labels(<<>>)
  BY DEF Labels
<1>2. Talk(<<>>, stage, stage)
  BY <1>1 DEF Talk
<1> QED
  BY <1>2 DEF Talk

\* A frame is received: the stages move up by one.
LEMMA TalkTail ==
  ASSUME NEW q \in Seq(Frames), q # <<>>, NEW from, NEW to, Talk(q, from, to)
  PROVE  /\ Fits(from, Head(q)) /\ ~Asks(from, Head(q))
         /\ Talk(Tail(q), After(from, Head(q)), to)
<1>1. /\ Head(q) = q[1] /\ Len(q) \in Nat \ {0} /\ Len(Tail(q)) = Len(q) - 1
      /\ \A i \in 1 .. Len(Tail(q)) : Tail(q)[i] = q[i + 1]
  BY TailElements
<1>2. PICK at \in Labels(q) :
        /\ at[0] = from /\ at[Len(q)] = to
        /\ \A i \in 1 .. Len(q) :
             /\ Fits(at[i - 1], q[i]) /\ ~Asks(at[i - 1], q[i])
             /\ at[i] = After(at[i - 1], q[i])
  BY DEF Talk
<1>3. Fits(from, Head(q)) /\ ~Asks(from, Head(q)) /\ at[1] = After(from, Head(q))
  BY <1>1, <1>2
<1> DEFINE new == [i \in 0 .. Len(Tail(q)) |-> at[i + 1]]
<1>4. new \in Labels(Tail(q))
  <2>1. \A i \in 0 .. Len(Tail(q)) : at[i + 1] \in Stages
    BY <1>1 DEF Labels
  <2> QED
    BY <2>1 DEF Labels
<1>5. new[0] = at[1] /\ new[Len(Tail(q))] = to
  BY <1>1, <1>2
<1>6. ASSUME NEW i \in 1 .. Len(Tail(q))
      PROVE  /\ Fits(new[i - 1], Tail(q)[i]) /\ ~Asks(new[i - 1], Tail(q)[i])
             /\ new[i] = After(new[i - 1], Tail(q)[i])
  <2>1. /\ i + 1 \in 1 .. Len(q) /\ (i + 1) - 1 = i /\ Tail(q)[i] = q[i + 1]
        /\ new[i] = at[i + 1] /\ new[i - 1] = at[i]
    BY <1>1
  <2> QED
    BY <1>2, <2>1
<1> HIDE DEF new
<1> QED
  BY <1>3, <1>4, <1>5, <1>6 DEF Talk

\* A frame is sent: the stages are continued by one.
LEMMA TalkAppend ==
  ASSUME NEW q \in Seq(Frames), NEW from, NEW to, NEW frame, Talk(q, from, to),
         Fits(to, frame), ~Asks(to, frame)
  PROVE  Append(q, frame) \in Seq(Frames) /\ Talk(Append(q, frame), from, After(to, frame))
<1> DEFINE long == Append(q, frame)
<1>1. /\ long \in Seq(Frames) /\ Len(long) = Len(q) + 1 /\ Len(q) \in Nat
      /\ long[Len(q) + 1] = frame /\ \A i \in 1 .. Len(q) : long[i] = q[i]
  BY FitsFrame, AppendElements
<1>2. PICK at \in Labels(q) :
        /\ at[0] = from /\ at[Len(q)] = to
        /\ \A i \in 1 .. Len(q) :
             /\ Fits(at[i - 1], q[i]) /\ ~Asks(at[i - 1], q[i])
             /\ at[i] = After(at[i - 1], q[i])
  BY DEF Talk
<1> DEFINE new == [i \in 0 .. Len(q) + 1 |-> IF i <= Len(q) THEN at[i] ELSE After(to, frame)]
<1>3. /\ \A i \in 0 .. Len(q) : new[i] = at[i]
      /\ new[Len(q) + 1] = After(to, frame) /\ new[0] = from
  BY <1>1, <1>2
<1>4. new \in Labels(long)
  BY <1>1, AfterStage DEF Labels
<1> HIDE DEF new, long
<1>5. ASSUME NEW i \in 1 .. Len(long)
      PROVE  /\ Fits(new[i - 1], long[i]) /\ ~Asks(new[i - 1], long[i])
             /\ new[i] = After(new[i - 1], long[i])
  <2>1. CASE i \in 1 .. Len(q)
    <3>1. long[i] = q[i] /\ new[i] = at[i] /\ new[i - 1] = at[i - 1]
      BY <1>1, <1>3, <2>1
    <3> QED
      BY <1>2, <2>1, <3>1
  <2>2. CASE i = Len(q) + 1
    <3>1. long[i] = frame /\ new[i] = After(to, frame) /\ new[i - 1] = to
      BY <1>1, <1>2, <1>3, <2>2
    <3> QED
      BY <3>1
  <2> QED
    BY <1>1, <2>1, <2>2
<1>6. Talk(long, from, After(to, frame))
  BY <1>1, <1>3, <1>4, <1>5 DEF Talk
<1> QED
  BY <1>1, <1>6 DEF long

\* A view is asked for.
LEMMA AskedAppend ==
  ASSUME NEW q \in Seq(Frames), NEW from, Talk(q, from, "command")
  PROVE  Append(q, VIEW) \in Seq(Frames) /\ Asked(Append(q, VIEW), from)
<1>1. VIEW \in Frames
  BY DEF Frames
<1> QED
  BY <1>1, FrontAppend, AppendElements DEF Asked

\* A frame is received: either it asks for the view, or the view is still to come.
LEMMA AskedTail ==
  ASSUME NEW q \in Seq(Frames), NEW from \in Stages, Asked(q, from)
  PROVE  /\ Fits(from, Head(q)) /\ q # <<>>
         /\ \/ Asks(from, Head(q)) /\ Tail(q) = <<>>
            \/ ~Asks(from, Head(q)) /\ Asked(Tail(q), After(from, Head(q)))
<1> DEFINE front == Front(q)
<1>1. /\ front \in Seq(Frames) /\ q = Append(front, VIEW) /\ Talk(front, from, "command") /\ q # <<>>
      /\ VIEW \in Frames
  BY FrontLast DEF Asked, Frames
<1> HIDE DEF front
<1>2. CASE front = <<>>
  <2>1. from = "command"
    BY <1>1, <1>2, TalkNothing
  <2>2. q = <<VIEW>>
    BY <1>1, <1>2
  <2>3. Head(q) = VIEW /\ Tail(q) = <<>>
    BY <2>2
  <2> QED
    BY <1>1, <2>1, <2>3 DEF Asks, Fits
<1>3. CASE front # <<>>
  <2>1. /\ Tail(front) \in Seq(Frames) /\ Head(q) = Head(front) /\ Tail(q) = Append(Tail(front), VIEW)
    BY <1>1, <1>3
  <2>2. /\ Fits(from, Head(q)) /\ ~Asks(from, Head(q))
        /\ Talk(Tail(front), After(from, Head(q)), "command")
    BY <1>1, <1>3, <2>1, TalkTail
  <2> QED
    BY <1>1, <2>1, <2>2, AskedAppend
<1> QED
  BY <1>2, <1>3

-----------------------------------------------------------------------------
(* Types, and what a window and its child know of each other.              *)

Ended == {"none", "zombie"}

Stage(c) == IF pc[c] \in {"fields", "number"} THEN pc[c] ELSE "command"

\* What a window has sent and its child has not received: whole commands, the
\* last of which asks for a view when the window waits for one.
Conversation(c) ==
  /\ gui[c] = "ready" => Talk(c2s[c], Stage(c), "command")
  /\ gui[c] = "viewing" =>
       \/ Asked(c2s[c], Stage(c))
       \/ c2s[c] = <<>> /\ Stage(c) = "command"
  /\ gui[c] = "locked" =>
       \/ Asked(c2s[c], Stage(c))
       \/ \E to \in Stages : Talk(c2s[c], Stage(c), to)

\* A view is on its way until the child has received it, then its reply is.
Replies(c) ==
  /\ gui[c] # "viewing" => s2c[c] = <<>>
  /\ gui[c] = "viewing" /\ pc[c] \notin Ended =>
       Len(s2c[c]) = IF c2s[c] = <<>> THEN 1 ELSE 0
  /\ Len(s2c[c]) <= 1

OfClient(c) ==
  /\ Conversation(c)
  /\ Replies(c)
  /\ pc[c] \in Ended => c2s[c] = <<>>

TypeInv ==
  /\ TypeOK
  /\ c2s \in [Clients -> Seq(Frames)]
  /\ \A c \in Clients : OfClient(c)

LEMMA StageOf == \A c : Stage(c) \in Stages
  BY DEF Stage, Stages

\* Lists of rows: adding and removing rows, and overwriting the start of a file.
LEMMA RowsTyped ==
  /\ Info \in Lists /\ <<>> \in Lists
  /\ \A rows \in Lists, row \in Rows : Append(rows, row) \in Lists
  /\ \A rows \in Lists : \A number \in DOMAIN rows : RemoveAt(rows, number) \in Lists
  /\ \A rows \in Lists, old \in Lists : rows \o SubSeq(old, Len(rows) + 1, Len(old)) \in Lists
<1> DEFINE All == Rows \cup ToSet(Info)
<1> HIDE DEF All
<1>1. Lists = Seq(All) /\ Rows \subseteq All /\ ToSet(Info) \subseteq All
  BY DEF All, Lists
<1>2. Info \in Seq(All)
  BY <1>1, RegisterAssumption
<1>3. \A rows \in Seq(All), row \in All : Append(rows, row) \in Seq(All)
  OBVIOUS
<1>4. ASSUME NEW rows \in Seq(All), NEW number \in DOMAIN rows
      PROVE  RemoveAt(rows, number) \in Seq(All)
  <2>1. SubSeq(rows, 1, number - 1) \in Seq(All) /\ SubSeq(rows, number + 1, Len(rows)) \in Seq(All)
    OBVIOUS
  <2> QED
    BY <2>1 DEF RemoveAt
<1>5. ASSUME NEW rows \in Seq(All), NEW old \in Seq(All)
      PROVE  rows \o SubSeq(old, Len(rows) + 1, Len(old)) \in Seq(All)
  <2>1. SubSeq(old, Len(rows) + 1, Len(old)) \in Seq(All)
    OBVIOUS
  <2> QED
    BY <2>1
<1> QED
  BY <1>1, <1>2, <1>3, <1>4, <1>5

LEMMA ClientElsewhere ==
  ASSUME NEW c, OfClient(c), pc'[c] = pc[c], c2s'[c] = c2s[c], s2c'[c] = s2c[c], gui'[c] = gui[c]
  PROVE  OfClient(c)'
  BY DEF OfClient, Conversation, Replies, Stage

\* The child goes on without a word to its window.
LEMMA ClientMoves ==
  ASSUME NEW c, OfClient(c), Stage(c)' = Stage(c), pc'[c] \in Ended <=> pc[c] \in Ended,
         c2s'[c] = c2s[c], s2c'[c] = s2c[c], gui'[c] = gui[c]
  PROVE  OfClient(c)'
  BY DEF OfClient, Conversation, Replies

\* The child ends, and what it has not received is lost.
LEMMA ClientEnds ==
  ASSUME NEW c, OfClient(c), pc'[c] \in Ended, c2s'[c] = <<>>, s2c'[c] = s2c[c], gui'[c] = gui[c]
  PROVE  OfClient(c)'
<1>1. Stage(c)' = "command" /\ "command" \in Stages
  BY DEF Stage, Ended, Stages
<1>2. Talk(<<>>, "command", "command")
  BY <1>1, TalkNothing
<1> QED
  BY <1>1, <1>2 DEF OfClient, Conversation, Replies

\* The child receives a frame that does not ask for a view.
LEMMA ClientHears ==
  ASSUME TypeInv, NEW c \in Clients, NEW frame, Received(c, frame), ~Asks(Stage(c), frame),
         Stage(c)' = After(Stage(c), frame), pc[c] \notin Ended, pc'[c] \notin Ended,
         s2c'[c] = s2c[c], gui'[c] = gui[c]
  PROVE  OfClient(c)' /\ Fits(Stage(c), frame)
<1>1. /\ c2s[c] \in Seq(Frames) /\ c2s[c] # <<>> /\ frame = Head(c2s[c]) /\ c2s'[c] = Tail(c2s[c])
      /\ OfClient(c) /\ gui[c] \in {"locked", "ready", "viewing"} /\ Stage(c) \in Stages
  BY StageOf DEF TypeInv, TypeOK, Received
<1>2. \A to : Talk(c2s[c], Stage(c), to) => Talk(c2s'[c], Stage(c)', to) /\ Fits(Stage(c), frame)
  BY <1>1, TalkTail
<1>3. Asked(c2s[c], Stage(c)) => Asked(c2s'[c], Stage(c)') /\ Fits(Stage(c), frame)
  BY <1>1, AskedTail
<1>4. Asked(c2s'[c], Stage(c)') => c2s'[c] # <<>>
  BY DEF Asked
<1>5. Conversation(c)' /\ Fits(Stage(c), frame)
  BY <1>1, <1>2, <1>3 DEF OfClient, Conversation
<1>6. gui[c] = "viewing" => c2s'[c] # <<>>
  BY <1>1, <1>3, <1>4 DEF OfClient, Conversation
<1> QED
  BY <1>1, <1>5, <1>6 DEF OfClient, Replies

\* What the child of a window that waits receives first, when it receives a view.
LEMMA ViewIsLast ==
  ASSUME TypeInv, NEW c \in Clients, pc[c] = "command", c2s[c] # <<>>, Head(c2s[c]) = VIEW
  PROVE  /\ Tail(c2s[c]) = <<>> /\ gui[c] # "ready" /\ s2c[c] = <<>>
<1>1. /\ c2s[c] \in Seq(Frames) /\ Stage(c) = "command" /\ Stage(c) \in Stages
      /\ OfClient(c) /\ gui[c] \in {"locked", "ready", "viewing"} /\ Asks(Stage(c), Head(c2s[c]))
      /\ s2c[c] \in Seq(Lists)
  BY StageOf DEF TypeInv, TypeOK, Stage, Asks
<1>2. \A to : ~Talk(c2s[c], Stage(c), to)
  BY <1>1, TalkTail
<1>3. Asked(c2s[c], Stage(c)) /\ gui[c] # "ready"
  BY <1>1, <1>2 DEF OfClient, Conversation
<1>4. s2c[c] = <<>>
  BY <1>1, <1>3 DEF OfClient, Replies, Ended
<1> QED
  BY <1>1, <1>3, <1>4, AskedTail

\* The window sends one frame more.
LEMMA TalkSends ==
  ASSUME NEW q \in Seq(Frames), NEW from, NEW to, NEW frame, NEW long, NEW next, Talk(q, from, to),
         Fits(to, frame), ~Asks(to, frame), next = After(to, frame), long = Append(q, frame)
  PROVE  long \in Seq(Frames) /\ Talk(long, from, next)
  BY TalkAppend

\* The commands of a window, to a child that receives a command next.
LEMMA Commands ==
  ASSUME NEW q \in Seq(Frames), NEW from, Talk(q, from, "command")
  PROVE  /\ q \o <<VIEW>> \in Seq(Frames) /\ Asked(q \o <<VIEW>>, from)
         /\ q \o <<DISCONNECT>> \in Seq(Frames) /\ Talk(q \o <<DISCONNECT>>, from, "command")
         /\ q \o <<ADD>> \in Seq(Frames) /\ Talk(q \o <<ADD>>, from, "fields")
         /\ q \o <<DELETE>> \in Seq(Frames) /\ Talk(q \o <<DELETE>>, from, "number")
         /\ \A row \in Rows \cup {Empty} :
              /\ q \o <<ADD, row>> \in Seq(Frames) /\ Talk(q \o <<ADD, row>>, from, "command")
              /\ q \o <<ADD, row, DISCONNECT>> \in Seq(Frames)
              /\ Talk(q \o <<ADD, row, DISCONNECT>>, from, "command")
         /\ \A number \in 1 .. MaxNumber :
              /\ q \o <<DELETE, number>> \in Seq(Frames)
              /\ Talk(q \o <<DELETE, number>>, from, "command")
<1>1. VIEW \in Frames /\ DISCONNECT \in Frames /\ ADD \in Frames /\ DELETE \in Frames
  BY DEF Frames
<1>2. ASSUME NEW frame \in Frames
      PROVE  /\ q \o <<frame>> = Append(q, frame)
             /\ q \o <<ADD, frame>> = Append(q \o <<ADD>>, frame)
             /\ q \o <<ADD, frame, DISCONNECT>> = Append(q \o <<ADD, frame>>, DISCONNECT)
             /\ q \o <<DELETE, frame>> = Append(q \o <<DELETE>>, frame)
  <2>1. \A x \in Frames : q \o <<x>> = Append(q, x)
    OBVIOUS
  <2>2. \A x \in Frames, y \in Frames : q \o <<x, y>> = Append(q \o <<x>>, y)
    OBVIOUS
  <2>3. \A x \in Frames, y \in Frames, z \in Frames : q \o <<x, y, z>> = Append(q \o <<x, y>>, z)
    OBVIOUS
  <2>4. /\ q \o <<frame>> = Append(q, frame)
        /\ q \o <<ADD, frame>> = Append(q \o <<ADD>>, frame)
    BY <1>1, <2>1, <2>2
  <2>5. q \o <<DELETE, frame>> = Append(q \o <<DELETE>>, frame)
    BY <1>1, <2>2
  <2>6. q \o <<ADD, frame, DISCONNECT>> = Append(q \o <<ADD, frame>>, DISCONNECT)
    BY <1>1, <2>3
  <2> QED
    BY <2>4, <2>5, <2>6
<1>3. /\ Fits("command", DISCONNECT) /\ ~Asks("command", DISCONNECT)
      /\ "command" = After("command", DISCONNECT)
  BY DEF Fits, Asks, After, VIEW, DISCONNECT, ADD, DELETE
<1>4. /\ Fits("command", ADD) /\ ~Asks("command", ADD)
      /\ "fields" = After("command", ADD)
  BY DEF Fits, Asks, After, VIEW, DISCONNECT, ADD, DELETE
<1>5. /\ Fits("command", DELETE) /\ ~Asks("command", DELETE)
      /\ "number" = After("command", DELETE)
  BY DEF Fits, Asks, After, VIEW, DISCONNECT, ADD, DELETE
<1>6. /\ q \o <<VIEW>> \in Seq(Frames) /\ Asked(q \o <<VIEW>>, from)
  BY <1>1, <1>2, AskedAppend
<1>7. q \o <<DISCONNECT>> \in Seq(Frames) /\ Talk(q \o <<DISCONNECT>>, from, "command")
  <2>1. q \o <<DISCONNECT>> = Append(q, DISCONNECT)
    BY <1>1, <1>2
  <2> QED
    BY <1>3, <2>1, TalkSends
<1>8. q \o <<ADD>> \in Seq(Frames) /\ Talk(q \o <<ADD>>, from, "fields")
  <2>1. q \o <<ADD>> = Append(q, ADD)
    BY <1>1, <1>2
  <2> QED
    BY <1>4, <2>1, TalkSends
<1>9. q \o <<DELETE>> \in Seq(Frames) /\ Talk(q \o <<DELETE>>, from, "number")
  <2>1. q \o <<DELETE>> = Append(q, DELETE)
    BY <1>1, <1>2
  <2> QED
    BY <1>5, <2>1, TalkSends
<1>10. ASSUME NEW row \in Rows \cup {Empty}
       PROVE  /\ q \o <<ADD, row>> \in Seq(Frames) /\ Talk(q \o <<ADD, row>>, from, "command")
              /\ q \o <<ADD, row, DISCONNECT>> \in Seq(Frames)
              /\ Talk(q \o <<ADD, row, DISCONNECT>>, from, "command")
  <2>1. Fits("fields", row) /\ ~Asks("fields", row) /\ "command" = After("fields", row)
    BY DEF Fits, Asks, After
  <2>2. row \in Frames
    BY DEF Frames
  <2>3. /\ q \o <<ADD, row>> = Append(q \o <<ADD>>, row)
        /\ q \o <<ADD, row, DISCONNECT>> = Append(q \o <<ADD, row>>, DISCONNECT)
    BY <1>2, <2>2
  <2>4. q \o <<ADD, row>> \in Seq(Frames) /\ Talk(q \o <<ADD, row>>, from, "command")
    BY <1>8, <2>1, <2>3, TalkSends
  <2>5. /\ q \o <<ADD, row, DISCONNECT>> \in Seq(Frames)
        /\ Talk(q \o <<ADD, row, DISCONNECT>>, from, "command")
    BY <1>3, <2>3, <2>4, TalkSends
  <2> QED
    BY <2>4, <2>5
<1>11. ASSUME NEW number \in 1 .. MaxNumber
       PROVE  /\ q \o <<DELETE, number>> \in Seq(Frames)
              /\ Talk(q \o <<DELETE, number>>, from, "command")
  <2>1. Fits("number", number) /\ ~Asks("number", number) /\ "command" = After("number", number)
    BY DEF Fits, Asks, After
  <2>2. q \o <<DELETE, number>> = Append(q \o <<DELETE>>, number)
    BY <1>2 DEF Frames
  <2> QED
    BY <1>9, <2>1, <2>2, TalkSends
<1> QED
  BY <1>6, <1>7, <1>8, <1>9, <1>10, <1>11

\* A window sends a command, whatever the state of its child.
LEMMA Sends ==
  ASSUME TypeInv, NEW c \in Clients, NEW frames, Put(c, frames), pc' = pc,
         c2s[c] \o frames \in Seq(Frames), frames \in Seq(Frames)
  PROVE  /\ c2s' \in [Clients -> Seq(Frames)] /\ \A d \in Clients : Len(c2s'[d]) <= SockBuf
         /\ \A d \in Clients \ {c} : c2s'[d] = c2s[d]
         /\ \/ pc[c] \in Ended /\ c2s'[c] = <<>>
            \/ pc[c] \notin Ended /\ c2s'[c] = c2s[c] \o frames
<1>1. /\ c2s \in [Clients -> Seq(Frames)] /\ \A d \in Clients : Len(c2s[d]) <= SockBuf
      /\ pc[c] \in Ended => c2s[c] = <<>>
  BY DEF TypeInv, TypeOK, OfClient
<1>2. CASE pc[c] \in Ended
  BY <1>1, <1>2 DEF Put, Ended
<1>3. CASE pc[c] \notin Ended
  <2>1. /\ c2s' = [c2s EXCEPT ![c] = c2s[c] \o frames] /\ Len(c2s[c]) + Len(frames) <= SockBuf
    BY <1>3 DEF Put, Ended
  <2>2. Len(c2s[c] \o frames) = Len(c2s[c]) + Len(frames)
    BY <1>1
  <2> QED
    BY <1>1, <1>3, <2>1, <2>2
<1> QED
  BY <1>2, <1>3

\* Where the window stands after each of its steps.
LEMMA ClientWindow ==
  ASSUME TypeInv, NEW c \in Clients, WindowStep(c)
  PROVE  OfClient(c)' /\ c2s' \in [Clients -> Seq(Frames)]
         /\ (\A d \in Clients : Len(c2s'[d]) <= SockBuf)
         /\ \A d \in Clients \ {c} : OfClient(d)'
<1> USE DEF Goto
<1>0. /\ OfClient(c) /\ Stage(c) \in Stages /\ c2s[c] \in Seq(Frames)
      /\ c2s \in [Clients -> Seq(Frames)] /\ \A d \in Clients : Len(c2s[d]) <= SockBuf
      /\ \A d \in Clients : OfClient(d)
      /\ pc \in [Clients -> ChildPCs] /\ s2c \in [Clients -> Seq(Lists)]
      /\ gui \in [Clients -> {"locked", "ready", "viewing"}]
      /\ {"command", "fields", "number"} \subseteq Stages
  BY StageOf DEF TypeInv, TypeOK, Stages
<1> DEFINE Good == /\ OfClient(c)' /\ c2s' \in [Clients -> Seq(Frames)]
                   /\ \A d \in Clients : Len(c2s'[d]) <= SockBuf
                   /\ \A d \in Clients \ {c} : OfClient(d)'
<1>1. ASSUME NEW frames, Put(c, frames), gui[c] = "ready",
             UNCHANGED pc, UNCHANGED s2c, gui'[c] = "viewing",
             \A d \in Clients \ {c} : gui'[d] = gui[d], frames = <<VIEW>>
      PROVE  Good
  <2>1. Talk(c2s[c], Stage(c), "command") /\ s2c[c] = <<>>
    BY <1>0, <1>1 DEF OfClient, Conversation, Replies
  <2>2. /\ c2s[c] \o frames \in Seq(Frames) /\ Asked(c2s[c] \o frames, Stage(c))
        /\ frames \in Seq(Frames)
    <3>1. c2s[c] \o <<VIEW>> \in Seq(Frames) /\ Asked(c2s[c] \o <<VIEW>>, Stage(c))
      BY <1>0, <2>1, Commands
    <3>2. <<VIEW>> \in Seq(Frames)
      BY DEF Frames
    <3> QED
      BY <1>1, <3>1, <3>2
  <2>3. /\ c2s' \in [Clients -> Seq(Frames)] /\ \A d \in Clients : Len(c2s'[d]) <= SockBuf
        /\ \A d \in Clients \ {c} : c2s'[d] = c2s[d]
        /\ \/ pc[c] \in Ended /\ c2s'[c] = <<>>
           \/ pc[c] \notin Ended /\ c2s'[c] = c2s[c] \o frames
    BY <1>1, <2>2, Sends
  <2>4. OfClient(c)'
    <3>1. Stage(c)' = Stage(c) /\ s2c'[c] = <<>> /\ pc'[c] = pc[c]
      BY <1>1, <2>1 DEF Stage
    <3>2. pc[c] \in Ended => Stage(c) = "command"
      BY DEF Ended, Stage
    <3>3. pc[c] \notin Ended => c2s'[c] # <<>>
      BY <2>2, <2>3 DEF Asked
    <3>4. Conversation(c)'
      BY <1>1, <2>2, <2>3, <3>1, <3>2 DEF Conversation
    <3>5. Len(<<>>) = 0
      OBVIOUS
    <3>6. Replies(c)'
      BY <1>1, <3>1, <3>3, <3>5 DEF Replies
    <3> QED
      BY <2>3, <3>1, <3>4, <3>6 DEF OfClient
  <2>5. \A d \in Clients \ {c} : OfClient(d)'
    BY <1>0, <1>1, <2>3, ClientElsewhere
  <2> QED
    BY <2>3, <2>4, <2>5
<1>2. ASSUME NEW frames \in Seq(Frames), NEW to \in Stages, Put(c, frames), gui[c] = "ready",
             UNCHANGED pc, s2c'[c] = <<>>, \A d \in Clients \ {c} : s2c'[d] = s2c[d],
             c2s[c] \o frames \in Seq(Frames), Talk(c2s[c] \o frames, Stage(c), to),
             gui'[c] = "locked" \/ (gui'[c] = "ready" /\ to = "command"),
             \A d \in Clients \ {c} : gui'[d] = gui[d]
      PROVE  Good
  <2>1. /\ c2s' \in [Clients -> Seq(Frames)] /\ \A d \in Clients : Len(c2s'[d]) <= SockBuf
        /\ \A d \in Clients \ {c} : c2s'[d] = c2s[d]
        /\ \/ pc[c] \in Ended /\ c2s'[c] = <<>>
           \/ pc[c] \notin Ended /\ c2s'[c] = c2s[c] \o frames
    BY <1>2, Sends
  <2>2. OfClient(c)'
    <3>1. Stage(c)' = Stage(c) /\ pc'[c] = pc[c]
      BY <1>2 DEF Stage
    <3>2. pc[c] \in Ended => Stage(c) = "command"
      BY DEF Ended, Stage
    <3>3. Talk(<<>>, "command", "command")
      BY <1>0, TalkNothing
    <3>4. Conversation(c)'
      BY <1>0, <1>2, <2>1, <3>1, <3>2, <3>3 DEF Conversation
    <3>5. Len(<<>>) = 0
      OBVIOUS
    <3>6. Replies(c)'
      BY <1>2, <3>5 DEF Replies
    <3> QED
      BY <2>1, <3>1, <3>4, <3>6 DEF OfClient
  <2>3. \A d \in Clients \ {c} : OfClient(d)'
    BY <1>0, <1>2, <2>1, ClientElsewhere
  <2> QED
    BY <2>1, <2>2, <2>3
<1>3. ASSUME UNCHANGED <<pc, c2s>>, CloseSocket(c)
      PROVE  Good
  <2>1. /\ gui'[c] = "locked" /\ s2c'[c] = <<>>
        /\ \A d \in Clients \ {c} : gui'[d] = gui[d] /\ s2c'[d] = s2c[d]
    BY <1>0, <1>3 DEF CloseSocket
  <2>2. OfClient(c)'
    <3>1. Stage(c)' = Stage(c) /\ pc'[c] = pc[c] /\ c2s'[c] = c2s[c]
      BY <1>3 DEF Stage
    <3>2. Talk(<<>>, "command", "command")
      BY <1>0, TalkNothing
    <3>3. Conversation(c)'
      BY <1>0, <2>1, <3>1, <3>2 DEF OfClient, Conversation
    <3>4. Len(<<>>) = 0
      OBVIOUS
    <3> QED
      BY <1>0, <2>1, <3>1, <3>3, <3>4 DEF OfClient, Replies
  <2>3. \A d \in Clients \ {c} : OfClient(d)'
    BY <1>0, <1>3, <2>1, ClientElsewhere
  <2> QED
    BY <1>0, <1>3, <2>2, <2>3
<1>4. ASSUME gui[c] = "ready"
      PROVE  Talk(c2s[c], Stage(c), "command") /\ s2c[c] = <<>>
  BY <1>0, <1>4 DEF OfClient, Conversation, Replies
<1>5. ASSUME CloseSocket(c)
      PROVE  /\ UNCHANGED pc /\ gui'[c] = "locked" /\ s2c'[c] = <<>>
             /\ \A d \in Clients \ {c} : gui'[d] = gui[d] /\ s2c'[d] = s2c[d]
  BY <1>0, <1>5 DEF CloseSocket
<1>6. /\ <<ADD>> \in Seq(Frames) /\ <<DELETE>> \in Seq(Frames) /\ <<DISCONNECT>> \in Seq(Frames)
      /\ \A row \in Rows \cup {Empty} :
           <<ADD, row>> \in Seq(Frames) /\ <<ADD, row, DISCONNECT>> \in Seq(Frames)
      /\ \A number \in 1 .. MaxNumber : <<DELETE, number>> \in Seq(Frames)
  BY DEF Frames
<1>7. CASE Connect(c)
  <2>1. /\ pc[c] = "none" /\ pc'[c] = "backlog" /\ gui[c] = "locked" /\ gui'[c] = "ready"
        /\ UNCHANGED <<c2s, s2c>>
        /\ \A d \in Clients \ {c} : pc'[d] = pc[d] /\ gui'[d] = gui[d]
    BY <1>0, <1>7 DEF Connect
  <2>2. OfClient(c)'
    <3>1. c2s'[c] = <<>> /\ s2c'[c] = <<>> /\ Stage(c)' = "command"
      BY <1>0, <2>1 DEF OfClient, Replies, Stage, Ended
    <3>2. Talk(<<>>, "command", "command")
      BY <1>0, TalkNothing
    <3>3. Len(<<>>) = 0
      OBVIOUS
    <3> QED
      BY <2>1, <3>1, <3>2, <3>3 DEF OfClient, Conversation, Replies
  <2>3. \A d \in Clients \ {c} : OfClient(d)'
    BY <1>0, <2>1, ClientElsewhere
  <2> QED
    BY <1>0, <2>1, <2>2, <2>3
<1>8. CASE ViewStudents(c)
  <2>1. /\ gui[c] = "ready" /\ gui'[c] = "viewing" /\ UNCHANGED <<pc, s2c>> /\ Put(c, <<VIEW>>)
        /\ \A d \in Clients \ {c} : gui'[d] = gui[d]
    BY <1>0, <1>8 DEF ViewStudents
  <2> QED
    BY <1>1, <2>1
<1>9. CASE AddEmpty(c)
  <2>1. /\ gui[c] = "ready" /\ UNCHANGED <<pc, s2c>>
        /\ \A d \in Clients \ {c} : gui'[d] = gui[d]
        /\ \/ Put(c, <<ADD, Empty>>) /\ gui'[c] = gui[c]
           \/ Put(c, <<ADD, Empty, DISCONNECT>>) /\ gui'[c] = "locked"
    BY <1>0, <1>9 DEF AddEmpty
  <2>2. /\ c2s[c] \o <<ADD, Empty>> \in Seq(Frames)
        /\ Talk(c2s[c] \o <<ADD, Empty>>, Stage(c), "command")
        /\ c2s[c] \o <<ADD, Empty, DISCONNECT>> \in Seq(Frames)
        /\ Talk(c2s[c] \o <<ADD, Empty, DISCONNECT>>, Stage(c), "command")
    BY <1>0, <1>4, <2>1, Commands
  <2>3. <<ADD, Empty>> \in Seq(Frames) /\ <<ADD, Empty, DISCONNECT>> \in Seq(Frames)
    BY <1>6
  <2>4. s2c'[c] = <<>> /\ \A d \in Clients \ {c} : s2c'[d] = s2c[d]
    BY <1>4, <2>1
  <2>5. CASE Put(c, <<ADD, Empty>>) /\ gui'[c] = gui[c]
    BY <1>0, <1>2, <2>1, <2>2, <2>3, <2>4, <2>5
  <2>6. CASE Put(c, <<ADD, Empty, DISCONNECT>>) /\ gui'[c] = "locked"
    BY <1>0, <1>2, <2>1, <2>2, <2>3, <2>4, <2>6
  <2> QED
    BY <2>1, <2>5, <2>6
<1>10. CASE \E row \in Rows \ added : AddStudents(c, row)
  <2>1. PICK row \in Rows : AddStudents(c, row)
    BY <1>10
  <2>2. /\ gui[c] = "ready" /\ UNCHANGED <<pc, s2c, gui>> /\ Put(c, <<ADD, row>>)
    BY <2>1 DEF AddStudents
  <2>3. /\ c2s[c] \o <<ADD, row>> \in Seq(Frames) /\ <<ADD, row>> \in Seq(Frames)
        /\ Talk(c2s[c] \o <<ADD, row>>, Stage(c), "command")
    BY <1>0, <1>4, <1>6, <2>2, Commands
  <2> QED
    BY <1>0, <1>2, <1>4, <2>2, <2>3
<1>11. CASE \E number \in 1 .. MaxNumber : DeleteStudents(c, number)
  <2>1. PICK number \in 1 .. MaxNumber : DeleteStudents(c, number)
    BY <1>11
  <2>2. /\ gui[c] = "ready" /\ UNCHANGED <<pc, s2c, gui>> /\ Put(c, <<DELETE, number>>)
    BY <2>1 DEF DeleteStudents
  <2>3. /\ c2s[c] \o <<DELETE, number>> \in Seq(Frames) /\ <<DELETE, number>> \in Seq(Frames)
        /\ Talk(c2s[c] \o <<DELETE, number>>, Stage(c), "command")
    BY <1>0, <1>4, <1>6, <2>2, Commands
  <2> QED
    BY <1>0, <1>2, <1>4, <2>2, <2>3
<1>12. CASE ReceiveReply(c)
  <2>1. /\ gui[c] = "viewing" /\ gui'[c] = "ready" /\ UNCHANGED <<pc, c2s>>
        /\ s2c[c] # <<>> /\ s2c'[c] = Tail(s2c[c]) /\ s2c[c] \in Seq(Lists)
        /\ \A d \in Clients \ {c} : gui'[d] = gui[d] /\ s2c'[d] = s2c[d]
    BY <1>0, <1>12 DEF ReceiveReply
  <2>2. Len(s2c[c]) = 1 /\ s2c'[c] = <<>> /\ Len(<<>>) = 0
    <3>1. Len(s2c[c]) <= 1
      BY <1>0 DEF OfClient, Replies
    <3> QED
      BY <2>1, <3>1, OneElement
  <2>3. c2s[c] = <<>>
    BY <1>0, <2>1, <2>2 DEF OfClient, Replies
  <2>4. OfClient(c)'
    <3>1. Stage(c) = "command" /\ Stage(c)' = Stage(c) /\ c2s'[c] = <<>>
      BY <1>0, <2>1, <2>3 DEF OfClient, Conversation, Asked, Stage
    <3>2. Talk(<<>>, "command", "command")
      BY <1>0, TalkNothing
    <3>3. Talk(c2s'[c], Stage(c)', "command")
      BY <3>1, <3>2
    <3>4. Conversation(c)'
      BY <2>1, <3>3 DEF Conversation
    <3>5. Replies(c)'
      <4>1. s2c'[c] = <<>>
        BY <2>2
      <4>2. Len(s2c'[c]) <= 1
        BY <2>2, <4>1
      <4> QED
        BY <2>1, <4>1, <4>2, Zenon DEF Replies
    <3> QED
      BY <3>1, <3>4, <3>5 DEF OfClient
  <2>5. \A d \in Clients \ {c} : OfClient(d)'
    BY <1>0, <2>1, ClientElsewhere
  <2> QED
    BY <1>0, <2>1, <2>4, <2>5
<1>13. CASE DisconnectFromServer(c)
  <2>1. gui[c] = "ready" /\ Put(c, <<DISCONNECT>>) /\ CloseSocket(c)
    BY <1>13 DEF DisconnectFromServer
  <2>2. /\ c2s[c] \o <<DISCONNECT>> \in Seq(Frames) /\ <<DISCONNECT>> \in Seq(Frames)
        /\ Talk(c2s[c] \o <<DISCONNECT>>, Stage(c), "command")
    BY <1>0, <1>4, <1>6, <2>1, Commands
  <2> QED
    BY <1>0, <1>2, <1>5, <2>1, <2>2
<1>14. CASE ReceiveFails(c) \/ SigPipe(c)
  BY <1>3, <1>14 DEF ReceiveFails, SigPipe, CloseSocket
<1>15. CASE KillWindow(c)
  <2>1. CloseSocket(c)
    BY <1>15 DEF KillWindow
  <2>2. CASE UNCHANGED c2s
    BY <1>3, <1>5, <2>1, <2>2
  <2>3. CASE gui[c] = "ready" /\ Put(c, <<ADD>>)
    <3>1. /\ c2s[c] \o <<ADD>> \in Seq(Frames) /\ <<ADD>> \in Seq(Frames)
          /\ Talk(c2s[c] \o <<ADD>>, Stage(c), "fields")
      BY <1>0, <1>4, <1>6, <2>3, Commands
    <3>2. "fields" \in Stages
      BY <1>0
    <3>3. /\ UNCHANGED pc /\ gui'[c] = "locked" /\ s2c'[c] = <<>>
          /\ \A d \in Clients \ {c} : gui'[d] = gui[d] /\ s2c'[d] = s2c[d]
      BY <1>5, <2>1
    <3> QED
      BY <1>2, <2>3, <3>1, <3>2, <3>3
  <2>4. CASE gui[c] = "ready" /\ Put(c, <<DELETE>>)
    <3>1. /\ c2s[c] \o <<DELETE>> \in Seq(Frames) /\ <<DELETE>> \in Seq(Frames)
          /\ Talk(c2s[c] \o <<DELETE>>, Stage(c), "number")
      BY <1>0, <1>4, <1>6, <2>4, Commands
    <3>2. "number" \in Stages
      BY <1>0
    <3>3. /\ UNCHANGED pc /\ gui'[c] = "locked" /\ s2c'[c] = <<>>
          /\ \A d \in Clients \ {c} : gui'[d] = gui[d] /\ s2c'[d] = s2c[d]
      BY <1>5, <2>1
    <3> QED
      BY <1>2, <2>4, <3>1, <3>2, <3>3
  <2> QED
    BY <1>15, <2>2, <2>3, <2>4 DEF KillWindow
<1> QED
  BY <1>7, <1>8, <1>9, <1>10, <1>11, <1>12, <1>13, <1>14, <1>15 DEF WindowStep

LEMMA TypeWindow ==
  ASSUME TypeInv, NEW c \in Clients, WindowStep(c)
  PROVE  TypeInv'
<1> USE DEF Goto
<1>1. /\ c2s' \in [Clients -> Seq(Frames)] /\ \A d \in Clients : Len(c2s'[d]) <= SockBuf
      /\ \A d \in Clients : OfClient(d)'
  BY ClientWindow
<1>2. /\ TypeOK /\ s2c \in [Clients -> Seq(Lists)] /\ s2c[c] \in Seq(Lists)
      /\ <<>> \in Seq(Lists) /\ (s2c[c] # <<>> => Tail(s2c[c]) \in Seq(Lists))
      /\ MaxDeletes \in Nat /\ ChildPCs = ChildPCs \cup {"backlog"}
  BY RegisterAssumption DEF TypeInv, TypeOK, ChildPCs
<1>3. /\ UNCHANGED <<file, parentVars, signalVars, vec, disturbed>>
      /\ gui' \in [Clients -> {"locked", "ready", "viewing"}]
      /\ s2c' \in [Clients -> Seq(Lists)] /\ pc' \in [Clients -> ChildPCs]
      /\ added' \subseteq Rows /\ deletes' \in 0 .. MaxDeletes
  <2> USE <1>2 DEF TypeOK
  <2>1. CASE Connect(c)
    BY <2>1 DEF Connect
  <2>2. CASE ViewStudents(c)
    BY <2>2 DEF ViewStudents
  <2>3. CASE AddEmpty(c)
    BY <2>3 DEF AddEmpty
  <2>4. CASE \E row \in Rows \ added : AddStudents(c, row)
    BY <2>4 DEF AddStudents
  <2>5. CASE \E number \in 1 .. MaxNumber : DeleteStudents(c, number)
    BY <2>5 DEF DeleteStudents
  <2>6. CASE ReceiveReply(c)
    BY <2>6 DEF ReceiveReply
  <2>7. CASE ReceiveFails(c) \/ DisconnectFromServer(c) \/ SigPipe(c) \/ KillWindow(c)
    BY <2>7 DEF ReceiveFails, DisconnectFromServer, SigPipe, KillWindow, CloseSocket
  <2> QED
    BY <2>1, <2>2, <2>3, <2>4, <2>5, <2>6, <2>7 DEF WindowStep
<1> QED
  BY <1>1, <1>2, <1>3 DEF TypeInv, TypeOK, parentVars, signalVars

\* The child of c ends, whatever the reason.
LEMMA TypeExit ==
  ASSUME TypeInv, NEW c \in Clients, Exit(c), UNCHANGED s2c, disturbed' \in BOOLEAN
  PROVE  TypeInv'
<1>1. /\ TypeOK /\ c2s \in [Clients -> Seq(Frames)] /\ \A d \in Clients : OfClient(d)
      /\ SockBuf \in Nat
  BY RegisterAssumption DEF TypeInv
<1>2. /\ pc' = [pc EXCEPT ![c] = IF parent = "dead" THEN "none" ELSE "zombie"]
      /\ pending' = (parent # "dead") /\ c2s' = [c2s EXCEPT ![c] = <<>>]
      /\ UNCHANGED <<file, parent, taken, reaping, vec, gui, added, deletes>>
  BY DEF Exit, parentVars, guiVars
<1>3. /\ pc'[c] \in Ended /\ c2s'[c] = <<>> /\ c2s' \in [Clients -> Seq(Frames)]
      /\ \A d \in Clients \ {c} : pc'[d] = pc[d] /\ c2s'[d] = c2s[d]
      /\ pc' \in [Clients -> ChildPCs]
  BY <1>1, <1>2 DEF TypeOK, Ended, ChildPCs
<1>4. OfClient(c)'
  BY <1>1, <1>2, <1>3, ClientEnds
<1>5. \A d \in Clients \ {c} : OfClient(d)'
  BY <1>1, <1>2, <1>3, ClientElsewhere
<1>6. ASSUME NEW d \in Clients
      PROVE  Len(c2s'[d]) <= SockBuf
  <2>1. Len(<<>>) <= SockBuf
    BY <1>1
  <2>2. Len(c2s[d]) <= SockBuf
    BY <1>1 DEF TypeOK
  <2> QED
    BY <1>3, <2>1, <2>2
<1> QED
  BY <1>1, <1>2, <1>3, <1>4, <1>5, <1>6 DEF TypeInv, TypeOK

\* A frame is received.
LEMMA QueueTail ==
  ASSUME TypeInv, NEW c \in Clients, NEW frame, Received(c, frame)
  PROVE  /\ c2s' \in [Clients -> Seq(Frames)] /\ \A d \in Clients : Len(c2s'[d]) <= SockBuf
         /\ \A d \in Clients \ {c} : c2s'[d] = c2s[d]
         /\ c2s[c] # <<>> /\ frame = Head(c2s[c]) /\ c2s'[c] = Tail(c2s[c])
<1>1. /\ c2s \in [Clients -> Seq(Frames)] /\ c2s[c] \in Seq(Frames) /\ SockBuf \in Nat
      /\ \A d \in Clients : Len(c2s[d]) <= SockBuf
  BY RegisterAssumption DEF TypeInv, TypeOK
<1>2. c2s[c] # <<>> /\ frame = Head(c2s[c]) /\ c2s' = [c2s EXCEPT ![c] = Tail(c2s[c])]
  BY DEF Received
<1>3. Tail(c2s[c]) \in Seq(Frames) /\ Len(Tail(c2s[c])) <= SockBuf
  BY <1>1, <1>2, TailElements
<1> QED
  BY <1>1, <1>2, <1>3

\* The child receives a frame of a command, and its rows change.
LEMMA TypeHears ==
  ASSUME TypeInv, NEW c \in Clients, NEW frame, Received(c, frame), ~Asks(Stage(c), frame),
         NEW to \in Running, pc' = [pc EXCEPT ![c] = to], pc[c] \in Running,
         Stage(c)' = After(Stage(c), frame), vec' \in [Clients -> Lists], disturbed' \in BOOLEAN,
         UNCHANGED <<file, parentVars, signalVars, s2c, guiVars>>
  PROVE  TypeInv'
<1>1. TypeOK /\ \A d \in Clients : OfClient(d)
  BY DEF TypeInv
<1>2. /\ c2s' \in [Clients -> Seq(Frames)] /\ \A d \in Clients : Len(c2s'[d]) <= SockBuf
      /\ \A d \in Clients \ {c} : c2s'[d] = c2s[d]
  BY QueueTail
<1>3. /\ pc' \in [Clients -> ChildPCs] /\ pc'[c] = to /\ \A d \in Clients \ {c} : pc'[d] = pc[d]
      /\ pc[c] \notin Ended /\ pc'[c] \notin Ended
  BY <1>1 DEF TypeOK, ChildPCs, Running, Ended
<1>4. OfClient(c)'
  BY <1>3, ClientHears DEF guiVars
<1>5. \A d \in Clients \ {c} : OfClient(d)'
  BY <1>1, <1>2, <1>3, ClientElsewhere DEF guiVars
<1> QED
  BY <1>1, <1>2, <1>3, <1>4, <1>5 DEF TypeInv, TypeOK, parentVars, signalVars, guiVars

LEMMA TypeChild ==
  ASSUME TypeInv, NEW c \in Clients, ChildStep(c) \/ ChildDies(c)
  PROVE  TypeInv'
<1> USE DEF Goto, Disturb
<1>0. /\ TypeOK /\ c2s \in [Clients -> Seq(Frames)] /\ \A d \in Clients : OfClient(d)
      /\ pc \in [Clients -> ChildPCs] /\ vec \in [Clients -> Lists] /\ vec[c] \in Lists
      /\ disturbed \in BOOLEAN /\ file \in Lists
  BY DEF TypeInv, TypeOK
<1>1. ReadData(c) \subseteq Lists
  BY <1>0 DEF ReadData
<1>2. CASE View(c)
  <2>1. PICK rows \in Lists :
          /\ vec' = [vec EXCEPT ![c] = rows]
          /\ disturbed' \in BOOLEAN
          /\ s2c' = [s2c EXCEPT ![c] = IF gui[c] = "viewing" THEN Append(s2c[c], rows) ELSE s2c[c]]
    BY <1>0, <1>1, <1>2 DEF View
  <2>2. /\ pc[c] = "command" /\ pc' = pc /\ Received(c, VIEW)
        /\ UNCHANGED <<file, parentVars, signalVars, guiVars>>
    BY <1>0, <1>2 DEF View
  <2>3. /\ c2s' \in [Clients -> Seq(Frames)] /\ \A d \in Clients : Len(c2s'[d]) <= SockBuf
        /\ \A d \in Clients \ {c} : c2s'[d] = c2s[d]
        /\ c2s[c] # <<>> /\ VIEW = Head(c2s[c]) /\ c2s'[c] = Tail(c2s[c])
    BY <2>2, QueueTail
  <2>4. c2s'[c] = <<>> /\ gui[c] # "ready" /\ s2c[c] = <<>>
    BY <2>2, <2>3, ViewIsLast
  <2>5. /\ s2c' \in [Clients -> Seq(Lists)] /\ \A d \in Clients \ {c} : s2c'[d] = s2c[d]
        /\ s2c'[c] = IF gui[c] = "viewing" THEN <<rows>> ELSE <<>>
    BY <1>0, <2>1, <2>4 DEF TypeOK
  <2>6. OfClient(c)'
    <3>1. Stage(c)' = "command" /\ gui'[c] = gui[c] /\ pc'[c] = pc[c] /\ "command" \in Stages
      BY <2>2 DEF Stage, guiVars, Stages
    <3>2. Talk(<<>>, "command", "command")
      BY <3>1, TalkNothing
    <3>3. Conversation(c)'
      BY <2>4, <3>1, <3>2 DEF Conversation
    <3>4. Len(<<>>) = 0 /\ Len(<<rows>>) = 1
      OBVIOUS
    <3>5. Replies(c)'
      BY <2>4, <2>5, <3>1, <3>4 DEF Replies
    <3> QED
      BY <2>4, <3>3, <3>5 DEF OfClient
  <2>7. \A d \in Clients \ {c} : OfClient(d)'
    BY <1>0, <2>2, <2>3, <2>5, ClientElsewhere DEF guiVars
  <2>8. vec' \in [Clients -> Lists]
    BY <1>0, <2>1
  <2> QED
    BY <1>0, <2>1, <2>2, <2>3, <2>5, <2>6, <2>7, <2>8 DEF TypeInv, TypeOK, parentVars, signalVars, guiVars
<1>3. CASE ViewFails(c) \/ EmptyField(c) \/ Disconnected(c) \/ HangUp(c) \/ ChildDies(c)
  <2>1. Exit(c) /\ UNCHANGED s2c /\ disturbed' \in BOOLEAN
    BY <1>0, <1>3 DEF ViewFails, EmptyField, Disconnected, HangUp, ChildDies
  <2> QED
    BY <2>1, TypeExit
<1>4. CASE RecvAdd(c)
  <2>1. /\ pc[c] = "command" /\ pc' = [pc EXCEPT ![c] = "fields"] /\ Received(c, ADD)
        /\ UNCHANGED <<file, parentVars, signalVars, s2c, guiVars, vec, disturbed>>
    BY <1>4 DEF RecvAdd
  <2>2. /\ Stage(c) = "command" /\ Stage(c)' = "fields" /\ ~Asks(Stage(c), ADD)
        /\ After(Stage(c), ADD) = "fields" /\ "fields" \in Running /\ pc[c] \in Running
    BY <1>0, <2>1 DEF Stage, Asks, After, ADD, VIEW, Running
  <2> QED
    BY <1>0, <2>1, <2>2, TypeHears
<1>5. CASE AddStudent(c)
  <2>1. PICK row \in Rows, rows \in Lists :
          /\ Received(c, row) /\ vec' = [vec EXCEPT ![c] = Append(rows, row)]
          /\ disturbed' \in BOOLEAN
    BY <1>0, <1>1, <1>5 DEF AddStudent
  <2>2. /\ pc[c] = "fields" /\ pc' = [pc EXCEPT ![c] = "open"]
        /\ UNCHANGED <<file, parentVars, signalVars, s2c, guiVars>>
    BY <1>5 DEF AddStudent
  <2>3. /\ Stage(c) = "fields" /\ Stage(c)' = "command" /\ ~Asks(Stage(c), row)
        /\ After(Stage(c), row) = "command" /\ "open" \in Running /\ pc[c] \in Running
    BY <1>0, <2>2 DEF Stage, Asks, After, Running
  <2>4. vec' \in [Clients -> Lists]
    BY <1>0, <2>1, RowsTyped
  <2> QED
    BY <2>1, <2>2, <2>3, <2>4, TypeHears
<1>6. CASE RecvDelete(c)
  <2>1. PICK rows \in Lists : vec' = [vec EXCEPT ![c] = rows] /\ disturbed' \in BOOLEAN
    BY <1>0, <1>1, <1>6 DEF RecvDelete
  <2>2. /\ pc[c] = "command" /\ pc' = [pc EXCEPT ![c] = "number"] /\ Received(c, DELETE)
        /\ UNCHANGED <<file, parentVars, signalVars, s2c, guiVars>>
    BY <1>6 DEF RecvDelete
  <2>3. /\ Stage(c) = "command" /\ Stage(c)' = "number" /\ ~Asks(Stage(c), DELETE)
        /\ After(Stage(c), DELETE) = "number" /\ "number" \in Running /\ pc[c] \in Running
    BY <1>0, <2>2 DEF Stage, Asks, After, ADD, DELETE, VIEW, Running
  <2>4. vec' \in [Clients -> Lists]
    BY <1>0, <2>1
  <2> QED
    BY <2>1, <2>2, <2>3, <2>4, TypeHears
<1>7. CASE DeleteStudent(c)
  <2>1. PICK number \in 1 .. MaxNumber, to \in {"open", "command"} :
          /\ Received(c, number) /\ pc' = [pc EXCEPT ![c] = to]
          /\ vec' \in [Clients -> Lists] /\ disturbed' \in BOOLEAN
    <3>1. PICK number \in 1 .. MaxNumber :
            /\ Received(c, number)
            /\ IF number \in DOMAIN vec[c]
                 THEN /\ vec' = [vec EXCEPT ![c] = RemoveAt(vec[c], number)]
                      /\ pc' = [pc EXCEPT ![c] = "open"]
                      /\ disturbed' \in BOOLEAN
                 ELSE /\ pc' = [pc EXCEPT ![c] = "command"]
                      /\ UNCHANGED <<vec, disturbed>>
      BY <1>0, <1>7 DEF DeleteStudent
    <3>2. number \in DOMAIN vec[c] => RemoveAt(vec[c], number) \in Lists
      BY <1>0, RowsTyped
    <3> QED
      BY <1>0, <3>1, <3>2
  <2>2. /\ pc[c] = "number" /\ UNCHANGED <<file, parentVars, signalVars, s2c, guiVars>>
    BY <1>7 DEF DeleteStudent
  <2>3. /\ Stage(c) = "number" /\ Stage(c)' = "command" /\ ~Asks(Stage(c), number)
        /\ After(Stage(c), number) = "command" /\ to \in Running /\ pc[c] \in Running
    BY <1>0, <2>1, <2>2 DEF Stage, Asks, After, Running
  <2> QED
    BY <2>1, <2>2, <2>3, TypeHears
<1>8. CASE OpenFile(c) \/ FlushFile(c)
  <2>1. /\ pc[c] \in {"open", "flush"} /\ pc'[c] \in {"flush", "command"}
        /\ pc' \in [Clients -> ChildPCs] /\ \A d \in Clients \ {c} : pc'[d] = pc[d]
        /\ UNCHANGED <<parentVars, signalVars, vec, c2s, s2c, guiVars>> /\ disturbed' \in BOOLEAN
    BY <1>0, <1>8 DEF OpenFile, FlushFile, ChildPCs
  <2>2. file' \in Lists
    BY <1>0, <1>8, RowsTyped DEF OpenFile, FlushFile
  <2>3. Stage(c)' = Stage(c) /\ (pc'[c] \in Ended <=> pc[c] \in Ended)
    BY <2>1 DEF Stage, Ended
  <2>4. OfClient(c)'
    BY <1>0, <2>1, <2>3, ClientMoves DEF guiVars
  <2>5. \A d \in Clients \ {c} : OfClient(d)'
    BY <1>0, <2>1, ClientElsewhere DEF guiVars
  <2> QED
    BY <1>0, <2>1, <2>2, <2>4, <2>5 DEF TypeInv, TypeOK, parentVars, signalVars, guiVars
<1> QED
  BY <1>2, <1>3, <1>4, <1>5, <1>6, <1>7, <1>8 DEF ChildStep

LEMMA TypeParent ==
  ASSUME TypeInv, ParentStep \/ ReaperStep \/ AcceptFails \/ \E c \in Clients : Accept(c)
  PROVE  TypeInv'
<1> USE DEF Goto, Disturb, parentVars, signalVars, guiVars
<1>0. /\ TypeOK /\ c2s \in [Clients -> Seq(Frames)] /\ \A d \in Clients : OfClient(d)
      /\ pc \in [Clients -> ChildPCs] /\ vec \in [Clients -> Lists] /\ SockBuf \in Nat
  BY RegisterAssumption DEF TypeInv, TypeOK
<1>1. CASE AcceptFails
  <2>1. /\ parent' = "dead" /\ pending' = FALSE /\ disturbed' \in BOOLEAN
        /\ \A c \in Clients : pc'[c] = IF pc[c] \in Running THEN pc[c] ELSE "none"
        /\ \A c \in Clients : c2s'[c] = IF pc[c] \in Running THEN c2s[c] ELSE <<>>
        /\ UNCHANGED <<file, taken, reaping, vec, s2c, gui, added, deletes>>
    BY <1>0, <1>1 DEF AcceptFails, TypeOK
  <2>2. pc' \in [Clients -> ChildPCs] /\ c2s' \in [Clients -> Seq(Frames)]
    <3>1. \A c \in Clients : pc[c] \in ChildPCs /\ "none" \in ChildPCs
      BY <1>0 DEF ChildPCs
    <3>2. \A c \in Clients : c2s[c] \in Seq(Frames) /\ <<>> \in Seq(Frames)
      BY <1>0
    <3> QED
      BY <1>1, <3>1, <3>2 DEF AcceptFails
  <2>3. ASSUME NEW c \in Clients
        PROVE  OfClient(c)' /\ Len(c2s'[c]) <= SockBuf
    <3>1. CASE pc[c] \in Running
      BY <1>0, <2>1, <3>1, ClientElsewhere DEF TypeOK
    <3>2. CASE pc[c] \notin Running
      <4>1. pc'[c] \in Ended /\ c2s'[c] = <<>>
        BY <2>1, <3>2 DEF Ended
      <4>2. Len(<<>>) = 0
        OBVIOUS
      <4> QED
        BY <1>0, <2>1, <4>1, <4>2, ClientEnds
    <3> QED
      BY <3>1, <3>2
  <2> QED
    BY <1>0, <2>1, <2>2, <2>3 DEF TypeInv, TypeOK
<1>2. CASE CloseInParent \/ SigChld \/ ReaperReturns \/ \E c \in Clients : Accept(c)
  <2>1. /\ UNCHANGED <<file, pc, vec, c2s, s2c, gui, added, deletes, disturbed>>
        /\ parent' \in {"accept", "fork", "close", "dead"} /\ taken' \in Clients \cup {NoClient}
        /\ pending' \in BOOLEAN /\ reaping' \in BOOLEAN
    BY <1>0, <1>2 DEF CloseInParent, SigChld, ReaperReturns, Accept, TypeOK
  <2>2. \A d \in Clients : OfClient(d)'
    BY <1>0, <2>1, ClientElsewhere
  <2> QED
    BY <1>0, <2>1, <2>2 DEF TypeInv, TypeOK
<1>3. ASSUME NEW c \in Clients, Fork(c) \/ ForkFails(c) \/ Reap(c)
      PROVE  TypeInv'
  <2>1. /\ UNCHANGED <<file, c2s, s2c, gui, added, deletes, disturbed, pending, reaping>>
        /\ parent' \in {"accept", "fork", "close", "dead"} /\ taken' \in Clients \cup {NoClient}
        /\ vec' \in [Clients -> Lists] /\ pc' \in [Clients -> ChildPCs]
        /\ \A d \in Clients \ {c} : pc'[d] = pc[d]
        /\ \/ pc[c] = "backlog" /\ pc'[c] \in {"command", "orphan"}
           \/ pc[c] = "zombie" /\ pc'[c] = "none"
    BY <1>0, <1>3, RowsTyped DEF Fork, ForkFails, Reap, TypeOK, ChildPCs
  <2>2. Stage(c)' = Stage(c) /\ (pc'[c] \in Ended <=> pc[c] \in Ended)
    BY <2>1 DEF Stage, Ended
  <2>3. OfClient(c)'
    BY <1>0, <2>1, <2>2, ClientMoves
  <2>4. \A d \in Clients \ {c} : OfClient(d)'
    BY <1>0, <2>1, ClientElsewhere
  <2> QED
    BY <1>0, <2>1, <2>3, <2>4 DEF TypeInv, TypeOK
<1> QED
  BY <1>1, <1>2, <1>3 DEF ParentStep, ReaperStep

LEMMA TypeInit == Init => TypeInv
<1> SUFFICES ASSUME Init PROVE TypeInv
  OBVIOUS
<1> USE DEF Init
<1>1. ASSUME NEW c \in Clients
      PROVE  OfClient(c)
  <2>1. pc[c] = "none" /\ c2s[c] = <<>> /\ s2c[c] = <<>> /\ gui[c] = "locked"
    OBVIOUS
  <2>2. Stage(c) = "command" /\ "command" \in Stages
    BY <2>1 DEF Stage, Stages
  <2>3. Talk(<<>>, "command", "command")
    BY <2>2, TalkNothing
  <2>4. Len(<<>>) = 0
    OBVIOUS
  <2> QED
    BY <2>1, <2>2, <2>3, <2>4 DEF OfClient, Conversation, Replies
<1>2. c2s \in [Clients -> Seq(Frames)] /\ \A c \in Clients : Len(c2s[c]) <= SockBuf
  BY RegisterAssumption
<1>3. vec \in [Clients -> Lists] /\ s2c \in [Clients -> Seq(Lists)] /\ file \in Lists
  BY RowsTyped
<1>4. /\ pc \in [Clients -> ChildPCs] /\ gui \in [Clients -> {"locked", "ready", "viewing"}]
      /\ added \subseteq Rows /\ deletes \in 0 .. MaxDeletes
  BY RegisterAssumption DEF ChildPCs
<1>5. TypeOK
  BY <1>2, <1>3, <1>4 DEF TypeOK
<1> QED
  BY <1>1, <1>2, <1>5 DEF TypeInv

LEMMA TypeStep == TypeInv /\ [Next]_vars => TypeInv'
<1> SUFFICES ASSUME TypeInv, [Next]_vars PROVE TypeInv'
  OBVIOUS
<1>1. CASE UNCHANGED vars
  <2>1. \A d \in Clients : OfClient(d)'
    BY <1>1, ClientElsewhere DEF TypeInv, vars, guiVars
  <2> QED
    BY <1>1, <2>1 DEF TypeInv, TypeOK, vars, parentVars, signalVars, guiVars
<1> QED
  BY <1>1, TypeParent, TypeChild, TypeWindow DEF Next

LEMMA Typed == Spec => []TypeInv
  BY TypeInit, TypeStep, PTL DEF Spec

\* Every variable keeps its type, and no connection holds more than it buffers.
THEOREM TypeCorrect == Spec => []TypeOK
  BY Typed, PTL DEF TypeInv

\* Whatever goes wrong, a window that waits for a reply has exactly one view
\* under way, and one that does not wait has no reply to come.
THEOREM RepliesInStep == Spec => []InStep
<1>1. TypeInv => InStep
  <2> SUFFICES ASSUME TypeInv, NEW c \in Clients
               PROVE  /\ gui[c] # "viewing" => s2c[c] = <<>>
                      /\ gui[c] = "viewing" /\ pc[c] \in Running =>
                           IF c2s[c] = <<>> THEN Len(s2c[c]) = 1
                                            ELSE Last(c2s[c]) = VIEW /\ s2c[c] = <<>>
    BY DEF InStep
  <2>1. OfClient(c) /\ s2c[c] \in Seq(Lists)
    BY DEF TypeInv, TypeOK
  <2>2. gui[c] # "viewing" => s2c[c] = <<>>
    BY <2>1 DEF OfClient, Replies
  <2>3. ASSUME gui[c] = "viewing", pc[c] \in Running
        PROVE  IF c2s[c] = <<>> THEN Len(s2c[c]) = 1
                                ELSE Last(c2s[c]) = VIEW /\ s2c[c] = <<>>
    <3>1. Len(s2c[c]) = IF c2s[c] = <<>> THEN 1 ELSE 0
      BY <2>1, <2>3 DEF OfClient, Replies, Running, Ended
    <3>2. c2s[c] # <<>> => Last(c2s[c]) = VIEW
      BY <2>1, <2>3 DEF OfClient, Conversation, Asked, Last
    <3>3. c2s[c] # <<>> => s2c[c] = <<>>
      BY <2>1, <3>1, EmptySeq
    <3> QED
      BY <3>1, <3>2, <3>3
  <2> QED
    BY <2>2, <2>3
<1> QED
  BY <1>1, Typed, PTL

-----------------------------------------------------------------------------
(* The register is atomic until it is disturbed.                           *)

\* Until the register is disturbed, a child that writes is alone with the file:
\* no other child writes or holds rows from which it will delete; such rows are
\* those of the file; and the file is empty while it is written.
Alone ==
  /\ \A c, d \in Clients : pc[c] \in Writing /\ pc[d] \in Writing \cup {"number"} => c = d
  /\ \A c \in Clients :
       /\ pc[c] = "number" => vec[c] = file
       /\ pc[c] = "flush" => file = <<>>

AloneInv == ~disturbed => Alone

\* A step by which no child starts to use the file.
LEMMA AloneCalm ==
  ASSUME AloneInv, file' = file, disturbed => disturbed',
         \A c \in Clients : pc'[c] \in Writing \cup {"number"} => pc'[c] = pc[c] /\ vec'[c] = vec[c]
  PROVE  AloneInv'
  BY DEF AloneInv, Alone, Writing

LEMMA AloneChild ==
  ASSUME TypeInv, AloneInv, NEW c \in Clients, ChildStep(c) \/ ChildDies(c)
  PROVE  AloneInv'
<1> USE DEF Goto, Disturb
<1>0. /\ pc \in [Clients -> ChildPCs] /\ vec \in [Clients -> Lists] /\ vec[c] \in Lists
      /\ file \in Lists /\ disturbed \in BOOLEAN
  BY DEF TypeInv, TypeOK
<1>1. CASE View(c) \/ RecvAdd(c)
  <2>1. /\ pc'[c] \in {"command", "fields"} /\ file' = file /\ (disturbed => disturbed')
        /\ \A d \in Clients \ {c} : pc'[d] = pc[d] /\ vec'[d] = vec[d]
    BY <1>0, <1>1 DEF View, RecvAdd
  <2> QED
    BY <2>1, AloneCalm DEF Writing
<1>2. CASE ViewFails(c) \/ EmptyField(c) \/ Disconnected(c) \/ HangUp(c) \/ ChildDies(c)
  <2>1. /\ pc'[c] \in {"none", "zombie"} /\ file' = file /\ (disturbed => disturbed')
        /\ \A d \in Clients \ {c} : pc'[d] = pc[d] /\ vec'[d] = vec[d]
    BY <1>0, <1>2 DEF ViewFails, EmptyField, Disconnected, HangUp, ChildDies, Exit
  <2> QED
    BY <2>1, AloneCalm DEF Writing
<1>3. CASE AddStudent(c)
  <2>1. /\ pc'[c] = "open" /\ file' = file
        /\ ~disturbed' => ~disturbed /\ ~Others(c, Writing \cup {"number"})
        /\ \A d \in Clients \ {c} : pc'[d] = pc[d] /\ vec'[d] = vec[d]
    BY <1>0, <1>3 DEF AddStudent
  <2> QED
    BY <2>1 DEF AloneInv, Alone, Others, Writing
<1>4. CASE RecvDelete(c)
  <2>1. /\ pc'[c] = "number" /\ file' = file
        /\ ~disturbed' => ~disturbed /\ ~Others(c, Writing) /\ vec'[c] = file
        /\ \A d \in Clients \ {c} : pc'[d] = pc[d] /\ vec'[d] = vec[d]
    BY <1>0, <1>4 DEF RecvDelete
  <2> QED
    BY <2>1 DEF AloneInv, Alone, Others, Writing
<1>5. CASE DeleteStudent(c)
  <2>1. /\ file' = file
        /\ ~disturbed' => ~disturbed
        /\ \/ pc'[c] = "open" /\ (~disturbed' => ~Others(c, Writing \cup {"number"}))
           \/ pc'[c] = "command"
        /\ \A d \in Clients \ {c} : pc'[d] = pc[d] /\ vec'[d] = vec[d]
    BY <1>0, <1>5 DEF DeleteStudent
  <2> QED
    BY <2>1 DEF AloneInv, Alone, Others, Writing
<1>6. CASE OpenFile(c)
  <2>1. /\ pc[c] = "open"
        /\ ~disturbed' => ~disturbed /\ pc'[c] = "flush" /\ file' = <<>>
        /\ \A d \in Clients \ {c} : pc'[d] = pc[d] /\ vec'[d] = vec[d]
    BY <1>0, <1>6 DEF OpenFile
  <2> QED
    BY <2>1 DEF AloneInv, Alone, Writing
<1>7. CASE FlushFile(c)
  <2>1. /\ pc[c] = "flush" /\ disturbed' = disturbed /\ pc'[c] = "command"
        /\ \A d \in Clients \ {c} : pc'[d] = pc[d] /\ vec'[d] = vec[d]
    BY <1>0, <1>7 DEF FlushFile
  <2> QED
    BY <2>1 DEF AloneInv, Alone, Writing
<1> QED
  BY <1>1, <1>2, <1>3, <1>4, <1>5, <1>6, <1>7 DEF ChildStep

LEMMA AloneStep == TypeInv /\ AloneInv /\ [Next]_vars => AloneInv'
<1> SUFFICES ASSUME TypeInv, AloneInv, [Next]_vars PROVE AloneInv'
  OBVIOUS
<1> USE DEF Goto, Disturb, parentVars, signalVars, guiVars
<1>0. pc \in [Clients -> ChildPCs] /\ vec \in [Clients -> Lists]
  BY DEF TypeInv, TypeOK
<1>1. CASE UNCHANGED vars
  BY <1>1, AloneCalm DEF vars
<1>2. CASE CloseInParent \/ SigChld \/ ReaperReturns \/ \E c \in Clients : Accept(c)
  BY <1>2, AloneCalm DEF CloseInParent, SigChld, ReaperReturns, Accept
<1>3. CASE AcceptFails
  BY <1>3 DEF AcceptFails, AloneInv
<1>4. ASSUME NEW c \in Clients, Fork(c) \/ ForkFails(c) \/ Reap(c)
      PROVE  AloneInv'
  <2>1. /\ pc'[c] \in {"command", "orphan", "none"} /\ file' = file /\ disturbed' = disturbed
        /\ \A d \in Clients \ {c} : pc'[d] = pc[d] /\ vec'[d] = vec[d]
    BY <1>0, <1>4 DEF Fork, ForkFails, Reap
  <2> QED
    BY <2>1, AloneCalm DEF Writing
<1>5. ASSUME NEW c \in Clients, WindowStep(c)
      PROVE  AloneInv'
  <2>1. /\ pc'[c] \in {"backlog", pc[c]} /\ file' = file /\ disturbed' = disturbed /\ vec' = vec
        /\ \A d \in Clients \ {c} : pc'[d] = pc[d]
    BY <1>0, <1>5 DEF WindowStep, Connect, ViewStudents, AddEmpty, AddStudents, DeleteStudents,
       ReceiveReply, ReceiveFails, DisconnectFromServer, SigPipe, KillWindow, CloseSocket
  <2> QED
    BY <2>1, AloneCalm DEF Writing
<1> QED
  BY <1>1, <1>2, <1>3, <1>4, <1>5, AloneChild DEF Next, ParentStep, ReaperStep

LEMMA AloneStart == Init => AloneInv
  BY DEF Init, AloneInv, Alone, Writing

LEMMA AloneAlways == Spec => []AloneInv
  BY AloneStart, AloneStep, Typed, PTL DEF Spec

\* The rows of the register.
LEMMA CurrentRows ==
  ASSUME Alone
  PROVE  /\ \A c \in Clients : pc[c] \in Writing => Current = vec[c]
         /\ (\A c \in Clients : pc[c] \notin Writing) => Current = file
<1>1. ASSUME NEW c \in Clients, pc[c] \in Writing
      PROVE  Current = vec[c]
  <2>1. (CHOOSE d \in Clients : pc[d] \in Writing) = c
    BY <1>1 DEF Alone
  <2> QED
    BY <1>1, <2>1 DEF Current
<1> QED
  BY <1>1 DEF Current

LEMMA CurrentSame ==
  ASSUME Alone, Alone', file' = file,
         \A c \in Clients : pc'[c] \in Writing <=> pc[c] \in Writing,
         \A c \in Clients : pc[c] \in Writing => vec'[c] = vec[c]
  PROVE  Current' = Current
<1>1. /\ \A c \in Clients : pc[c] \in Writing => Current = vec[c]
      /\ (\A c \in Clients : pc[c] \notin Writing) => Current = file
  BY CurrentRows
<1>2. ASSUME NEW c \in Clients, pc'[c] \in Writing
      PROVE  Current' = vec'[c]
  <2>1. (CHOOSE d \in Clients : pc'[d] \in Writing) = c
    BY <1>2 DEF Alone
  <2> QED
    BY <1>2, <2>1 DEF Current
<1>3. (\A c \in Clients : pc'[c] \notin Writing) => Current' = file'
  BY DEF Current
<1> QED
  BY <1>1, <1>2, <1>3

\* What is left of a queue when its first one or two frames are taken.
LEMMA TakeOne ==
  ASSUME NEW S, NEW q \in Seq(S), q # <<>>
  PROVE  Len(q) >= 1 /\ SubSeq(q, 1 + 1, Len(q)) = Tail(q) /\ <<Head(q)>> \o Tail(q) = q
<1>1. Len(q) \in Nat \ {0}
  BY TailElements
<1>2. SubSeq(q, 1 + 1, Len(q)) = Tail(q)
  BY <1>1
<1>3. <<Head(q)>> \o Tail(q) = q
  BY <1>1
<1> QED
  BY <1>1, <1>2, <1>3

LEMMA TakeTwo ==
  ASSUME NEW S, NEW q \in Seq(S), q # <<>>, NEW x \in S
  PROVE  /\ Len(<<x>> \o q) >= 2 /\ (<<x>> \o q)[1] = x /\ (<<x>> \o q)[2] = Head(q)
         /\ SubSeq(<<x>> \o q, 2 + 1, Len(<<x>> \o q)) = Tail(q)
<1>1. Len(q) \in Nat \ {0} /\ Head(q) = q[1]
  BY TailElements
<1>2. /\ Len(<<x>> \o q) = Len(q) + 1 /\ (<<x>> \o q)[1] = x
      /\ \A i \in 1 .. Len(q) : (<<x>> \o q)[i + 1] = q[i]
  OBVIOUS
<1>3. (<<x>> \o q)[2] = q[1]
  BY <1>1, <1>2
<1>4. SubSeq(<<x>> \o q, 2 + 1, Len(<<x>> \o q)) = Tail(q)
  BY <1>1, <1>2
<1> QED
  BY <1>1, <1>2, <1>3, <1>4

\* What a window has asked for.
LEMMA RequestsNow ==
  /\ \A c \in Clients :
       /\ pc[c] = "fields" => Requests[c] = <<ADD>> \o c2s[c]
       /\ pc[c] = "number" => Requests[c] = <<DELETE>> \o c2s[c]
       /\ pc[c] \notin {"fields", "number"} => Requests[c] = c2s[c]
  /\ Requests = [c \in Clients |-> Requests[c]]
  BY DEF Requests

LEMMA RequestsNext ==
  /\ \A c \in Clients :
       /\ pc'[c] = "fields" => Requests'[c] = <<ADD>> \o c2s'[c]
       /\ pc'[c] = "number" => Requests'[c] = <<DELETE>> \o c2s'[c]
       /\ pc'[c] \notin {"fields", "number"} => Requests'[c] = c2s'[c]
  /\ Requests' = [c \in Clients |-> Requests'[c]]
  BY DEF Requests

\* Only the requests of one window change.
LEMMA RequestsElsewhere ==
  ASSUME NEW c \in Clients,
         \A d \in Clients \ {c} : pc'[d] = pc[d] /\ c2s'[d] = c2s[d]
  PROVE  /\ \A d \in Clients \ {c} : Requests'[d] = Requests[d]
         /\ Requests' = [Requests EXCEPT ![c] = Requests'[c]]
<1>1. ASSUME NEW d \in Clients \ {c}
      PROVE  Requests'[d] = Requests[d]
  BY <1>1 DEF Requests
<1> QED
  BY <1>1, RequestsNow, RequestsNext, Zenon

\* What does not change the register stutters.
LEMMA RegisterStutter ==
  ASSUME Alone, Alone', NEW c \in Clients, file' = file, s2c' = s2c, disturbed' = disturbed,
         pc'[c] \in Writing <=> pc[c] \in Writing, pc[c] \in Writing => vec'[c] = vec[c],
         \A d \in Clients \ {c} : pc'[d] = pc[d] /\ c2s'[d] = c2s[d] /\ vec'[d] = vec[d],
         Requests'[c] = Requests[c]
  PROVE  UNCHANGED Register!registerVars
<1>1. Current' = Current
  <2>1. /\ \A d \in Clients : pc'[d] \in Writing <=> pc[d] \in Writing
        /\ \A d \in Clients : pc[d] \in Writing => vec'[d] = vec[d]
    OBVIOUS
  <2> QED
    BY <2>1, CurrentSame
<1>2. Requests' = Requests
  BY RequestsElsewhere, RequestsNow, RequestsNext
<1> QED
  BY <1>1, <1>2 DEF Register!registerVars

\* A child that is not writing, and does not start to, leaves the rows alone.
LEMMA CurrentCalm ==
  ASSUME Alone, Alone', NEW c \in Clients, file' = file,
         pc[c] \notin Writing, pc'[c] \notin Writing,
         \A d \in Clients \ {c} : pc'[d] = pc[d] /\ vec'[d] = vec[d]
  PROVE  Current' = Current
<1>1. /\ \A d \in Clients : pc'[d] \in Writing <=> pc[d] \in Writing
      /\ \A d \in Clients : pc[d] \in Writing => vec'[d] = vec[d]
  OBVIOUS
<1> QED
  BY <1>1, CurrentSame

LEMMA ViewStep ==
  ASSUME TypeInv, Alone, Alone', ~disturbed', NEW c \in Clients, View(c)
  PROVE  Register!View(c)
<1>0. /\ pc \in [Clients -> ChildPCs] /\ vec \in [Clients -> Lists] /\ c2s[c] \in Seq(Frames)
      /\ s2c \in [Clients -> Seq(Lists)]
  BY DEF TypeInv, TypeOK
<1>1. /\ pc[c] = "command" /\ pc' = pc /\ Received(c, VIEW) /\ file' = file
      /\ \A d \in Clients \ {c} : vec'[d] = vec[d]
      /\ ~Others(c, Writing)
      /\ s2c' = [s2c EXCEPT ![c] = IF gui[c] = "viewing" THEN Append(s2c[c], file) ELSE s2c[c]]
  <2>1. PICK rows \in ReadData(c) :
          /\ vec' = [vec EXCEPT ![c] = rows]
          /\ disturbed' = (disturbed \/ rows # file \/ Others(c, Writing))
          /\ s2c' = [s2c EXCEPT ![c] = IF gui[c] = "viewing" THEN Append(s2c[c], rows) ELSE s2c[c]]
    BY DEF View, Disturb
  <2>2. pc[c] = "command" /\ pc' = pc /\ Received(c, VIEW) /\ file' = file
    BY <1>0 DEF View, Goto
  <2>3. rows = file /\ ~Others(c, Writing)
    BY <2>1
  <2> QED
    BY <1>0, <2>1, <2>2, <2>3
<1>2. /\ \A d \in Clients \ {c} : c2s'[d] = c2s[d]
      /\ c2s[c] # <<>> /\ VIEW = Head(c2s[c]) /\ c2s'[c] = Tail(c2s[c])
  BY <1>1, QueueTail
<1>3. Current' = Current
  BY <1>1, CurrentCalm DEF Writing
<1>4. Current = file
  BY <1>1, CurrentRows DEF Others, Writing
<1>5. Requests[c] = c2s[c] /\ Requests'[c] = c2s'[c]
  BY <1>1, RequestsNow, RequestsNext
<1>6. Register!Take(c, 1)
  <2>1. Len(c2s[c]) >= 1 /\ SubSeq(c2s[c], 1 + 1, Len(c2s[c])) = Tail(c2s[c])
    BY <1>0, <1>2, TakeOne
  <2>2. Requests' = [Requests EXCEPT ![c] = Requests'[c]]
    BY <1>1, <1>2, RequestsElsewhere
  <2> QED
    BY <1>2, <1>5, <2>1, <2>2 DEF Register!Take
<1>7. s2c' \in {s2c, [s2c EXCEPT ![c] = Append(s2c[c], Current)]}
  <2>1. s2c = [s2c EXCEPT ![c] = s2c[c]]
    BY <1>0
  <2> QED
    BY <1>1, <1>4, <2>1
<1> QED
  BY <1>2, <1>3, <1>5, <1>6, <1>7 DEF Register!View

LEMMA AddStep ==
  ASSUME TypeInv, Alone, Alone', ~disturbed', NEW c \in Clients, AddStudent(c)
  PROVE  Register!Add(c)
<1>0. /\ pc \in [Clients -> ChildPCs] /\ vec \in [Clients -> Lists] /\ c2s[c] \in Seq(Frames)
  BY DEF TypeInv, TypeOK
<1>1. PICK row \in Rows :
        /\ Received(c, row) /\ vec'[c] = Append(file, row) /\ ~Others(c, Writing)
  BY <1>0 DEF AddStudent, Disturb, Others
<1>2. /\ pc[c] = "fields" /\ pc'[c] = "open" /\ file' = file /\ s2c' = s2c
      /\ \A d \in Clients \ {c} : pc'[d] = pc[d]
  BY <1>0 DEF AddStudent, Goto
<1>3. /\ \A d \in Clients \ {c} : c2s'[d] = c2s[d]
      /\ c2s[c] # <<>> /\ row = Head(c2s[c]) /\ c2s'[c] = Tail(c2s[c])
  BY <1>1, QueueTail
<1>4. Current = file /\ Current' = Append(file, row)
  <2>1. \A d \in Clients : pc[d] \notin Writing
    BY <1>1, <1>2 DEF Others, Writing
  <2>2. (CHOOSE d \in Clients : pc'[d] \in Writing) = c
    BY <1>2, <2>1 DEF Writing
  <2>3. Current' = vec'[c]
    BY <1>2, <2>2 DEF Current, Writing
  <2> QED
    BY <1>1, <2>1, <2>3, CurrentRows
<1>5. Requests[c] = <<ADD>> \o c2s[c] /\ Requests'[c] = c2s'[c]
  BY <1>2, RequestsNow, RequestsNext
<1>6. /\ Len(Requests[c]) >= 2 /\ Requests[c][1] = ADD /\ Requests[c][2] = row
      /\ SubSeq(Requests[c], 2 + 1, Len(Requests[c])) = Tail(c2s[c])
  <2>1. ADD \in Frames
    BY DEF Frames
  <2> QED
    BY <1>0, <1>3, <1>5, <2>1, TakeTwo
<1>7. Requests' = [Requests EXCEPT ![c] = Requests'[c]]
  BY <1>2, <1>3, RequestsElsewhere
<1>8. Register!Take(c, 2)
  BY <1>3, <1>5, <1>6, <1>7 DEF Register!Take
<1> QED
  BY <1>2, <1>4, <1>6, <1>8 DEF Register!Add

LEMMA DeleteStep ==
  ASSUME TypeInv, Alone, Alone', ~disturbed', NEW c \in Clients, DeleteStudent(c)
  PROVE  Register!Delete(c)
<1>0. /\ pc \in [Clients -> ChildPCs] /\ vec \in [Clients -> Lists] /\ c2s[c] \in Seq(Frames)
      /\ file \in Lists
  BY DEF TypeInv, TypeOK
<1>1. PICK number \in 1 .. MaxNumber :
        /\ Received(c, number)
        /\ IF number \in DOMAIN vec[c]
             THEN vec'[c] = RemoveAt(vec[c], number) /\ pc'[c] = "open"
             ELSE pc'[c] = "command" /\ vec' = vec
  BY <1>0 DEF DeleteStudent
<1>2. /\ pc[c] = "number" /\ file' = file /\ s2c' = s2c
      /\ \A d \in Clients \ {c} : pc'[d] = pc[d] /\ vec'[d] = vec[d]
  BY <1>0 DEF DeleteStudent
<1>3. /\ \A d \in Clients \ {c} : c2s'[d] = c2s[d]
      /\ c2s[c] # <<>> /\ number = Head(c2s[c]) /\ c2s'[c] = Tail(c2s[c])
  BY <1>1, QueueTail
<1>4. /\ \A d \in Clients : pc[d] \notin Writing
      /\ Current = file /\ vec[c] = file
  <2>1. \A d \in Clients : pc[d] \notin Writing
    BY <1>2 DEF Alone, Writing
  <2> QED
    BY <1>2, <2>1, CurrentRows DEF Alone
<1>5. Current' = IF number \in DOMAIN file THEN RemoveAt(file, number) ELSE file
  <2>1. CASE number \in DOMAIN file
    <3>1. vec'[c] = RemoveAt(file, number) /\ pc'[c] = "open"
      BY <1>1, <1>4, <2>1
    <3>2. (CHOOSE d \in Clients : pc'[d] \in Writing) = c
      BY <1>2, <1>4, <3>1 DEF Writing
    <3>3. Current' = vec'[c]
      BY <3>1, <3>2 DEF Current, Writing
    <3> QED
      BY <2>1, <3>1, <3>3
  <2>2. CASE number \notin DOMAIN file
    <3>1. \A d \in Clients : pc'[d] \notin Writing
      BY <1>1, <1>2, <1>4, <2>2 DEF Writing
    <3> QED
      BY <1>2, <2>2, <3>1 DEF Current
  <2> QED
    BY <2>1, <2>2
<1>6. Requests[c] = <<DELETE>> \o c2s[c] /\ Requests'[c] = c2s'[c]
  BY <1>1, <1>2, RequestsNow, RequestsNext
<1>7. /\ Len(Requests[c]) >= 2 /\ Requests[c][1] = DELETE /\ Requests[c][2] = number
      /\ SubSeq(Requests[c], 2 + 1, Len(Requests[c])) = Tail(c2s[c])
  <2>1. DELETE \in Frames
    BY DEF Frames
  <2> QED
    BY <1>0, <1>3, <1>6, <2>1, TakeTwo
<1>8. Requests' = [Requests EXCEPT ![c] = Requests'[c]]
  BY <1>2, <1>3, RequestsElsewhere
<1>9. Register!Take(c, 2)
  BY <1>3, <1>6, <1>7, <1>8 DEF Register!Take
<1>10. Current' = IF Requests[c][2] \in DOMAIN Current
                    THEN Register!RemoveAt(Current, Requests[c][2]) ELSE Current
  BY <1>4, <1>5, <1>7 DEF RemoveAt, Register!RemoveAt
<1> QED
  BY <1>2, <1>7, <1>9, <1>10 DEF Register!Delete


\* A child ends without having a whole request: nothing is lost.
LEMMA EndStep ==
  ASSUME TypeInv, Alone, Alone', NEW c \in Clients,
         EmptyField(c) \/ Disconnected(c) \/ HangUp(c)
  PROVE  Register!End(c)
<1>0. /\ pc \in [Clients -> ChildPCs] /\ vec \in [Clients -> Lists] /\ c2s[c] \in Seq(Frames)
      /\ c2s \in [Clients -> Seq(Frames)] /\ ADD \in Frames /\ DELETE \in Frames
  BY DEF TypeInv, TypeOK, Frames
<1>1. Exit(c) /\ s2c' = s2c /\ pc[c] \in {"command", "fields", "number"}
  BY DEF EmptyField, Disconnected, HangUp
<1>2. /\ file' = file /\ c2s'[c] = <<>> /\ pc'[c] \in Ended /\ vec' = vec
      /\ \A d \in Clients \ {c} : pc'[d] = pc[d] /\ c2s'[d] = c2s[d]
  BY <1>0, <1>1 DEF Exit, Ended
<1>3. Current' = Current
  BY <1>1, <1>2, CurrentCalm DEF Writing, Ended
<1>4. Requests' = [Requests EXCEPT ![c] = <<>>]
  <2>1. Requests'[c] = <<>>
    BY <1>2, RequestsNext DEF Ended
  <2> QED
    BY <1>2, <2>1, RequestsElsewhere
<1>5. ~Register!Whole(c)
  <2>1. CASE EmptyField(c)
    <3>1. pc[c] = "fields" /\ c2s[c] # <<>> /\ Head(c2s[c]) = Empty
      BY <2>1 DEF EmptyField
    <3>2. Requests[c] = <<ADD>> \o c2s[c]
      BY <3>1, RequestsNow
    <3>3. Requests[c][1] = ADD /\ Requests[c][2] = Empty
      BY <1>0, <3>1, <3>2, TakeTwo
    <3> QED
      BY <3>3, RegisterAssumption DEF Register!Whole, ADD, VIEW, DELETE
  <2>2. CASE Disconnected(c)
    <3>1. pc[c] = "command" /\ c2s[c] # <<>> /\ Head(c2s[c]) = DISCONNECT
      BY <2>2 DEF Disconnected
    <3>2. Requests[c][1] = DISCONNECT
      BY <1>0, <3>1, RequestsNow, TailElements
    <3> QED
      BY <3>2 DEF Register!Whole, ADD, VIEW, DELETE, DISCONNECT
  <2>3. CASE HangUp(c)
    <3>1. c2s[c] = <<>>
      BY <2>3 DEF HangUp
    <3>2. Requests[c] \in {<<>>, <<ADD>>, <<DELETE>>}
      <4>1. <<ADD>> \o <<>> = <<ADD>> /\ <<DELETE>> \o <<>> = <<DELETE>>
        OBVIOUS
      <4> QED
        BY <1>1, <3>1, <4>1, RequestsNow
    <3>3. Len(<<>>) = 0 /\ \A x : Len(<<x>>) = 1
      OBVIOUS
    <3>4. ~ (Len(Requests[c]) > 1)
      <4>1. Len(Requests[c]) = 0 \/ Len(Requests[c]) = 1
        BY <3>2, <3>3, Zenon
      <4>2. ~ (0 > 1) /\ ~ (1 > 1)
        OBVIOUS
      <4> QED
        BY <4>1, <4>2, Zenon
    <3>5. Requests[c] # <<>> => Requests[c][1] # VIEW
      BY <3>2 DEF ADD, DELETE, VIEW
    <3> QED
      BY <3>4, <3>5 DEF Register!Whole
  <2> QED
    BY <2>1, <2>2, <2>3
<1> QED
  BY <1>1, <1>3, <1>4, <1>5 DEF Register!End

\* The window that asked for the view has gone, and the view was all it asked for.
LEMMA ViewFailsStep ==
  ASSUME TypeInv, Alone, Alone', NEW c \in Clients, ViewFails(c)
  PROVE  Register!View(c)
<1>0. /\ pc \in [Clients -> ChildPCs] /\ vec \in [Clients -> Lists] /\ c2s[c] \in Seq(Frames)
      /\ c2s \in [Clients -> Seq(Frames)]
  BY DEF TypeInv, TypeOK
<1>1. /\ Exit(c) /\ s2c' = s2c /\ pc[c] = "command" /\ c2s[c] # <<>> /\ Head(c2s[c]) = VIEW
  BY DEF ViewFails
<1>2. /\ file' = file /\ c2s'[c] = <<>> /\ pc'[c] \in Ended /\ vec' = vec
      /\ \A d \in Clients \ {c} : pc'[d] = pc[d] /\ c2s'[d] = c2s[d]
  BY <1>0, <1>1 DEF Exit, Ended
<1>3. Current' = Current
  BY <1>1, <1>2, CurrentCalm DEF Writing, Ended
<1>4. Tail(c2s[c]) = <<>>
  BY <1>1, ViewIsLast
<1>5. Requests[c] = c2s[c] /\ Requests' = [Requests EXCEPT ![c] = <<>>]
  <2>1. Requests'[c] = <<>> /\ Requests[c] = c2s[c]
    BY <1>1, <1>2, RequestsNow, RequestsNext DEF Ended
  <2> QED
    BY <1>2, <2>1, RequestsElsewhere
<1>6. Register!Take(c, 1)
  <2>1. Len(c2s[c]) >= 1 /\ SubSeq(c2s[c], 1 + 1, Len(c2s[c])) = <<>>
    BY <1>0, <1>1, <1>4, TakeOne
  <2> QED
    BY <1>5, <2>1 DEF Register!Take
<1> QED
  BY <1>1, <1>3, <1>5, <1>6 DEF Register!View

\* A window sends frames.
LEMMA SendStep ==
  ASSUME TypeInv, Alone, Alone', NEW c \in Clients, NEW frames \in Seq(Frames), Put(c, frames),
         UNCHANGED <<file, pc, vec, s2c>>
  PROVE  Register!Request(c)
<1>0. c2s \in [Clients -> Seq(Frames)] /\ c2s[c] \in Seq(Frames) /\ ADD \in Frames /\ DELETE \in Frames
  BY DEF TypeInv, Frames
<1>1. /\ \A d \in Clients \ {c} : pc'[d] = pc[d] /\ c2s'[d] = c2s[d]
      /\ c2s'[c] = c2s[c] \o frames \/ c2s'[c] = c2s[c]
  BY <1>0 DEF Put
<1>2. Current' = Current
  BY CurrentSame
<1>3. Register!IsPrefix(Requests[c], Requests'[c])
  <2>1. \A q \in Seq(Frames) : Register!IsPrefix(q, q) /\ Register!IsPrefix(q, q \o frames)
    BY DEF Register!IsPrefix
  <2>2. \A x \in Frames : /\ <<x>> \o c2s[c] \in Seq(Frames)
                          /\ <<x>> \o (c2s[c] \o frames) = (<<x>> \o c2s[c]) \o frames
    BY <1>0
  <2>3. CASE pc[c] = "fields"
    <3>1. Requests[c] = <<ADD>> \o c2s[c] /\ Requests'[c] = <<ADD>> \o c2s'[c]
      BY <2>3, RequestsNow, RequestsNext
    <3> QED
      BY <1>0, <1>1, <2>1, <2>2, <3>1
  <2>4. CASE pc[c] = "number"
    <3>1. Requests[c] = <<DELETE>> \o c2s[c] /\ Requests'[c] = <<DELETE>> \o c2s'[c]
      BY <2>4, RequestsNow, RequestsNext
    <3> QED
      BY <1>0, <1>1, <2>1, <2>2, <3>1
  <2>5. CASE pc[c] \notin {"fields", "number"}
    <3>1. Requests[c] = c2s[c] /\ Requests'[c] = c2s'[c]
      BY <2>5, RequestsNow, RequestsNext
    <3> QED
      BY <1>0, <1>1, <2>1, <3>1
  <2> QED
    BY <2>3, <2>4, <2>5
<1>4. \A d \in Clients \ {c} : Requests'[d] = Requests[d]
  BY <1>1, RequestsElsewhere
<1> QED
  BY <1>2, <1>3, <1>4 DEF Register!Request

\* A window reads a reply, or all replies it has not read are lost.
LEMMA ReadStep ==
  ASSUME TypeInv, Alone, Alone', disturbed' = disturbed, NEW c \in Clients, UNCHANGED <<file, pc, vec, c2s>>,
         \/ s2c[c] # <<>> /\ s2c' = [s2c EXCEPT ![c] = Tail(s2c[c])]
         \/ s2c' = [s2c EXCEPT ![c] = <<>>]
  PROVE  Register!Read(c) \/ UNCHANGED Register!registerVars
<1>0. s2c \in [Clients -> Seq(Lists)]
  BY DEF TypeInv, TypeOK
<1>1. Current' = Current
  BY CurrentSame
<1>2. Requests' = Requests
  BY DEF Requests
<1>3. CASE s2c[c] # <<>>
  BY <1>1, <1>2, <1>3 DEF Register!Read
<1>4. CASE s2c[c] = <<>>
  <2>1. s2c' = s2c
    BY <1>0, <1>4
  <2> QED
    BY <1>1, <1>2, <2>1 DEF Register!registerVars
<1> QED
  BY <1>3, <1>4

\* A window sends, reads or hangs up.
LEMMA WindowRequests ==
  ASSUME TypeInv, Alone, Alone', NEW c \in Clients, WindowStep(c)
  PROVE  \/ Register!Request(c) \/ Register!Read(c)
         \/ UNCHANGED Register!registerVars
<1>0. /\ pc \in [Clients -> ChildPCs] /\ s2c \in [Clients -> Seq(Lists)]
      /\ gui[c] = "ready" => s2c[c] = <<>>
  BY DEF TypeInv, TypeOK, OfClient, Replies
<1>1. /\ <<VIEW>> \in Seq(Frames) /\ <<DISCONNECT>> \in Seq(Frames)
      /\ <<ADD>> \in Seq(Frames) /\ <<DELETE>> \in Seq(Frames)
      /\ \A row \in Rows \cup {Empty} :
           <<ADD, row>> \in Seq(Frames) /\ <<ADD, row, DISCONNECT>> \in Seq(Frames)
      /\ \A number \in 1 .. MaxNumber : <<DELETE, number>> \in Seq(Frames)
  BY DEF Frames
<1>2. ASSUME CloseSocket(c)
      PROVE  /\ UNCHANGED <<file, pc, vec, disturbed>> /\ s2c' = [s2c EXCEPT ![c] = <<>>]
             /\ gui[c] = "ready" => s2c' = s2c
  BY <1>0, <1>2 DEF CloseSocket
<1>3. CASE Connect(c)
  <2>1. /\ UNCHANGED <<file, vec, c2s, s2c, disturbed>> /\ pc[c] = "none" /\ pc'[c] = "backlog"
        /\ \A d \in Clients \ {c} : pc'[d] = pc[d]
    BY <1>0, <1>3 DEF Connect, Goto
  <2>2. Requests'[c] = Requests[c]
    BY <2>1, RequestsNow, RequestsNext
  <2> QED
    BY <2>1, <2>2, RegisterStutter DEF Writing
<1>4. CASE ViewStudents(c)
  BY <1>1, <1>4, SendStep DEF ViewStudents
<1>5. CASE AddEmpty(c)
  BY <1>1, <1>5, SendStep DEF AddEmpty
<1>6. CASE \E row \in Rows \ added : AddStudents(c, row)
  BY <1>1, <1>6, SendStep DEF AddStudents
<1>7. CASE \E number \in 1 .. MaxNumber : DeleteStudents(c, number)
  BY <1>1, <1>7, SendStep DEF DeleteStudents
<1>8. CASE ReceiveReply(c)
  BY <1>8, ReadStep DEF ReceiveReply
<1>9. CASE DisconnectFromServer(c)
  BY <1>1, <1>2, <1>9, SendStep DEF DisconnectFromServer
<1>10. CASE ReceiveFails(c) \/ SigPipe(c)
  BY <1>2, <1>10, ReadStep DEF ReceiveFails, SigPipe
<1>11. CASE KillWindow(c)
  BY <1>1, <1>2, <1>11, SendStep, ReadStep DEF KillWindow
<1> QED
  BY <1>3, <1>4, <1>5, <1>6, <1>7, <1>8, <1>9, <1>10, <1>11 DEF WindowStep

\* Every step of an undisturbed register is a step of the abstract one.
LEMMA RegisterStep ==
  ASSUME TypeInv, TypeOK', Alone, Alone', ~disturbed, ~disturbed', [Next]_vars
  PROVE  [Register!RegisterNext]_(Register!registerVars)
<1> USE DEF Goto, parentVars, signalVars, guiVars
<1>0. pc \in [Clients -> ChildPCs] /\ vec \in [Clients -> Lists] /\ c2s \in [Clients -> Seq(Frames)]
  BY DEF TypeInv, TypeOK
<1>1. CASE UNCHANGED vars
  BY <1>1 DEF vars, Register!registerVars, Current, Requests
<1>2. CASE CloseInParent \/ SigChld \/ ReaperReturns \/ \E c \in Clients : Accept(c)
  <2>1. UNCHANGED <<file, pc, vec, c2s, s2c, disturbed>>
    BY <1>2 DEF CloseInParent, SigChld, ReaperReturns, Accept
  <2> QED
    BY <2>1 DEF Register!registerVars, Current, Requests
<1>3. ~AcceptFails /\ \A c \in Clients : ~ChildDies(c)
  BY DEF AcceptFails, ChildDies, Disturb
<1>4. ASSUME NEW c \in Clients, Fork(c) \/ ForkFails(c) \/ Reap(c)
      PROVE  UNCHANGED Register!registerVars
  <2>1. /\ pc[c] \in {"backlog", "zombie"} /\ pc'[c] \in {"command", "orphan", "none"}
        /\ UNCHANGED <<file, c2s, s2c, disturbed>>
        /\ \A d \in Clients \ {c} : pc'[d] = pc[d] /\ vec'[d] = vec[d]
    BY <1>0, <1>4 DEF Fork, ForkFails, Reap
  <2>2. Requests'[c] = Requests[c]
    BY <2>1, RequestsNow, RequestsNext
  <2> QED
    BY <2>1, <2>2, RegisterStutter DEF Writing
<1>5. ASSUME NEW c \in Clients, RecvAdd(c) \/ RecvDelete(c)
      PROVE  UNCHANGED Register!registerVars
  <2>1. PICK command \in {ADD, DELETE} :
          /\ Received(c, command) /\ pc[c] = "command"
          /\ pc'[c] = IF command = ADD THEN "fields" ELSE "number"
          /\ UNCHANGED <<file, s2c>> /\ disturbed' = disturbed
          /\ \A d \in Clients \ {c} : pc'[d] = pc[d] /\ vec'[d] = vec[d]
    <3>1. CASE RecvAdd(c)
      BY <1>0, <3>1 DEF RecvAdd
    <3>2. CASE RecvDelete(c)
      <4>1. disturbed' \in BOOLEAN /\ disturbed \in BOOLEAN
        BY <3>2 DEF TypeInv, TypeOK, RecvDelete, Disturb
      <4> QED
        BY <1>0, <3>2, <4>1 DEF RecvDelete, ADD, DELETE
    <3> QED
      BY <1>5, <3>1, <3>2
  <2>2. /\ \A d \in Clients \ {c} : c2s'[d] = c2s[d]
        /\ c2s[c] # <<>> /\ command = Head(c2s[c]) /\ c2s'[c] = Tail(c2s[c])
    BY <2>1, QueueTail
  <2>3. <<command>> \o c2s'[c] = c2s[c]
    BY <1>0, <2>2, TakeOne
  <2>4. Requests'[c] = Requests[c]
    BY <2>1, <2>3, RequestsNow, RequestsNext DEF ADD, DELETE
  <2> QED
    BY <2>1, <2>2, <2>4, RegisterStutter DEF Writing
<1>6. ASSUME NEW c \in Clients, OpenFile(c) \/ FlushFile(c)
      PROVE  UNCHANGED Register!registerVars
  <2>1. /\ UNCHANGED <<vec, c2s, s2c, disturbed>> /\ pc[c] \in Writing
        /\ \A d \in Clients \ {c} : pc'[d] = pc[d]
        /\ pc'[c] \notin {"fields", "number"} /\ pc[c] \notin {"fields", "number"}
        /\ \/ pc'[c] = "flush"
           \/ pc[c] = "flush" /\ pc'[c] = "command"
    BY <1>0, <1>6 DEF OpenFile, FlushFile, Disturb, Writing
  <2>2. Requests' = Requests
    <3>1. Requests'[c] = Requests[c]
      BY <2>1, RequestsNow, RequestsNext
    <3> QED
      BY <2>1, <3>1, RequestsElsewhere, RequestsNow, RequestsNext
  <2>3. Current = vec[c]
    BY <2>1, CurrentRows
  <2>4. CASE pc'[c] = "flush"
    <3>1. (CHOOSE d \in Clients : pc'[d] \in Writing) = c
      BY <2>4 DEF Alone, Writing
    <3>2. Current' = vec'[c]
      BY <2>4, <3>1 DEF Current, Writing
    <3> QED
      BY <2>1, <2>2, <2>3, <3>2 DEF Register!registerVars
  <2>5. CASE pc[c] = "flush" /\ pc'[c] = "command"
    <3>1. \A d \in Clients : pc'[d] \notin Writing
      BY <2>1, <2>5 DEF Alone, Writing
    <3>2. Current' = file'
      BY <3>1 DEF Current
    <3>3. file = <<>> /\ file' = vec[c] \o SubSeq(file, Len(vec[c]) + 1, Len(file))
      BY <1>6, <2>5 DEF Alone, FlushFile, OpenFile
    <3>4. \A rows \in Lists : rows \o SubSeq(<<>>, Len(rows) + 1, Len(<<>>)) = rows
      BY DEF Lists
    <3>5. file' = vec[c]
      BY <1>0, <3>3, <3>4
    <3> QED
      BY <2>1, <2>2, <2>3, <3>2, <3>5 DEF Register!registerVars
  <2> QED
    BY <2>1, <2>4, <2>5
<1>7. disturbed' = disturbed
  <2>1. disturbed \in BOOLEAN /\ disturbed' \in BOOLEAN
    BY DEF TypeInv, TypeOK
  <2> QED
    BY <2>1
<1>8. ASSUME NEW c \in Clients, ChildStep(c) \/ WindowStep(c)
      PROVE  [Register!RegisterNext]_(Register!registerVars)
  <2>1. CASE View(c)
    BY <1>7, <2>1, ViewStep DEF Register!RegisterNext
  <2>2. CASE ViewFails(c)
    BY <1>7, <2>2, ViewFailsStep DEF Register!RegisterNext
  <2>3. CASE AddStudent(c)
    BY <1>7, <2>3, AddStep DEF Register!RegisterNext
  <2>4. CASE DeleteStudent(c)
    BY <1>7, <2>4, DeleteStep DEF Register!RegisterNext
  <2>5. CASE EmptyField(c) \/ Disconnected(c) \/ HangUp(c)
    BY <1>7, <2>5, EndStep DEF Register!RegisterNext
  <2>6. CASE WindowStep(c)
    BY <1>7, <2>6, WindowRequests DEF Register!RegisterNext
  <2> QED
    BY <1>5, <1>6, <1>8, <2>1, <2>2, <2>3, <2>4, <2>5, <2>6 DEF ChildStep
<1> QED
  BY <1>1, <1>2, <1>3, <1>4, <1>8 DEF Next, ParentStep, ReaperStep

LEMMA DisturbedStays ==
  ASSUME TypeInv, [Next]_vars, disturbed
  PROVE  disturbed'
<1> USE DEF Disturb, guiVars
<1>1. CASE ParentStep \/ ReaperStep \/ AcceptFails \/ \E c \in Clients : Accept(c)
  BY <1>1 DEF ParentStep, ReaperStep, CloseInParent, Fork, ForkFails, SigChld, ReaperReturns, Reap,
     AcceptFails, Accept
<1>2. ASSUME NEW c \in Clients, ChildStep(c) \/ ChildDies(c)
      PROVE  disturbed'
  BY <1>2 DEF ChildStep, ChildDies, View, ViewFails, RecvAdd, AddStudent, EmptyField, RecvDelete,
     DeleteStudent, Disconnected, HangUp, OpenFile, FlushFile
<1>3. ASSUME NEW c \in Clients, WindowStep(c)
      PROVE  disturbed'
  BY <1>3 DEF WindowStep, Connect, ViewStudents, AddEmpty, AddStudents, DeleteStudents, ReceiveReply,
     ReceiveFails, DisconnectFromServer, SigPipe, KillWindow, CloseSocket
<1> QED
  BY <1>1, <1>2, <1>3 DEF Next, vars

LEMMA RegisterStart == Init => Register!RegisterInit
<1> SUFFICES ASSUME Init PROVE Register!RegisterInit
  OBVIOUS
<1>1. Current = Info /\ Current \in Seq(Rows \cup ToSet(Info))
  BY RowsTyped DEF Init, Current, Writing, Lists
<1>2. Requests = [c \in Clients |-> <<>>]
  BY DEF Init, Requests
<1> QED
  BY <1>1, <1>2 DEF Init, Register!RegisterInit

\* Until two children use the file at once, a file does not open or a process of
\* the server dies, the children of all windows implement one register: the requests
\* of every window take effect whole, in order, each on the latest rows.
THEOREM Implements == Spec => Atomic
<1>1. TypeInv /\ TypeInv' /\ AloneInv /\ AloneInv' /\ [Next]_vars
        => [Register!RegisterNext]_(Register!registerVars)
  <2> SUFFICES ASSUME TypeInv, TypeInv', AloneInv, AloneInv', [Next]_vars
               PROVE  [Register!RegisterNext]_(Register!registerVars)
    OBVIOUS
  <2>1. CASE disturbed'
    BY <2>1 DEF Register!RegisterNext
  <2>2. CASE ~disturbed'
    <3>1. ~disturbed
      BY <2>2, DisturbedStays
    <3>2. TypeOK'
      BY DEF TypeInv
    <3> QED
      BY <2>2, <3>1, <3>2, RegisterStep DEF AloneInv
  <2> QED
    BY <2>1, <2>2
<1>2. Spec => Register!RegisterSpec
  BY <1>1, Typed, AloneAlways, RegisterStart, PTL DEF Spec, Register!RegisterSpec
<1> QED
  BY <1>2 DEF Atomic
=============================================================================
