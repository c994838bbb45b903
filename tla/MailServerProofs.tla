-------------------------- MODULE MailServerProofs --------------------------
(***************************************************************************)
(* Proofs about MailServer, for any number of connections, any sizes, any  *)
(* lengths users enter, and all faults.                                    *)
(***************************************************************************)
EXTENDS MailServer, BytesProofs, SequenceTheorems, TLAPS

\* What the proofs need of the types: connections are accepted in the order in
\* which they are made, and the variables of a connection belong to one of them.
Numbered ==
  /\ connected \in 0 .. MaxConns
  /\ accepted \in 0 .. connected
  /\ cli = [k \in Conns |-> cli[k]]
  /\ size = [k \in Conns |-> size[k]]
  /\ s2c = [k \in Conns |-> s2c[k]]

LEMMA InitNumbered == Init => Numbered
  BY MailAssumption DEF Init, Numbered, Conns

\* The steps of the server's threads leave the clients alone.
LEMMA ThreadStepFrame ==
  ASSUME NEW k \in Conns, ThreadStep(k)
  PROVE  /\ UNCHANGED <<mainVars, clientVars>>
         /\ \/ UNCHANGED s2c
            \/ serv(k) # 0 /\ s2c' = [s2c EXCEPT ![serv(k)] = @ \o Reply(k)]
<1>1. CASE Call(k)
  BY <1>1 DEF Call
<1>2. CASE Receive(k)
  BY <1>2 DEF Receive
<1>3. CASE ReceiveNothing(k)
  BY <1>3 DEF ReceiveNothing
<1>4. CASE ReceiveFails(k)
  BY <1>4 DEF ReceiveFails
<1>5. CASE Send(k)
  BY <1>5 DEF Send
<1>6. CASE SendFails(k)
  BY <1>6 DEF SendFails
<1> QED
  BY <1>1, <1>2, <1>3, <1>4, <1>5, <1>6 DEF ThreadStep

\* A click or a step of client k is its own affair; it takes what it waits for,
\* or finds that the server has ended.
LEMMA ClientStepFrame ==
  ASSUME Numbered, NEW k \in Conns, ClientStep(k)
  PROVE  /\ UNCHANGED <<mainVars, connected>>
         /\ \/ Len(s2c[k]) >= ClientNeed(k)
            \/ main = "ended"
         /\ cli' = [cli EXCEPT ![k] = cli'[k]]
         /\ size' = [size EXCEPT ![k] = size'[k]]
         /\ s2c' = [s2c EXCEPT ![k] = s2c'[k]]
<1> USE DEF Numbered, Take, Ask, AskFor
<1>1. CASE GotToken(k)
  BY <1>1 DEF GotToken
<1>2. CASE GotAnswer(k)
  BY <1>2 DEF GotAnswer
<1>3. CASE GotCount(k)
  BY <1>3 DEF GotCount
<1>4. CASE GotSize(k)
  BY <1>4 DEF GotSize
<1>5. CASE GotText(k)
  BY <1>5 DEF GotText
<1>6. CASE GotNothing(k)
  BY <1>6 DEF GotNothing
<1> QED
  BY <1>1, <1>2, <1>3, <1>4, <1>5, <1>6 DEF ClientStep

\* A user connects, or gives a command.
LEMMA UserFrame ==
  ASSUME Numbered,
         NEW k \in Conns, NEW credential, NEW command,
         SignIn(credential) \/ Click(k, command)
  PROVE  /\ UNCHANGED <<mainVars, s2c, size>>
         /\ \/ /\ connected' = connected + 1 /\ connected < MaxConns
               /\ cli' = [cli EXCEPT ![connected + 1] = cli'[connected + 1]]
            \/ /\ connected' = connected /\ cli[k] \notin Waiting
               /\ cli' = [cli EXCEPT ![k] = cli'[k]]
<1>1. CASE SignIn(credential)
  <2>1. /\ connected < MaxConns /\ connected' = connected + 1
        /\ UNCHANGED <<mainVars, s2c, size>>
    BY <1>1 DEF SignIn
  <2>2. connected + 1 \in Conns
    BY <2>1, MailAssumption DEF Numbered, Conns
  <2>3. \E for : cli' = [cli EXCEPT ![connected + 1] = for]
    BY <1>1 DEF SignIn, Ask
  <2>4. cli' = [cli EXCEPT ![connected + 1] = cli'[connected + 1]]
    BY <2>2, <2>3 DEF Numbered
  <2> QED
    BY <2>1, <2>4
<1>2. CASE Click(k, command)
  BY <1>2 DEF Click, Waiting, Ask, AskFor, Numbered
<1> QED
  BY <1>1, <1>2

LEMMA KillFrame ==
  ASSUME Numbered, NEW k \in Conns, Kill(k)
  PROVE  /\ UNCHANGED <<mainVars, connected>>
         /\ cli' = [cli EXCEPT ![k] = "gone"]
         /\ size' = [size EXCEPT ![k] = 0]
         /\ s2c' = [s2c EXCEPT ![k] = <<>>]
  BY DEF Kill

\* The steps of the main thread: accept, and what ends the process.
LEMMA MainFrame ==
  ASSUME Accept \/ AcceptFails \/ Join \/ (\E k \in Conns : MemoryFails(k))
  PROVE  /\ UNCHANGED <<connected, cli, size, s2c>>
         /\ \/ accepted < connected /\ accepted' = accepted + 1
            \/ accepted' = accepted
  BY DEF Accept, AcceptFails, Join, MemoryFails, EndProcess, clientVars

LEMMA NextNumbered == Numbered /\ [Next]_vars => Numbered'
<1> SUFFICES ASSUME Numbered, [Next]_vars
             PROVE  Numbered'
  OBVIOUS
<1> USE MailAssumption DEF Numbered, mainVars
<1>1. CASE Accept \/ AcceptFails \/ Join \/ \E k \in Conns : MemoryFails(k)
  BY <1>1, MainFrame
<1>2. ASSUME NEW credential \in Credentials, SignIn(credential)
      PROVE  Numbered'
  <2>1. connected + 1 \in Conns /\ connected' = connected + 1
    BY <1>2 DEF SignIn, Conns
  <2> QED
    BY <1>2, <2>1, UserFrame
<1>3. ASSUME NEW k \in Conns, ThreadStep(k)
      PROVE  Numbered'
  BY <1>3, ThreadStepFrame DEF clientVars
<1>4. ASSUME NEW k \in Conns, ClientStep(k)
      PROVE  Numbered'
  BY <1>4, ClientStepFrame
<1>5. ASSUME NEW k \in Conns, Kill(k)
      PROVE  Numbered'
  BY <1>5, KillFrame
<1>6. ASSUME NEW k \in Conns, NEW command, Click(k, command)
      PROVE  Numbered'
  BY <1>6, UserFrame
<1>7. CASE UNCHANGED vars
  BY <1>7 DEF vars, clientVars
<1> QED
  BY <1>1, <1>2, <1>3, <1>4, <1>5, <1>6, <1>7 DEF Next

-----------------------------------------------------------------------------
\* What keeps a connection starved.
LEMMA StillStarved ==
  ASSUME NEW k, Starved(k), accepted \in Nat, accepted' \in Nat, k \in Nat,
         accepted' >= accepted,
         cli'[k] = cli[k], size'[k] = size[k], s2c'[k] = s2c[k]
  PROVE  Starved(k)'
  BY DEF Starved, ClientNeed

\* No step ends it: a thread answers the connection accepted last, which is
\* another, and the client itself has nothing to read.
LEMMA StarvedStep ==
  ASSUME Numbered, NEW k \in Conns, Starved(k), [Next]_vars, main' # "ended"
  PROVE  Starved(k)' \/ cli'[k] = "gone"
<1>0. /\ k \in Nat /\ accepted \in Nat /\ connected \in Nat
      /\ k < accepted /\ accepted <= connected
      /\ cli[k] \in Waiting /\ ~(Len(s2c[k]) >= ClientNeed(k))
  <2>1. /\ k < accepted /\ cli[k] \in Waiting /\ ~(Len(s2c[k]) >= ClientNeed(k))
    BY DEF Starved
  <2> QED
    BY <2>1, MailAssumption DEF Numbered, Conns
<1> USE DEF mainVars
<1>1. CASE Accept \/ AcceptFails \/ Join \/ \E j \in Conns : MemoryFails(j)
  BY <1>0, <1>1, MainFrame, StillStarved
<1>2. ASSUME NEW credential \in Credentials, SignIn(credential)
      PROVE  Starved(k)'
  <2>1. connected' = connected + 1 /\ k # connected + 1
    BY <1>0, <1>2 DEF SignIn
  <2>2. cli'[k] = cli[k]
    BY <1>0, <1>2, <2>1, UserFrame DEF Numbered
  <2> QED
    BY <1>0, <1>2, <2>2, UserFrame, StillStarved
<1>3. ASSUME NEW j \in Conns, ThreadStep(j)
      PROVE  Starved(k)'
  <2>1. s2c'[k] = s2c[k]
    BY <1>0, <1>3, ThreadStepFrame DEF Numbered, serv
  <2> QED
    BY <1>0, <1>3, <2>1, ThreadStepFrame, StillStarved DEF clientVars
<1>4. ASSUME NEW j \in Conns, ClientStep(j)
      PROVE  Starved(k)'
  <2>1. j # k
    BY <1>0, <1>4, ClientStepFrame
  <2>2. UNCHANGED <<main, accepted>> /\ cli'[k] = cli[k] /\ size'[k] = size[k] /\ s2c'[k] = s2c[k]
    BY <1>4, <2>1, ClientStepFrame DEF Numbered
  <2> QED
    BY <1>0, <2>2, StillStarved
<1>5. ASSUME NEW j \in Conns, Kill(j)
      PROVE  Starved(k)' \/ cli'[k] = "gone"
  <2>1. CASE j = k
    <3>1. cli' = [cli EXCEPT ![k] = "gone"]
      BY <1>5, <2>1 DEF Kill
    <3> QED
      BY <3>1 DEF Numbered
  <2>2. CASE j # k
    <3>1. /\ UNCHANGED <<main, accepted>>
          /\ cli' = [cli EXCEPT ![j] = "gone"]
          /\ size' = [size EXCEPT ![j] = 0]
          /\ s2c' = [s2c EXCEPT ![j] = <<>>]
      BY <1>5 DEF Kill
    <3>2. cli'[k] = cli[k] /\ size'[k] = size[k] /\ s2c'[k] = s2c[k]
      BY <2>2, <3>1 DEF Numbered
    <3> QED
      BY <1>0, <3>1, <3>2, StillStarved
  <2> QED
    BY <2>1, <2>2
<1>6. ASSUME NEW j \in Conns, NEW command, Click(j, command)
      PROVE  Starved(k)'
  <2>1. cli[j] = "menu"
    BY <1>6 DEF Click
  <2>2. j # k
    BY <1>0, <2>1 DEF Waiting
  <2>3. UNCHANGED <<accepted, s2c, size>> /\ \E for : cli' = [cli EXCEPT ![j] = for]
    BY <1>6 DEF Click, Ask, AskFor
  <2>4. cli'[k] = cli[k]
    BY <2>2, <2>3 DEF Numbered
  <2> QED
    BY <1>0, <2>3, <2>4, StillStarved
<1>7. CASE UNCHANGED vars
  BY <1>0, <1>7, StillStarved DEF vars, clientVars
<1> QED
  BY <1>1, <1>2, <1>3, <1>4, <1>5, <1>6, <1>7 DEF Next

\* A client that has not its answer when the next connection is accepted waits
\* until it, or the server, is ended.
THEOREM StarvedForEver == Spec => StaysStarved
<1>1. Init => Numbered
  BY InitNumbered
<1>2. Numbered /\ [Next]_vars => Numbered'
  BY NextNumbered
<1>3. Numbered /\ [Next]_vars =>
        [\A k \in Conns : Starved(k) /\ main' # "ended" => Starved(k)' \/ cli'[k] = "gone"]_vars
  BY StarvedStep
<1> QED
  BY <1>1, <1>2, <1>3, PTL DEF Spec, StaysStarved

-----------------------------------------------------------------------------
(* Parts of a sequence.                                                    *)

Part(G, a, b) == SubSeq(G, a + 1, b)

\* A part has the bytes from a + 1 to b.
LEMMA PartIs ==
  ASSUME NEW S, NEW G \in Seq(S), NEW a \in Nat, NEW b \in Nat, a <= b, b <= Len(G)
  PROVE  /\ Part(G, a, b) \in Seq(S) /\ Len(Part(G, a, b)) = b - a
         /\ \A i \in 1 .. b - a : Part(G, a, b)[i] = G[a + i]
  BY DEF Part

\* Sequences of the same elements are the same.
LEMMA SameSequence ==
  ASSUME NEW S, NEW s \in Seq(S), NEW t \in Seq(S), Len(s) = Len(t),
         \A i \in 1 .. Len(s) : s[i] = t[i]
  PROVE  s = t
  OBVIOUS

\* What a concatenation is made of.
LEMMA Concatenated ==
  ASSUME NEW S, NEW s \in Seq(S), NEW t \in Seq(S)
  PROVE  /\ s \o t \in Seq(S) /\ Len(s \o t) = Len(s) + Len(t)
         /\ \A i \in 1 .. Len(s) + Len(t) : (s \o t)[i] = IF i <= Len(s) THEN s[i] ELSE t[i - Len(s)]
  OBVIOUS

\* What follows a part is appended to it.
LEMMA PartExtended ==
  ASSUME NEW S, NEW G \in Seq(S), NEW a \in Nat, NEW b \in Nat, NEW s \in Seq(S),
         a <= b, b + Len(s) <= Len(G), \A i \in 1 .. Len(s) : s[i] = G[b + i]
  PROVE  Part(G, a, b) \o s = Part(G, a, b + Len(s))
<1> DEFINE front == Part(G, a, b)
           n == Len(s)
           whole == Part(G, a, b + n)
<1>1. n \in Nat /\ Len(G) \in Nat
  OBVIOUS
<1>2. b <= Len(G) /\ b + n \in Nat /\ a <= b + n
  BY <1>1
<1>3. /\ front \in Seq(S) /\ Len(front) = b - a
      /\ \A i \in 1 .. b - a : front[i] = G[a + i]
  BY <1>2, PartIs
<1>4. /\ whole \in Seq(S) /\ Len(whole) = b + n - a
      /\ \A i \in 1 .. b + n - a : whole[i] = G[a + i]
  BY <1>2, PartIs
<1> HIDE DEF front, whole
<1>5. /\ front \o s \in Seq(S) /\ Len(front \o s) = (b - a) + n
      /\ \A i \in 1 .. (b - a) + n : (front \o s)[i] = IF i <= b - a THEN front[i] ELSE s[i - (b - a)]
  <2>1. /\ front \o s \in Seq(S) /\ Len(front \o s) = Len(front) + n
        /\ \A i \in 1 .. Len(front) + n : (front \o s)[i] = IF i <= Len(front) THEN front[i] ELSE s[i - Len(front)]
    BY <1>3, Concatenated
  <2> HIDE DEF n
  <2> QED
    BY <1>3, <2>1
<1> HIDE DEF n
<1>6. ASSUME NEW i \in 1 .. (b - a) + n PROVE (front \o s)[i] = whole[i]
  <2>1. i \in 1 .. b + n - a /\ a + i = b + (i - (b - a))
    BY <1>1
  <2>2. CASE i <= b - a
    <3>1. i \in 1 .. b - a
      BY <2>2
    <3>2. (front \o s)[i] = front[i]
      BY <1>5, <2>2
    <3> QED
      BY <1>3, <1>4, <2>1, <3>1, <3>2
  <2>3. CASE ~(i <= b - a)
    <3>1. i - (b - a) \in 1 .. n
      BY <1>1, <2>3
    <3>2. s[i - (b - a)] = G[b + (i - (b - a))]
      BY <3>1 DEF n
    <3> QED
      BY <1>4, <1>5, <2>1, <2>3, <3>2
  <2> QED
    BY <2>2, <2>3
<1>7. Len(front \o s) = Len(whole)
  BY <1>1, <1>4, <1>5
<1>8. front \o s = whole
  BY <1>4, <1>5, <1>6, <1>7, SameSequence
<1> QED
  BY <1>8 DEF front, whole, n

\* A part of a part.
LEMMA PartOfPart ==
  ASSUME NEW S, NEW G \in Seq(S), NEW a \in Nat, NEW b \in Nat, a <= b, b <= Len(G),
         NEW c \in Nat, NEW d \in Nat, c <= d, d <= b - a
  PROVE  Part(Part(G, a, b), c, d) = Part(G, a + c, a + d)
<1> DEFINE inner == Part(G, a, b)
           piece == Part(inner, c, d)
           right == Part(G, a + c, a + d)
<1>1. /\ inner \in Seq(S) /\ Len(inner) = b - a
      /\ \A i \in 1 .. b - a : inner[i] = G[a + i]
  BY PartIs
<1>2. a + c \in Nat /\ a + d \in Nat /\ a + c <= a + d /\ a + d <= Len(G) /\ Len(G) \in Nat
  OBVIOUS
<1>3. /\ right \in Seq(S) /\ Len(right) = (a + d) - (a + c)
      /\ \A i \in 1 .. (a + d) - (a + c) : right[i] = G[(a + c) + i]
  BY <1>2, PartIs, ZenonT(60)
<1> HIDE DEF inner, right
<1>4. /\ piece \in Seq(S) /\ Len(piece) = d - c
      /\ \A i \in 1 .. d - c : piece[i] = inner[c + i]
  <2>1. inner \in Seq(S) /\ d <= Len(inner)
    BY <1>1
  <2> QED
    BY <2>1, PartIs
<1> HIDE DEF piece
<1>5. ASSUME NEW i \in 1 .. d - c PROVE piece[i] = right[i]
  <2>1. c + i \in 1 .. b - a /\ i \in 1 .. (a + d) - (a + c) /\ a + (c + i) = (a + c) + i
    OBVIOUS
  <2> QED
    BY <1>1, <1>3, <1>4, <2>1
<1>6. piece = right
  <2>1. Len(piece) = Len(right)
    BY <1>3, <1>4
  <2> QED
    BY <1>3, <1>4, <1>5, <2>1, SameSequence
<1> QED
  BY <1>6 DEF piece, right, inner

-----------------------------------------------------------------------------
(* Types.                                                                  *)

ThreadTypes ==
  /\ pc \in [Conns -> ThreadPCs] /\ on \in [Conns -> 0 .. accepted]
  /\ buf \in [Conns -> Bytes] /\ cmd \in [Conns -> [1 .. IntSize -> Byte]]
  /\ lgSize \in [Conns -> Nat] /\ pwSize \in [Conns -> Nat]

ClientTypes ==
  /\ connected \in 0 .. MaxConns /\ given \in 0 .. MaxCommands
  /\ cli \in [Conns -> ClientPCs]
  /\ typed \in [Conns -> Credentials \cup {NoCredential}]
  /\ job \in [Conns -> SIGNIN .. SIGNOUT]
  /\ left \in [Conns -> Nat] /\ size \in [Conns -> Nat]
  /\ shown \in [Conns -> BOOLEAN]

NetTypes == c2s \in [Conns -> Bytes] /\ s2c \in [Conns -> Bytes]

\* Only a recvAll leaves bytes in its buffer, and only one that was called is pending.
ThreadFits(k) ==
  /\ pc[k] \in Receiving => Len(buf[k]) <= Need(k)
  /\ pc[k] \notin Receiving => buf[k] = <<>>
  /\ on[k] # 0 => pc[k] \in Receiving /\ Need(k) > 0
  /\ k > accepted => pc[k] \in {"none", "ended"}

\* A client in the loop over its messages has one to get.
ClientFits(k) ==
  /\ cli[k] \in {"size", "text"} => left[k] > 0
  /\ k > connected => cli[k] = "off" /\ c2s[k] = <<>> /\ s2c[k] = <<>>

TypeInv ==
  /\ main \in {"accept", "join", "ended"} /\ accepted \in 0 .. connected
  /\ ThreadTypes /\ NetTypes /\ ClientTypes
  /\ \A k \in Conns : ThreadFits(k) /\ ClientFits(k)

\* Connections are numbered from 1, in the order in which they are made.
LEMMA Numbers ==
  ASSUME TypeInv
  PROVE  /\ accepted \in Nat /\ connected \in Nat /\ accepted <= connected /\ connected <= MaxConns
         /\ Conns \subseteq Nat /\ MaxConns \in Nat /\ \A k \in Conns : k >= 1 /\ k <= MaxConns
  BY MailAssumption DEF TypeInv, ClientTypes, Conns

\* Every receive asks for at least one byte, except those of an empty text.
LEMMA Needs ==
  ASSUME TypeInv, NEW k \in Conns, pc[k] \in Receiving
  PROVE  /\ Need(k) \in Nat
         /\ pc[k] = "command" => Need(k) = IntSize
         /\ Need(k) = 0 => pc[k] \in {"login", "password"}
<1>1. lgSize[k] \in Nat /\ IntSize \in Nat \ {0} /\ TokenSize \in Nat \ {0}
  BY MailAssumption DEF TypeInv, ThreadTypes
<1> QED
  BY <1>1 DEF Need, Receiving

\* The types hold initially.
LEMMA TypeInit == Init => TypeInv
<1> SUFFICES ASSUME Init PROVE TypeInv
  OBVIOUS
<1>1. <<>> \in Bytes
  BY DEF Bytes
<1>2. ThreadTypes
  BY <1>1, MailAssumption DEF Init, ThreadTypes, ThreadPCs, Receiving, Sending
<1>3. ClientTypes
  BY MailAssumption DEF Init, ClientTypes, ClientPCs, SIGNIN, SIGNOUT
<1>4. NetTypes
  BY <1>1 DEF Init, NetTypes
<1>5. ASSUME NEW k \in Conns PROVE ThreadFits(k)
  BY DEF Init, ThreadFits, Receiving
<1>6. ASSUME NEW k \in Conns PROVE ClientFits(k)
  BY DEF Init, ClientFits
<1>7. main \in {"accept", "join", "ended"} /\ accepted \in 0 .. connected
  BY DEF Init
<1> QED
  BY <1>2, <1>3, <1>4, <1>5, <1>6, <1>7 DEF TypeInv

\* The ints that are sent.
LEMMA AsIntIs ==
  ASSUME NEW n \in Ints(IntSize)
  PROVE  /\ AsInt(n) \in Bytes /\ Len(AsInt(n)) = IntSize /\ Value(AsInt(n)) = n
         /\ AsInt(n) \in [1 .. IntSize -> Byte]
<1> DEFINE b == IntBytes(n, IntSize)
<1>1. b \in Bytes /\ Len(b) = IntSize /\ Value(b) = n
  BY MailAssumption, ValueIs
<1> HIDE DEF b
<1>2. b \in [1 .. IntSize -> Byte]
  BY <1>1 DEF Bytes
<1> QED
  BY <1>1, <1>2 DEF AsInt, b

\* A byte fits in an int of any size.
LEMMA CommandsFit ==
  \A n \in 0 .. 255 : n \in Ints(IntSize)
  BY MailAssumption, SmallInts

\* Thread k alone has moved.
OthersFit(k) ==
  \A j \in Conns \ {k} :
    pc'[j] = pc[j] /\ on'[j] = on[j] /\ buf'[j] = buf[j] /\ lgSize'[j] = lgSize[j]

\* A step that changes nothing of a thread keeps what it holds.
LEMMA ThreadsFit ==
  ASSUME TypeInv, NEW k \in Conns, OthersFit(k), accepted' = accepted, ThreadFits(k)'
  PROVE  \A j \in Conns : ThreadFits(j)'
<1>1. ASSUME NEW j \in Conns \ {k} PROVE ThreadFits(j)'
  <2>1. ThreadFits(j)
    BY DEF TypeInv
  <2>2. pc'[j] = pc[j] /\ on'[j] = on[j] /\ buf'[j] = buf[j] /\ lgSize'[j] = lgSize[j]
    BY DEF OthersFit
  <2> QED
    BY <2>1, <2>2 DEF ThreadFits, Need
<1> QED
  BY <1>1

\* The same for a client.
LEMMA ClientsFit ==
  ASSUME TypeInv, UNCHANGED clientVars, UNCHANGED s2c,
         \A j \in Conns : c2s'[j] = c2s[j] \/ c2s'[j] = <<>> \/ j <= connected
  PROVE  ClientTypes' /\ \A j \in Conns : ClientFits(j)'
<1>1. ClientTypes'
  BY DEF TypeInv, ClientTypes, clientVars
<1>2. ASSUME NEW j \in Conns PROVE ClientFits(j)'
  BY Numbers DEF TypeInv, ClientFits, clientVars
<1> QED
  BY <1>1, <1>2

\* What Proceed does to the variables of its thread, and that it leaves the others.
LEMMA Proceeds ==
  ASSUME TypeInv, NEW k \in Conns, pc[k] \in Receiving, NEW bytes \in Bytes,
         pc[k] = "command" => Len(bytes) = IntSize,
         Proceed(k, bytes)
  PROVE  /\ pc' \in [Conns -> ThreadPCs] /\ buf' \in [Conns -> Bytes]
         /\ cmd' \in [Conns -> [1 .. IntSize -> Byte]]
         /\ lgSize' \in [Conns -> Nat] /\ pwSize' \in [Conns -> Nat]
         /\ buf'[k] = <<>> /\ pc'[k] \in Receiving \cup Sending
         /\ \A j \in Conns \ {k} : pc'[j] = pc[j] /\ buf'[j] = buf[j] /\ lgSize'[j] = lgSize[j]
<1>1. ThreadTypes /\ Value(bytes) \in Nat /\ <<>> \in Bytes
  BY ValueBounds DEF TypeInv, Bytes
<1>2. PICK next \in Receiving \cup Sending : pc' = [pc EXCEPT ![k] = next]
  <2>1. Switch(Value(bytes)) \in Receiving
    BY DEF Switch, Receiving
  <2> QED
    BY <2>1 DEF Proceed, Receiving, Sending
<1>3. PICK lg \in Nat : lgSize' = [lgSize EXCEPT ![k] = lg]
  BY <1>1 DEF Proceed, ThreadTypes
<1>4. PICK pw \in Nat : pwSize' = [pwSize EXCEPT ![k] = pw]
  BY <1>1 DEF Proceed, ThreadTypes
<1>5. buf' = [buf EXCEPT ![k] = <<>>]
  BY DEF Proceed
<1>6. cmd' \in [Conns -> [1 .. IntSize -> Byte]]
  <2>1. CASE pc[k] = "command"
    <3>1. bytes \in [1 .. IntSize -> Byte]
      BY <2>1 DEF Bytes
    <3> QED
      BY <1>1, <2>1, <3>1 DEF Proceed, ThreadTypes
  <2>2. CASE pc[k] # "command"
    BY <1>1, <2>2 DEF Proceed, ThreadTypes
  <2> QED
    BY <2>1, <2>2
<1>7. next \in ThreadPCs
  BY DEF ThreadPCs
<1> QED
  BY <1>1, <1>2, <1>3, <1>4, <1>5, <1>6, <1>7 DEF ThreadTypes

\* What is left when a thread ends.
LEMMA Ends ==
  ASSUME TypeInv, NEW k \in Conns, End(k)
  PROVE  /\ pc' \in [Conns -> ThreadPCs] /\ buf' \in [Conns -> Bytes]
         /\ cmd' \in [Conns -> [1 .. IntSize -> Byte]]
         /\ lgSize' \in [Conns -> Nat] /\ pwSize' \in [Conns -> Nat]
         /\ buf'[k] = <<>> /\ pc'[k] = "ended"
         /\ \A j \in Conns \ {k} : pc'[j] = pc[j] /\ buf'[j] = buf[j] /\ lgSize'[j] = lgSize[j]
<1>1. ThreadTypes /\ <<>> \in Bytes
  BY DEF TypeInv, Bytes
<1>2. AsInt(0) \in [1 .. IntSize -> Byte]
  <2>1. 0 \in Ints(IntSize)
    BY CommandsFit
  <2> QED
    BY <2>1, AsIntIs
<1>3. pc' = [pc EXCEPT ![k] = "ended"] /\ buf' = [buf EXCEPT ![k] = <<>>] /\ cmd' = [cmd EXCEPT ![k] = AsInt(0)]
  BY DEF End
<1>4. lgSize' = [lgSize EXCEPT ![k] = 0] /\ pwSize' = [pwSize EXCEPT ![k] = 0]
  BY DEF End
<1> HIDE DEF AsInt
<1>5. "ended" \in ThreadPCs
  BY DEF ThreadPCs
<1> QED
  BY <1>1, <1>2, <1>3, <1>4, <1>5 DEF ThreadTypes


\* A thread that calls recv keeps the types.
LEMMA CallTypes ==
  ASSUME TypeInv, NEW k \in Conns, Call(k)
  PROVE  TypeInv'
<1>1. serv(k) \in 0 .. accepted
  BY Numbers DEF serv
<1>2. /\ on' = [on EXCEPT ![k] = serv(k)] /\ pc[k] \in Receiving /\ Need(k) > 0
      /\ UNCHANGED <<mainVars, pc, buf, cmd, lgSize, pwSize, c2s, s2c, clientVars>>
  BY DEF Call
<1> HIDE DEF serv
<1>3. ThreadTypes'
  BY <1>1, <1>2 DEF TypeInv, ThreadTypes, mainVars
<1>4. OthersFit(k) /\ accepted' = accepted
  BY <1>1, <1>2 DEF OthersFit, mainVars, TypeInv, ThreadTypes
<1>5. ThreadFits(k)'
  BY <1>2 DEF TypeInv, ThreadFits, Need, mainVars
<1>6. ClientTypes' /\ \A j \in Conns : ClientFits(j)'
  BY <1>2, ClientsFit
<1> QED
  BY <1>2, <1>3, <1>4, <1>5, <1>6, ThreadsFit DEF TypeInv, NetTypes, mainVars, clientVars

\* The bytes a recv of thread k returns, and what is left of the queue it reads.
LEMMA Pieces ==
  ASSUME TypeInv, NEW k \in Conns, on[k] # 0, NEW n \in 1 .. Len(c2s[on[k]])
  PROVE  /\ on[k] \in Conns /\ on[k] <= accepted /\ pc[k] \in Receiving
         /\ Got(k, n) \in Bytes /\ Len(Got(k, n)) = Len(buf[k]) + n
         /\ Got(k, n) = buf[k] \o Part(c2s[on[k]], 0, n)
         /\ SubSeq(c2s[on[k]], n + 1, Len(c2s[on[k]])) \in Bytes
         /\ n \in Nat /\ c2s[on[k]] \in Bytes /\ n <= Len(c2s[on[k]]) /\ buf[k] \in Bytes
<1> DEFINE q == c2s[on[k]]
<1>1. on[k] \in Conns /\ on[k] <= accepted /\ pc[k] \in Receiving
  <2>1. on[k] \in 0 .. accepted /\ pc[k] \in Receiving
    BY DEF TypeInv, ThreadTypes, ThreadFits
  <2>2. /\ accepted \in Nat /\ connected \in Nat /\ MaxConns \in Nat
        /\ accepted <= connected /\ connected <= MaxConns
    BY Numbers
  <2>3. on[k] \in Nat /\ on[k] >= 1 /\ on[k] <= accepted /\ on[k] <= MaxConns
    BY <2>1, <2>2
  <2>4. on[k] \in 1 .. MaxConns
    BY <2>2, <2>3
  <2> QED
    BY <2>1, <2>3, <2>4 DEF Conns
<1>2. q \in Bytes /\ buf[k] \in Bytes /\ Len(q) \in Nat
  BY <1>1 DEF TypeInv, ThreadTypes, NetTypes, Bytes
<1>3. n \in Nat /\ n <= Len(q)
  BY <1>2
<1>4. Got(k, n) = buf[k] \o Part(q, 0, n)
  BY DEF Got, Part
<1> HIDE DEF q
<1>5. Part(q, 0, n) \in Bytes /\ Len(Part(q, 0, n)) = n
  BY <1>2, <1>3, PartIs DEF Bytes
<1>6. SubSeq(q, n + 1, Len(q)) \in Bytes
  BY <1>2, <1>3 DEF Bytes
<1>7. Got(k, n) \in Bytes /\ Len(Got(k, n)) = Len(buf[k]) + n
  <2> DEFINE part == Part(q, 0, n)
             front == buf[k]
  <2> HIDE DEF part, front
  <2>1. front \in Seq(Byte) /\ part \in Seq(Byte) /\ Len(part) = n
    BY <1>2, <1>5 DEF Bytes, front, part
  <2>2. front \o part \in Seq(Byte) /\ Len(front \o part) = Len(front) + Len(part)
    BY <2>1, Concatenated
  <2>3. Got(k, n) = front \o part
    BY <1>4 DEF front, part
  <2>4. Got(k, n) \in Seq(Byte) /\ Len(Got(k, n)) = Len(front) + n
    BY <2>1, <2>2, <2>3
  <2> QED
    BY <2>4 DEF Bytes, front
<1> QED
  BY <1>1, <1>2, <1>3, <1>4, <1>6, <1>7 DEF q

\* A receive that returns bytes keeps the types.
LEMMA ReceiveTypes ==
  ASSUME TypeInv, NEW k \in Conns, Receive(k)
  PROVE  TypeInv'
<1>1. on[k] # 0 /\ on' = [on EXCEPT ![k] = 0] /\ UNCHANGED <<mainVars, s2c, clientVars>>
  BY DEF Receive
<1>2. PICK n \in 1 .. Len(c2s[on[k]]) :
         /\ Len(Got(k, n)) <= Need(k)
         /\ c2s' = [c2s EXCEPT ![on[k]] = SubSeq(@, n + 1, Len(@))]
         /\ IF Len(Got(k, n)) = Need(k)
              THEN Proceed(k, Got(k, n))
              ELSE buf' = [buf EXCEPT ![k] = Got(k, n)] /\ UNCHANGED <<pc, cmd, lgSize, pwSize>>
  BY DEF Receive
<1> DEFINE rest == SubSeq(c2s[on[k]], n + 1, Len(c2s[on[k]]))
           got == Got(k, n)
<1>3. on[k] \in Conns /\ on[k] <= accepted /\ pc[k] \in Receiving /\ got \in Bytes /\ rest \in Bytes
  BY <1>1, Pieces
<1>4. c2s' = [c2s EXCEPT ![on[k]] = rest]
  BY <1>2
<1> HIDE DEF rest, got
<1>5. NetTypes'
  BY <1>1, <1>3, <1>4 DEF TypeInv, NetTypes
<1>6. ClientTypes' /\ \A j \in Conns : ClientFits(j)'
  <2>1. \A j \in Conns : c2s'[j] = c2s[j] \/ j <= connected
    BY <1>3, <1>4, Numbers DEF TypeInv, NetTypes
  <2> QED
    BY <1>1, <2>1, ClientsFit
<1>8. on' \in [Conns -> 0 .. accepted']
  <2>1. accepted' = accepted /\ on \in [Conns -> 0 .. accepted] /\ 0 \in 0 .. accepted
    BY <1>1, Numbers DEF TypeInv, ThreadTypes, mainVars
  <2> QED
    BY <1>1, <2>1
<1>7. /\ ThreadTypes' /\ OthersFit(k) /\ ThreadFits(k)'
  <2>1. CASE Len(got) = Need(k)
    <3>1. Proceed(k, got) /\ (pc[k] = "command" => Len(got) = IntSize)
      BY <1>2, <1>3, <2>1, Needs DEF got
    <3>2. /\ pc' \in [Conns -> ThreadPCs] /\ buf' \in [Conns -> Bytes]
          /\ cmd' \in [Conns -> [1 .. IntSize -> Byte]]
          /\ lgSize' \in [Conns -> Nat] /\ pwSize' \in [Conns -> Nat]
          /\ buf'[k] = <<>> /\ pc'[k] \in Receiving \cup Sending
          /\ \A j \in Conns \ {k} : pc'[j] = pc[j] /\ buf'[j] = buf[j] /\ lgSize'[j] = lgSize[j]
      BY <1>3, <3>1, Proceeds
    <3>3. ThreadTypes'
      BY <1>8, <3>2 DEF ThreadTypes
    <3>4. OthersFit(k)
      BY <1>1, <3>2 DEF OthersFit, TypeInv, ThreadTypes
    <3>5. ThreadFits(k)'
      <4>1. k <= accepted
        BY <1>3, Numbers DEF TypeInv, ThreadFits, Receiving
      <4>2. on'[k] = 0 /\ accepted' = accepted
        BY <1>1 DEF TypeInv, ThreadTypes, mainVars
      <4>3. lgSize'[k] \in Nat /\ IntSize \in Nat /\ TokenSize \in Nat
        BY <3>2, MailAssumption
      <4>4. Need(k)' \in Nat
        BY <4>3 DEF Need
      <4> QED
        BY <3>2, <4>1, <4>2, <4>4, Numbers DEF ThreadFits
    <3> QED
      BY <3>3, <3>4, <3>5
  <2>2. CASE Len(got) # Need(k)
    <3>1. buf' = [buf EXCEPT ![k] = got] /\ UNCHANGED <<pc, cmd, lgSize, pwSize>> /\ Len(got) <= Need(k)
      BY <1>2, <2>2 DEF got
    <3>2. ThreadTypes'
      BY <1>3, <1>8, <3>1 DEF ThreadTypes, TypeInv
    <3>3. OthersFit(k)
      BY <1>1, <3>1 DEF OthersFit, TypeInv, ThreadTypes
    <3>4. ThreadFits(k)'
      <4>1. buf'[k] = got /\ on'[k] = 0 /\ pc'[k] = pc[k] /\ Need(k)' = Need(k) /\ accepted' = accepted
        BY <1>1, <3>1 DEF TypeInv, ThreadTypes, mainVars, Need
      <4> QED
        BY <1>3, <3>1, <4>1 DEF TypeInv, ThreadFits
    <3> QED
      BY <3>2, <3>3, <3>4
  <2> QED
    BY <2>1, <2>2
<1> QED
  BY <1>1, <1>5, <1>6, <1>7, ThreadsFit DEF TypeInv, mainVars, clientVars

\* A step of thread k keeps the types if what it changes keeps them.
LEMMA ThreadMoved ==
  ASSUME TypeInv, NEW k \in Conns, UNCHANGED <<mainVars, clientVars>>,
         ThreadTypes', NetTypes', OthersFit(k), ThreadFits(k)',
         \A j \in Conns : s2c'[j] = s2c[j] \/ j <= connected,
         \A j \in Conns : c2s'[j] = c2s[j] \/ j <= connected
  PROVE  TypeInv'
<1>1. accepted' = accepted /\ main' = main
  BY DEF mainVars
<1>2. \A j \in Conns : ThreadFits(j)'
  BY <1>1, ThreadsFit
<1>3. ClientTypes' /\ connected' = connected
  BY DEF TypeInv, ClientTypes, clientVars
<1>4. \A j \in Conns : ClientFits(j)'
  BY Numbers DEF TypeInv, ClientFits, clientVars
<1> QED
  BY <1>1, <1>2, <1>3, <1>4 DEF TypeInv

\* A step of client k, likewise.
LEMMA ClientMoved ==
  ASSUME TypeInv, NEW k \in Conns, UNCHANGED <<mainVars, threadVars>>,
         ClientTypes', NetTypes', ClientFits(k)', connected' \in {connected, connected + 1},
         \A j \in Conns \ {k} :
           cli'[j] = cli[j] /\ left'[j] = left[j] /\ c2s'[j] = c2s[j] /\ s2c'[j] = s2c[j]
  PROVE  TypeInv'
<1>1. accepted' = accepted /\ main' = main /\ accepted' \in 0 .. connected'
  BY Numbers DEF mainVars
<1>2. ThreadTypes'
  BY <1>1 DEF TypeInv, ThreadTypes, threadVars
<1>3. ASSUME NEW j \in Conns PROVE ThreadFits(j)'
  <2>1. ThreadFits(j)
    BY DEF TypeInv
  <2> QED
    BY <1>1, <2>1 DEF ThreadFits, Need, threadVars
<1>4. ASSUME NEW j \in Conns \ {k} PROVE ClientFits(j)'
  <2>1. ClientFits(j) /\ j > connected' => j > connected
    BY Numbers DEF TypeInv
  <2> QED
    BY <2>1, Numbers DEF ClientFits, TypeInv
<1> QED
  BY <1>1, <1>2, <1>3, <1>4 DEF TypeInv

\* A thread that has received, or has ended, is in no recv and has nothing in its buffer.
LEMMA FreshFits ==
  ASSUME TypeInv, NEW k \in Conns, ThreadTypes', buf'[k] = <<>>, on'[k] = 0, accepted' = accepted,
         k <= accepted \/ pc'[k] \in {"none", "ended"}
  PROVE  ThreadFits(k)'
<1>1. lgSize'[k] \in Nat /\ IntSize \in Nat /\ TokenSize \in Nat
  BY MailAssumption DEF ThreadTypes
<1>2. Need(k)' \in Nat
  BY <1>1 DEF Need
<1> QED
  BY <1>2, Numbers DEF ThreadFits

\* A thread that runs was created for a connection that was accepted.
LEMMA Runs ==
  ASSUME TypeInv, NEW k \in Conns, pc[k] \in Receiving \cup Sending
  PROVE  k <= accepted
  BY Numbers DEF TypeInv, ThreadFits, Receiving, Sending

\* A thread that ends keeps the types.
LEMMA EndTypes ==
  ASSUME TypeInv, NEW k \in Conns, End(k), on' \in [Conns -> 0 .. accepted], on'[k] = 0,
         \A j \in Conns \ {k} : on'[j] = on[j],
         UNCHANGED <<mainVars, c2s, s2c, clientVars>>
  PROVE  TypeInv'
<1>1. accepted' = accepted
  BY DEF mainVars
<1>2. /\ pc' \in [Conns -> ThreadPCs] /\ buf' \in [Conns -> Bytes]
      /\ cmd' \in [Conns -> [1 .. IntSize -> Byte]]
      /\ lgSize' \in [Conns -> Nat] /\ pwSize' \in [Conns -> Nat]
      /\ buf'[k] = <<>> /\ pc'[k] = "ended"
      /\ \A j \in Conns \ {k} : pc'[j] = pc[j] /\ buf'[j] = buf[j] /\ lgSize'[j] = lgSize[j]
  BY Ends
<1>3. ThreadTypes'
  BY <1>1, <1>2 DEF ThreadTypes
<1>4. OthersFit(k)
  BY <1>2 DEF OthersFit
<1>5. ThreadFits(k)'
  BY <1>1, <1>2, <1>3, FreshFits
<1>6. NetTypes'
  BY DEF TypeInv, NetTypes
<1> QED
  BY <1>3, <1>4, <1>5, <1>6, ThreadMoved

\* So does one that has received a whole part,
LEMMA ProceedTypes ==
  ASSUME TypeInv, NEW k \in Conns, pc[k] \in Receiving, NEW bytes \in Bytes,
         pc[k] = "command" => Len(bytes) = IntSize,
         Proceed(k, bytes), on' \in [Conns -> 0 .. accepted], on'[k] = 0,
         \A j \in Conns \ {k} : on'[j] = on[j],
         UNCHANGED <<mainVars, c2s, s2c, clientVars>>
  PROVE  TypeInv'
<1>1. accepted' = accepted /\ k <= accepted
  BY Runs DEF mainVars
<1>2. /\ pc' \in [Conns -> ThreadPCs] /\ buf' \in [Conns -> Bytes]
      /\ cmd' \in [Conns -> [1 .. IntSize -> Byte]]
      /\ lgSize' \in [Conns -> Nat] /\ pwSize' \in [Conns -> Nat]
      /\ buf'[k] = <<>>
      /\ \A j \in Conns \ {k} : pc'[j] = pc[j] /\ buf'[j] = buf[j] /\ lgSize'[j] = lgSize[j]
  BY Proceeds
<1>3. ThreadTypes'
  BY <1>1, <1>2 DEF ThreadTypes
<1>4. OthersFit(k)
  BY <1>2 DEF OthersFit
<1>5. ThreadFits(k)'
  BY <1>1, <1>2, <1>3, FreshFits
<1>6. NetTypes'
  BY DEF TypeInv, NetTypes
<1> QED
  BY <1>3, <1>4, <1>5, <1>6, ThreadMoved

\* one that has nothing to receive,
LEMMA ReceiveNothingTypes ==
  ASSUME TypeInv, NEW k \in Conns, ReceiveNothing(k)
  PROVE  TypeInv'
<1>1. pc[k] \in Receiving /\ Need(k) = 0 /\ UNCHANGED <<mainVars, on, c2s, s2c, clientVars>>
  BY DEF ReceiveNothing
<1>2. pc[k] # "command" /\ on[k] = 0 /\ on \in [Conns -> 0 .. accepted]
  <2>1. pc[k] \in {"login", "password"}
    BY <1>1, Needs
  <2>2. on[k] # 0 => Need(k) > 0
    BY DEF TypeInv, ThreadFits
  <2> QED
    BY <1>1, <2>1, <2>2 DEF TypeInv, ThreadTypes
<1>3. CASE Proceed(k, <<>>)
  <2>1. <<>> \in Bytes
    BY DEF Bytes
  <2> QED
    BY <1>1, <1>2, <1>3, <2>1, ProceedTypes
<1>4. CASE End(k)
  BY <1>1, <1>2, <1>4, EndTypes
<1> QED
  BY <1>3, <1>4 DEF ReceiveNothing

\* What bufCommand holds is an int.
LEMMA StaleIs ==
  ASSUME TypeInv, NEW k \in Conns, pc[k] = "command"
  PROVE  Stale(k) \in Bytes /\ Len(Stale(k)) = IntSize
<1> DEFINE front == buf[k]
           old == cmd[k]
           back == SubSeq(old, Len(front) + 1, IntSize)
<1>1. pc[k] \in Receiving
  BY DEF Receiving
<1>2. front \in Seq(Byte) /\ Len(front) \in Nat /\ Len(front) <= IntSize /\ IntSize \in Nat
  <2>1. Need(k) = IntSize /\ Len(buf[k]) <= Need(k)
    BY <1>1, Needs DEF TypeInv, ThreadFits
  <2>2. buf[k] \in Seq(Byte)
    BY DEF TypeInv, ThreadTypes, Bytes
  <2> QED
    BY <2>1, <2>2, MailAssumption
<1>3. old \in Seq(Byte) /\ Len(old) = IntSize
  <2>1. old \in [1 .. IntSize -> Byte]
    BY DEF TypeInv, ThreadTypes
  <2> HIDE DEF old
  <2> QED
    BY <1>2, <2>1
<1> HIDE DEF front, old
<1>4. back = Part(old, Len(front), IntSize)
  BY DEF Part
<1> HIDE DEF back
<1>5. back \in Seq(Byte) /\ Len(back) = IntSize - Len(front)
  <2> DEFINE a == Len(front)
  <2>1. a \in Nat /\ a <= IntSize /\ IntSize <= Len(old) /\ back = Part(old, a, IntSize)
    BY <1>2, <1>3, <1>4
  <2> HIDE DEF a
  <2>2. Part(old, a, IntSize) \in Seq(Byte) /\ Len(Part(old, a, IntSize)) = IntSize - a
    BY <1>2, <1>3, <2>1, PartIs, ZenonT(60)
  <2> QED
    BY <2>1, <2>2 DEF a
<1>6. front \o back \in Seq(Byte) /\ Len(front \o back) = Len(front) + Len(back)
  BY <1>2, <1>5, Concatenated
<1>7. front \o back \in Seq(Byte) /\ Len(front \o back) = IntSize
  BY <1>2, <1>5, <1>6
<1> QED
  BY <1>7 DEF Stale, Bytes, front, back, old

\* one whose receive fails,
LEMMA ReceiveFailsTypes ==
  ASSUME TypeInv, NEW k \in Conns, ReceiveFails(k)
  PROVE  TypeInv'
<1>1. pc[k] \in Receiving /\ on' = [on EXCEPT ![k] = 0] /\ UNCHANGED <<mainVars, c2s, s2c, clientVars>>
  BY DEF ReceiveFails
<1>2. /\ on' \in [Conns -> 0 .. accepted] /\ on'[k] = 0
      /\ \A j \in Conns \ {k} : on'[j] = on[j]
  <2>1. on \in [Conns -> 0 .. accepted] /\ 0 \in 0 .. accepted
    BY Numbers DEF TypeInv, ThreadTypes
  <2> QED
    BY <1>1, <2>1
<1>3. CASE pc[k] = "command"
  <2>1. Proceed(k, Stale(k))
    BY <1>3 DEF ReceiveFails
  <2> QED
    BY <1>1, <1>2, <1>3, <2>1, StaleIs, ProceedTypes
<1>4. CASE pc[k] # "command"
  <2>1. End(k)
    BY <1>4 DEF ReceiveFails
  <2> QED
    BY <1>1, <1>2, <2>1, EndTypes
<1> QED
  BY <1>3, <1>4

\* one whose send fails,
LEMMA SendFailsTypes ==
  ASSUME TypeInv, NEW k \in Conns, SendFails(k)
  PROVE  TypeInv'
<1>1. pc[k] \in Sending /\ End(k) /\ UNCHANGED <<mainVars, on, c2s, s2c, clientVars>>
  BY DEF SendFails
<1>2. on[k] = 0 /\ on \in [Conns -> 0 .. accepted]
  BY <1>1 DEF TypeInv, ThreadTypes, ThreadFits, Receiving, Sending
<1> QED
  BY <1>1, <1>2, EndTypes

\* What a thread sends.
LEMMA ReplyIs ==
  ASSUME NEW k \in Conns, pc[k] \in Sending
  PROVE  Reply(k) \in Bytes
<1>1. AsInt(1) \in Bytes /\ AsInt(TextSize + 1) \in Bytes
  <2>1. 1 \in Ints(IntSize)
    BY CommandsFit
  <2>2. TextSize + 1 \in Ints(IntSize)
    BY MailAssumption
  <2> QED
    BY <2>1, <2>2, AsIntIs
<1>2. Letters(TokenSize) \in Bytes /\ Letters(TextSize) \in Bytes
  <2>1. TokenSize \in Nat /\ TextSize \in Nat
    BY MailAssumption
  <2> QED
    BY <2>1, LettersAre
<1>3. <<1>> \in Bytes
  BY DEF Bytes, Byte
<1> HIDE DEF AsInt
<1> QED
  BY <1>1, <1>2, <1>3 DEF Reply, Sending

\* and one that sends to the connection accepted last.
LEMMA SendTypes ==
  ASSUME TypeInv, NEW k \in Conns, Send(k)
  PROVE  TypeInv'
<1>1. /\ pc[k] \in Sending /\ serv(k) # 0 /\ pc' = [pc EXCEPT ![k] = Sent(k)]
      /\ s2c' = s2c \/ s2c' = [s2c EXCEPT ![serv(k)] = @ \o Reply(k)]
      /\ UNCHANGED <<mainVars, on, buf, cmd, lgSize, pwSize, c2s, clientVars>>
  BY DEF Send
<1>2. serv(k) \in Conns /\ serv(k) <= connected /\ serv(k) = accepted
  <2>1. serv(k) = accepted
    BY <1>1 DEF serv
  <2> QED
    BY <1>1, <2>1, Numbers DEF Conns
<1> DEFINE n == serv(k)
           sent == s2c[n] \o Reply(k)
<1>3. sent \in Bytes
  <2>1. s2c[n] \in Seq(Byte) /\ Reply(k) \in Seq(Byte)
    BY <1>1, <1>2, ReplyIs DEF TypeInv, NetTypes, Bytes
  <2> QED
    BY <2>1, Concatenated DEF Bytes
<1>4. s2c' = s2c \/ s2c' = [s2c EXCEPT ![n] = sent]
  BY <1>1
<1>5. n \in Conns /\ n <= connected
  BY <1>2
<1> HIDE DEF n, sent
<1>6. NetTypes' /\ \A j \in Conns : s2c'[j] = s2c[j] \/ j <= connected
  BY <1>1, <1>3, <1>4, <1>5 DEF TypeInv, NetTypes
<1>7. accepted' = accepted /\ Sent(k) \in Receiving \cup Sending /\ k <= accepted
  BY <1>1, Runs DEF Sent, Receiving, Sending, mainVars
<1>8. ThreadTypes'
  BY <1>1, <1>7 DEF TypeInv, ThreadTypes, ThreadPCs
<1>9. OthersFit(k)
  BY <1>1 DEF OthersFit, TypeInv, ThreadTypes
<1>10. ThreadFits(k)'
  <2>1. buf[k] = <<>> /\ on[k] = 0
    BY <1>1 DEF TypeInv, ThreadFits, Receiving, Sending
  <2> QED
    BY <1>1, <1>7, <1>8, <2>1, FreshFits
<1> QED
  BY <1>1, <1>6, <1>8, <1>9, <1>10, ThreadMoved

\* The end of the process ends every thread.
LEMMA EndProcessTypes ==
  ASSUME TypeInv, EndProcess
  PROVE  TypeInv'
<1>1. AsInt(0) \in [1 .. IntSize -> Byte]
  <2>1. 0 \in Ints(IntSize)
    BY CommandsFit
  <2> QED
    BY <2>1, AsIntIs
<1>2. /\ main' = "ended" /\ accepted' = accepted
      /\ pc' = [j \in Conns |-> "ended"] /\ on' = [j \in Conns |-> 0]
      /\ buf' = [j \in Conns |-> <<>>] /\ cmd' = [j \in Conns |-> AsInt(0)]
      /\ lgSize' = [j \in Conns |-> 0] /\ pwSize' = [j \in Conns |-> 0]
      /\ c2s' = [j \in Conns |-> <<>>] /\ UNCHANGED <<s2c, clientVars>>
  BY DEF EndProcess
<1>3. <<>> \in Bytes
  BY DEF Bytes
<1> HIDE DEF AsInt
<1>4. ThreadTypes'
  BY <1>1, <1>2, <1>3, Numbers DEF ThreadTypes, ThreadPCs
<1>5. NetTypes'
  BY <1>2, <1>3 DEF TypeInv, NetTypes
<1>6. ClientTypes' /\ \A j \in Conns : ClientFits(j)'
  BY <1>2, ClientsFit
<1>7. \A j \in Conns : ThreadFits(j)'
  BY <1>2 DEF ThreadFits, Receiving
<1> QED
  BY <1>2, <1>4, <1>5, <1>6, <1>7 DEF TypeInv, clientVars

\* A thread starts with the bytes the last one left on its stack.
LEMMA AcceptTypes ==
  ASSUME TypeInv, Accept
  PROVE  TypeInv'
<1> DEFINE k == accepted + 1
<1>1. /\ main' = main /\ accepted < connected /\ accepted' = k /\ pc' = [pc EXCEPT ![k] = "command"]
      /\ UNCHANGED <<on, buf, cmd, lgSize, pwSize, c2s, s2c, clientVars>>
  BY DEF Accept
<1>2. k \in Conns /\ k > accepted /\ k <= connected /\ connected' = connected /\ k \in Nat
  BY <1>1, Numbers DEF Conns, clientVars
<1> HIDE DEF k
<1>3. ThreadTypes'
  <2>1. on \in [Conns -> 0 .. k]
    BY <1>2, Numbers DEF TypeInv, ThreadTypes, k
  <2> QED
    BY <1>1, <2>1 DEF TypeInv, ThreadTypes, ThreadPCs, Receiving
<1>4. ASSUME NEW j \in Conns PROVE ThreadFits(j)'
  <2>1. CASE j = k
    <3>1. buf[j] = <<>> /\ on[j] = 0
      BY <1>2, <2>1 DEF TypeInv, ThreadFits, Receiving
    <3>2. pc'[j] = "command" /\ buf'[j] = <<>> /\ on'[j] = 0 /\ accepted' = k
      BY <1>1, <2>1, <3>1 DEF TypeInv, ThreadTypes
    <3>3. Need(j)' = IntSize /\ IntSize \in Nat
      BY <3>2, MailAssumption DEF Need
    <3> QED
      BY <1>2, <2>1, <3>2, <3>3 DEF ThreadFits, Receiving
  <2>2. CASE j # k
    <3>1. pc'[j] = pc[j]
      BY <1>1, <2>2 DEF TypeInv, ThreadTypes
    <3>2. ThreadFits(j)
      BY DEF TypeInv
    <3>3. j > k => j > accepted
      BY <1>2, Numbers
    <3> QED
      BY <1>1, <3>1, <3>2, <3>3 DEF ThreadFits, Need
  <2> QED
    BY <2>1, <2>2
<1>5. ClientTypes' /\ \A j \in Conns : ClientFits(j)'
  BY <1>1, ClientsFit
<1>6. NetTypes'
  BY <1>1 DEF TypeInv, NetTypes
<1>7. accepted' \in 0 .. connected'
  BY <1>1, <1>2, Numbers
<1> QED
  BY <1>1, <1>3, <1>4, <1>5, <1>6, <1>7 DEF TypeInv

\* After a failed accept the server waits for its threads.
LEMMA AcceptFailsTypes ==
  ASSUME TypeInv, AcceptFails
  PROVE  TypeInv'
<1>1. /\ main' = "join" /\ given' = given + 1 /\ given < MaxCommands
      /\ UNCHANGED <<accepted, threadVars, c2s, s2c, connected, cli, typed, job, left, size, shown>>
  BY DEF AcceptFails
<1>2. ClientTypes'
  BY <1>1, MailAssumption DEF TypeInv, ClientTypes
<1>3. ThreadTypes' /\ NetTypes'
  BY <1>1 DEF TypeInv, ThreadTypes, NetTypes, threadVars
<1>4. ASSUME NEW j \in Conns PROVE ThreadFits(j)' /\ ClientFits(j)'
  BY <1>1 DEF TypeInv, ThreadFits, ClientFits, Need, threadVars
<1> QED
  BY <1>1, <1>2, <1>3, <1>4 DEF TypeInv

\* A client that asks sends, and waits.
LEMMA Asks ==
  ASSUME TypeInv, NEW k \in Conns, NEW bytes \in Bytes, NEW for \in ClientPCs, Ask(k, bytes, for)
  PROVE  /\ c2s' \in [Conns -> Bytes] /\ cli' \in [Conns -> ClientPCs] /\ cli'[k] = for
         /\ \A j \in Conns \ {k} : c2s'[j] = c2s[j] /\ cli'[j] = cli[j]
<1> DEFINE sent == c2s[k] \o bytes
<1>1. sent \in Bytes
  <2>1. c2s[k] \in Seq(Byte) /\ bytes \in Seq(Byte)
    BY DEF TypeInv, NetTypes, Bytes
  <2> QED
    BY <2>1, Concatenated DEF Bytes
<1>2. c2s' = c2s \/ c2s' = [c2s EXCEPT ![k] = sent]
  BY DEF Ask
<1> HIDE DEF sent
<1>3. cli' = [cli EXCEPT ![k] = for]
  BY DEF Ask
<1> QED
  BY <1>1, <1>2, <1>3 DEF TypeInv, NetTypes, ClientTypes

\* A command and a token.
LEMMA RequestIs ==
  ASSUME NEW command \in SIGNIN .. SIGNOUT
  PROVE  /\ AsInt(command) \o Letters(TokenSize) \in Bytes
         /\ AsInt(0) \o AsInt(command) \o Letters(TokenSize) \in Bytes
<1>1. AsInt(command) \in Seq(Byte) /\ AsInt(0) \in Seq(Byte)
  <2>1. command \in Ints(IntSize) /\ 0 \in Ints(IntSize)
    BY CommandsFit DEF SIGNIN, SIGNOUT
  <2> QED
    BY <2>1, AsIntIs DEF Bytes
<1>2. Letters(TokenSize) \in Seq(Byte)
  <2>1. TokenSize \in Nat
    BY MailAssumption
  <2> QED
    BY <2>1, LettersAre DEF Bytes
<1> HIDE DEF AsInt
<1> QED
  BY <1>1, <1>2, Concatenated DEF Bytes

\* A user who signs in makes a connection.
LEMMA SignInTypes ==
  ASSUME TypeInv, NEW credential \in Credentials, SignIn(credential)
  PROVE  TypeInv'
<1>0. connected < MaxConns /\ connected + 1 \in Conns /\ connected + 1 \in 0 .. MaxConns
  BY Numbers DEF SignIn, Conns
<1>3. PICK k \in Conns : k = connected + 1 /\ k \in Nat /\ k \in 0 .. MaxConns
  BY <1>0, Numbers
<1> DEFINE header == AsInt(SIGNIN) \o AsInt(credential.lg) \o AsInt(credential.pw)
           login == header \o Letters(credential.lg)
           whole == login \o Letters(credential.pw)
<1>1. /\ connected' = k /\ typed' = [typed EXCEPT ![k] = credential]
      /\ Ask(k, whole, "token") \/ Ask(k, header, "abandoned") \/ Ask(k, login, "abandoned")
      /\ UNCHANGED <<mainVars, threadVars, s2c, job, left, size, shown, given>>
  BY <1>3 DEF SignIn
<1>2. header \in Bytes /\ login \in Bytes /\ whole \in Bytes
  <2>0. credential \in [lg : Ints(IntSize), pw : Ints(IntSize)]
    BY MailAssumption
  <2>1. credential.lg \in Ints(IntSize) /\ credential.pw \in Ints(IntSize) /\ SIGNIN \in Ints(IntSize)
    BY <2>0, CommandsFit DEF SIGNIN
  <2>2. credential.lg \in Nat /\ credential.pw \in Nat
    BY <2>1 DEF Ints
  <2>3. /\ AsInt(SIGNIN) \in Seq(Byte) /\ AsInt(credential.lg) \in Seq(Byte) /\ AsInt(credential.pw) \in Seq(Byte)
        /\ Letters(credential.lg) \in Seq(Byte) /\ Letters(credential.pw) \in Seq(Byte)
    BY <2>1, <2>2, AsIntIs, LettersAre DEF Bytes
  <2> QED
    BY <2>3, Concatenated DEF Bytes
<1> HIDE DEF header, login, whole
<1>4. PICK bytes \in Bytes, for \in {"token", "abandoned"} : Ask(k, bytes, for)
  BY <1>1, <1>2
<1>5. for \in ClientPCs
  BY DEF ClientPCs, Waiting
<1>6. /\ c2s' \in [Conns -> Bytes] /\ cli' \in [Conns -> ClientPCs] /\ cli'[k] = for
      /\ \A j \in Conns \ {k} : c2s'[j] = c2s[j] /\ cli'[j] = cli[j]
  BY <1>3, <1>4, <1>5, Asks
<1>7. NetTypes'
  BY <1>1, <1>6 DEF TypeInv, NetTypes
<1>8. ClientTypes'
  <2>1. typed' \in [Conns -> Credentials \cup {NoCredential}]
    BY <1>1, <1>3 DEF TypeInv, ClientTypes
  <2>2. connected' \in 0 .. MaxConns
    BY <1>1, <1>3
  <2> QED
    BY <1>1, <1>6, <2>1, <2>2 DEF TypeInv, ClientTypes
<1>9. ClientFits(k)'
  <2>1. cli'[k] \notin {"size", "text"}
    BY <1>4, <1>6
  <2>2. ~(k > connected')
    BY <1>1, <1>3
  <2> QED
    BY <2>1, <2>2 DEF ClientFits
<1>10. connected' \in {connected, connected + 1}
  BY <1>1, <1>3
<1>11. \A j \in Conns \ {k} :
         cli'[j] = cli[j] /\ left'[j] = left[j] /\ c2s'[j] = c2s[j] /\ s2c'[j] = s2c[j]
  BY <1>1, <1>6
<1> QED
  BY <1>1, <1>3, <1>7, <1>8, <1>9, <1>10, <1>11, ClientMoved

\* A client that has not connected is off.
LEMMA HasConnected ==
  ASSUME TypeInv, NEW k \in Conns, cli[k] # "off"
  PROVE  k <= connected
  BY Numbers DEF TypeInv, ClientFits

\* The steps of a client and of its user keep the types.
LEMMA AskForTypes ==
  ASSUME TypeInv, NEW k \in Conns, cli[k] # "off", NEW command \in SIGNIN .. SIGNOUT,
         NEW bytes \in Bytes, Ask(k, bytes, "answer"),
         job' = [job EXCEPT ![k] = command], given' \in 0 .. MaxCommands,
         s2c' \in [Conns -> Bytes], \A j \in Conns \ {k} : s2c'[j] = s2c[j],
         UNCHANGED <<mainVars, threadVars, connected, typed, left, size, shown>>
  PROVE  TypeInv'
<1>1. "answer" \in ClientPCs
  BY DEF ClientPCs, Waiting
<1>2. /\ c2s' \in [Conns -> Bytes] /\ cli' \in [Conns -> ClientPCs] /\ cli'[k] = "answer"
      /\ \A j \in Conns \ {k} : c2s'[j] = c2s[j] /\ cli'[j] = cli[j]
  BY <1>1, Asks
<1>3. ClientTypes'
  BY <1>2 DEF TypeInv, ClientTypes
<1>4. ClientFits(k)'
  BY <1>2, HasConnected, Numbers DEF ClientFits
<1>5. NetTypes'
  BY <1>2 DEF NetTypes
<1> QED
  BY <1>2, <1>3, <1>4, <1>5, ClientMoved

LEMMA ClickTypes ==
  ASSUME TypeInv, NEW k \in Conns, NEW command \in CHECKINCOMINGMESSAGES .. SIGNOUT, Click(k, command)
  PROVE  TypeInv'
<1> DEFINE bytes == AsInt(command) \o Letters(TokenSize)
<1>1. /\ cli[k] = "menu" /\ given < MaxCommands /\ given' = given + 1
      /\ Ask(k, bytes, "answer") /\ job' = [job EXCEPT ![k] = command]
      /\ UNCHANGED <<mainVars, threadVars, s2c, connected, typed, left, size, shown>>
  BY DEF Click, AskFor
<1>2. command \in SIGNIN .. SIGNOUT
  BY DEF CHECKINCOMINGMESSAGES, SIGNIN, SIGNOUT
<1>3. bytes \in Bytes
  BY <1>2, RequestIs
<1> HIDE DEF bytes
<1>4. given' \in 0 .. MaxCommands
  BY <1>1, MailAssumption DEF TypeInv, ClientTypes
<1>5. s2c' \in [Conns -> Bytes] /\ \A j \in Conns \ {k} : s2c'[j] = s2c[j]
  BY <1>1 DEF TypeInv, NetTypes
<1> QED
  BY <1>1, <1>2, <1>3, <1>4, <1>5, AskForTypes

\* What the client takes leaves it in the types.
LEMMA Takes ==
  ASSUME TypeInv, NEW k \in Conns, Take(k)
  PROVE  /\ s2c' \in [Conns -> Bytes] /\ \A j \in Conns \ {k} : s2c'[j] = s2c[j]
         /\ ClientNeed(k) \in Nat /\ ClientNeed(k) <= Len(s2c[k])
         /\ s2c[k] \in Bytes
         /\ s2c'[k] = Part(s2c[k], ClientNeed(k), Len(s2c[k]))
         /\ UNCHANGED <<mainVars, threadVars, connected, typed, given>>
         /\ cli[k] \in Waiting
<1> DEFINE n == ClientNeed(k)
           q == s2c[k]
           rest == SubSeq(q, n + 1, Len(q))
<1>1. /\ cli[k] \in Waiting /\ Len(q) >= n /\ s2c' = [s2c EXCEPT ![k] = rest]
      /\ UNCHANGED <<mainVars, threadVars, connected, typed, given>>
  BY DEF Take
<1>2. n \in Nat
  BY MailAssumption DEF ClientNeed, TypeInv, ClientTypes
<1>3. q \in Seq(Byte) /\ Len(q) \in Nat
  BY DEF TypeInv, NetTypes, Bytes
<1> HIDE DEF n, q
<1>4. rest \in Bytes
  BY <1>2, <1>3 DEF Bytes
<1>5. rest = Part(q, n, Len(q))
  BY DEF Part
<1> HIDE DEF rest
<1>6. s2c' \in [Conns -> Bytes] /\ s2c'[k] = rest /\ \A j \in Conns \ {k} : s2c'[j] = s2c[j]
  BY <1>1, <1>4 DEF TypeInv, NetTypes
<1>7. n <= Len(q)
  BY <1>1, <1>2, <1>3
<1> QED
  BY <1>1, <1>2, <1>3, <1>5, <1>6, <1>7 DEF n, q, Bytes

LEMMA GotTokenTypes ==
  ASSUME TypeInv, NEW k \in Conns, GotToken(k)
  PROVE  TypeInv'
<1> DEFINE bytes == AsInt(CHECKINCOMINGMESSAGES) \o Letters(TokenSize)
<1>1. /\ cli[k] = "token" /\ Take(k) /\ Ask(k, bytes, "answer")
      /\ job' = [job EXCEPT ![k] = CHECKINCOMINGMESSAGES]
      /\ UNCHANGED <<left, size, shown>>
  BY DEF GotToken, AskFor
<1>2. CHECKINCOMINGMESSAGES \in SIGNIN .. SIGNOUT
  BY DEF CHECKINCOMINGMESSAGES, SIGNIN, SIGNOUT
<1>3. bytes \in Bytes
  BY <1>2, RequestIs
<1> HIDE DEF bytes
<1>4. /\ s2c' \in [Conns -> Bytes] /\ \A j \in Conns \ {k} : s2c'[j] = s2c[j]
      /\ UNCHANGED <<mainVars, threadVars, connected, typed, given>>
  BY <1>1, Takes
<1>5. given' \in 0 .. MaxCommands
  BY <1>4 DEF TypeInv, ClientTypes
<1> QED
  BY <1>1, <1>2, <1>3, <1>4, <1>5, AskForTypes

\* A client that has taken something and asks for nothing.
LEMMA TakenTypes ==
  ASSUME TypeInv, NEW k \in Conns, cli[k] # "off",
         UNCHANGED <<mainVars, threadVars, c2s, connected, typed, job, given>>,
         s2c' \in [Conns -> Bytes], \A j \in Conns \ {k} : s2c'[j] = s2c[j],
         NEW next \in ClientPCs, cli' = [cli EXCEPT ![k] = next],
         NEW l \in Nat, left' = [left EXCEPT ![k] = l],
         NEW z \in Nat, size' = [size EXCEPT ![k] = z],
         NEW b \in BOOLEAN, shown' = [shown EXCEPT ![k] = b],
         next \in {"size", "text"} => l > 0
  PROVE  TypeInv'
<1>1. NetTypes'
  BY DEF TypeInv, NetTypes
<1>2. ClientTypes'
  BY DEF TypeInv, ClientTypes
<1>3. /\ \A j \in Conns \ {k} : cli'[j] = cli[j] /\ left'[j] = left[j] /\ c2s'[j] = c2s[j]
      /\ cli'[k] = next /\ left'[k] = l
  BY DEF TypeInv, ClientTypes
<1>4. ClientFits(k)'
  BY <1>3, HasConnected, Numbers DEF ClientFits
<1> QED
  BY <1>1, <1>2, <1>3, <1>4, ClientMoved

\* The values of client k, and that setting them to what they are changes nothing.
LEMMA Same ==
  ASSUME TypeInv, NEW k \in Conns
  PROVE  /\ left[k] \in Nat /\ left = [left EXCEPT ![k] = left[k]]
         /\ size[k] \in Nat /\ size = [size EXCEPT ![k] = size[k]]
         /\ shown[k] \in BOOLEAN /\ shown = [shown EXCEPT ![k] = shown[k]]
         /\ cli[k] \in ClientPCs /\ cli = [cli EXCEPT ![k] = cli[k]]
         /\ cli[k] \in {"size", "text"} => left[k] > 0
  BY DEF TypeInv, ClientTypes, ClientFits

LEMMA GotAnswerTypes ==
  ASSUME TypeInv, NEW k \in Conns, GotAnswer(k)
  PROVE  TypeInv'
<1>1. cli[k] = "answer" /\ Take(k) /\ UNCHANGED <<left, size>>
  BY DEF GotAnswer
<1>2. /\ s2c' \in [Conns -> Bytes] /\ \A j \in Conns \ {k} : s2c'[j] = s2c[j]
      /\ UNCHANGED <<mainVars, threadVars, connected, typed, given>>
  BY <1>1, Takes
<1>3. /\ left[k] \in Nat /\ left' = [left EXCEPT ![k] = left[k]]
      /\ size[k] \in Nat /\ size' = [size EXCEPT ![k] = size[k]]
      /\ shown[k] \in BOOLEAN /\ shown = [shown EXCEPT ![k] = shown[k]]
  BY <1>1, Same
<1>4. CASE cli' = [cli EXCEPT ![k] = "count"] /\ UNCHANGED <<c2s, job, shown>>
  <2>1. "count" \in ClientPCs /\ "count" \notin {"size", "text"} /\ cli[k] # "off"
    BY <1>1 DEF ClientPCs, Waiting
  <2>2. shown' = [shown EXCEPT ![k] = shown[k]]
    BY <1>3, <1>4
  <2> QED
    BY <1>2, <1>3, <1>4, <2>1, <2>2, TakenTypes
<1>5. CASE /\ cli' = [cli EXCEPT ![k] = "abandoned"] /\ shown' = [shown EXCEPT ![k] = FALSE]
           /\ UNCHANGED <<c2s, job>>
  <2>1. "abandoned" \in ClientPCs /\ "abandoned" \notin {"size", "text"} /\ FALSE \in BOOLEAN /\ cli[k] # "off"
    BY <1>1 DEF ClientPCs
  <2> QED
    BY <1>2, <1>3, <1>5, <2>1, TakenTypes
<1>6. CASE /\ Ask(k, AsInt(0) \o AsInt(CHECKINCOMINGMESSAGES) \o Letters(TokenSize), "answer")
           /\ job' = [job EXCEPT ![k] = CHECKINCOMINGMESSAGES] /\ UNCHANGED shown
  <2> DEFINE bytes == AsInt(0) \o AsInt(CHECKINCOMINGMESSAGES) \o Letters(TokenSize)
  <2>1. CHECKINCOMINGMESSAGES \in SIGNIN .. SIGNOUT
    BY DEF CHECKINCOMINGMESSAGES, SIGNIN, SIGNOUT
  <2>2. bytes \in Bytes /\ Ask(k, bytes, "answer")
    BY <1>6, <2>1, RequestIs
  <2> HIDE DEF bytes
  <2>3. given' \in 0 .. MaxCommands
    BY <1>2 DEF TypeInv, ClientTypes
  <2> QED
    BY <1>1, <1>2, <1>6, <2>1, <2>2, <2>3, AskForTypes
<1> QED
  BY <1>4, <1>5, <1>6 DEF GotAnswer

\* An int that a client has received.
LEMMA IntReceived ==
  ASSUME TypeInv, NEW k \in Conns, Take(k), cli[k] \in {"count", "size"}
  PROVE  Value(SubSeq(s2c[k], 1, IntSize)) \in Nat
<1>1. ClientNeed(k) = IntSize /\ s2c[k] \in Bytes /\ IntSize \in Nat /\ IntSize <= Len(s2c[k])
  BY Takes DEF ClientNeed
<1>2. SubSeq(s2c[k], 1, IntSize) \in Bytes
  BY <1>1 DEF Bytes
<1> QED
  BY <1>2, ValueBounds

LEMMA GotCountTypes ==
  ASSUME TypeInv, NEW k \in Conns, GotCount(k)
  PROVE  TypeInv'
<1> DEFINE count == Value(SubSeq(s2c[k], 1, IntSize))
           next == IF count > 0 THEN "size" ELSE "menu"
<1>1. /\ cli[k] = "count" /\ Take(k) /\ left' = [left EXCEPT ![k] = count]
      /\ cli' = [cli EXCEPT ![k] = next] /\ shown' = [shown EXCEPT ![k] = FALSE]
      /\ UNCHANGED <<c2s, job, size>>
  BY DEF GotCount
<1>2. count \in Nat
  BY <1>1, IntReceived
<1>3. next \in ClientPCs /\ (next \in {"size", "text"} => count > 0) /\ FALSE \in BOOLEAN
  BY DEF ClientPCs, Waiting
<1> HIDE DEF count, next
<1>4. /\ s2c' \in [Conns -> Bytes] /\ \A j \in Conns \ {k} : s2c'[j] = s2c[j]
      /\ UNCHANGED <<mainVars, threadVars, connected, typed, given>>
  BY <1>1, Takes
<1>5. size[k] \in Nat /\ size' = [size EXCEPT ![k] = size[k]]
  BY <1>1, Same
<1> QED
  BY <1>1, <1>2, <1>3, <1>4, <1>5, TakenTypes

LEMMA GotSizeTypes ==
  ASSUME TypeInv, NEW k \in Conns, GotSize(k)
  PROVE  TypeInv'
<1> DEFINE length == Value(SubSeq(s2c[k], 1, IntSize))
<1>1. /\ cli[k] = "size" /\ Take(k) /\ size' = [size EXCEPT ![k] = length]
      /\ cli' = [cli EXCEPT ![k] = "text"] /\ UNCHANGED <<c2s, job, left, shown>>
  BY DEF GotSize
<1>2. length \in Nat
  BY <1>1, IntReceived
<1> HIDE DEF length
<1>3. "text" \in ClientPCs
  BY DEF ClientPCs, Waiting
<1>4. /\ s2c' \in [Conns -> Bytes] /\ \A j \in Conns \ {k} : s2c'[j] = s2c[j]
      /\ UNCHANGED <<mainVars, threadVars, connected, typed, given>>
  BY <1>1, Takes
<1>5. /\ left[k] \in Nat /\ left' = [left EXCEPT ![k] = left[k]] /\ left[k] > 0
      /\ shown[k] \in BOOLEAN /\ shown' = [shown EXCEPT ![k] = shown[k]]
  BY <1>1, Same
<1> QED
  BY <1>1, <1>2, <1>3, <1>4, <1>5, TakenTypes

LEMMA GotTextTypes ==
  ASSUME TypeInv, NEW k \in Conns, GotText(k)
  PROVE  TypeInv'
<1>1. /\ cli[k] = "text" /\ Take(k) /\ left' = [left EXCEPT ![k] = left[k] - 1]
      /\ UNCHANGED <<c2s, job, size>>
  BY DEF GotText
<1>2. /\ s2c' \in [Conns -> Bytes] /\ \A j \in Conns \ {k} : s2c'[j] = s2c[j]
      /\ UNCHANGED <<mainVars, threadVars, connected, typed, given>>
  BY <1>1, Takes
<1>3. left[k] > 0 /\ left[k] \in Nat /\ size[k] \in Nat /\ size' = [size EXCEPT ![k] = size[k]]
  BY <1>1, Same
<1>4. left[k] - 1 \in Nat
  BY <1>3
<1>5. PICK next \in {"size", "menu"}, b \in BOOLEAN :
         /\ cli' = [cli EXCEPT ![k] = next] /\ shown' = [shown EXCEPT ![k] = b]
         /\ next = "size" => left[k] > 1
  <2>1. CASE /\ cli' = [cli EXCEPT ![k] = IF left[k] > 1 THEN "size" ELSE "menu"]
             /\ shown' = [shown EXCEPT ![k] = TRUE]
    BY <2>1
  <2>2. CASE cli' = [cli EXCEPT ![k] = "menu"] /\ UNCHANGED shown
    <3>1. shown[k] \in BOOLEAN /\ shown' = [shown EXCEPT ![k] = shown[k]]
      BY <2>2, Same
    <3> QED
      BY <2>2, <3>1
  <2> QED
    BY <2>1, <2>2 DEF GotText
<1>6. next \in ClientPCs /\ (next \in {"size", "text"} => left[k] - 1 > 0)
  BY <1>3, <1>5 DEF ClientPCs, Waiting
<1> QED
  BY <1>1, <1>2, <1>3, <1>4, <1>5, <1>6, TakenTypes

LEMMA GotNothingTypes ==
  ASSUME TypeInv, NEW k \in Conns, GotNothing(k)
  PROVE  TypeInv'
<1> DEFINE next == IF cli[k] \in {"size", "text"} THEN "menu" ELSE "abandoned"
           b == shown[k] /\ cli[k] \in {"size", "text"}
<1>1. /\ cli[k] \in Waiting /\ s2c' = [s2c EXCEPT ![k] = <<>>]
      /\ cli' = [cli EXCEPT ![k] = next] /\ shown' = [shown EXCEPT ![k] = b]
      /\ UNCHANGED <<mainVars, threadVars, c2s, connected, typed, job, left, size, given>>
  BY DEF GotNothing
<1>2. next \in ClientPCs /\ next \notin {"size", "text"} /\ b \in BOOLEAN /\ cli[k] # "off"
  BY <1>1 DEF ClientPCs, Waiting
<1> HIDE DEF next, b
<1>3. s2c' \in [Conns -> Bytes] /\ \A j \in Conns \ {k} : s2c'[j] = s2c[j]
  <2>1. <<>> \in Bytes
    BY DEF Bytes
  <2> QED
    BY <1>1, <2>1 DEF TypeInv, NetTypes
<1>4. /\ left[k] \in Nat /\ left' = [left EXCEPT ![k] = left[k]]
      /\ size[k] \in Nat /\ size' = [size EXCEPT ![k] = size[k]]
  BY <1>1, Same
<1> QED
  BY <1>1, <1>2, <1>3, <1>4, TakenTypes

\* A client that is killed keeps the types.
LEMMA KillTypes ==
  ASSUME TypeInv, NEW k \in Conns, Kill(k)
  PROVE  TypeInv'
<1>1. /\ cli[k] # "off" /\ cli' = [cli EXCEPT ![k] = "gone"]
      /\ c2s' \in {c2s, [c2s EXCEPT ![k] = <<>>]} /\ s2c' = [s2c EXCEPT ![k] = <<>>]
      /\ typed' = [typed EXCEPT ![k] = NoCredential]
      /\ job' = [job EXCEPT ![k] = SIGNIN] /\ shown' = [shown EXCEPT ![k] = FALSE]
      /\ left' = [left EXCEPT ![k] = 0] /\ size' = [size EXCEPT ![k] = 0]
      /\ UNCHANGED <<mainVars, threadVars, connected, given>>
  BY DEF Kill
<1>2. <<>> \in Bytes
  BY DEF Bytes
<1>3. NetTypes' /\ \A j \in Conns \ {k} : c2s'[j] = c2s[j] /\ s2c'[j] = s2c[j]
  BY <1>1, <1>2 DEF TypeInv, NetTypes
<1>4. ClientTypes' /\ \A j \in Conns \ {k} : cli'[j] = cli[j] /\ left'[j] = left[j]
  BY <1>1 DEF TypeInv, ClientTypes, ClientPCs, SIGNIN, SIGNOUT
<1>5. ClientFits(k)'
  <2>1. cli'[k] = "gone"
    BY <1>1 DEF TypeInv, ClientTypes
  <2> QED
    BY <1>1, <2>1, HasConnected, Numbers DEF ClientFits
<1> QED
  BY <1>1, <1>3, <1>4, <1>5, ClientMoved

\* Every step keeps the types.
LEMMA TypeStep == TypeInv /\ [Next]_vars => TypeInv'
<1> SUFFICES ASSUME TypeInv, [Next]_vars PROVE TypeInv'
  OBVIOUS
<1>1. CASE Accept \/ AcceptFails
  BY <1>1, AcceptTypes, AcceptFailsTypes
<1>2. CASE Join
  BY <1>2, EndProcessTypes DEF Join
<1>3. ASSUME NEW credential \in Credentials, SignIn(credential) PROVE TypeInv'
  BY <1>3, SignInTypes
<1>4. ASSUME NEW k \in Conns, ThreadStep(k) PROVE TypeInv'
  BY <1>4, CallTypes, ReceiveTypes, ReceiveNothingTypes, ReceiveFailsTypes, SendTypes, SendFailsTypes
     DEF ThreadStep
<1>5. ASSUME NEW k \in Conns, MemoryFails(k) PROVE TypeInv'
  BY <1>5, EndProcessTypes DEF MemoryFails
<1>6. ASSUME NEW k \in Conns, ClientStep(k) PROVE TypeInv'
  BY <1>6, GotTokenTypes, GotAnswerTypes, GotCountTypes, GotSizeTypes, GotTextTypes, GotNothingTypes
     DEF ClientStep
<1>7. ASSUME NEW k \in Conns, Kill(k) PROVE TypeInv'
  BY <1>7, KillTypes
<1>8. ASSUME NEW k \in Conns, NEW command \in CHECKINCOMINGMESSAGES .. SIGNOUT, Click(k, command)
      PROVE  TypeInv'
  BY <1>8, ClickTypes
<1>9. CASE UNCHANGED vars
  BY <1>9 DEF vars, mainVars, threadVars, clientVars, TypeInv, ThreadTypes, NetTypes, ClientTypes,
     ThreadFits, ClientFits, Need
<1> QED
  BY <1>1, <1>2, <1>3, <1>4, <1>5, <1>6, <1>7, <1>8, <1>9 DEF Next

\* The mail server keeps its types: in particular no recvAll receives more than
\* it was asked for, and a pending recv is one of a connection that was accepted.
THEOREM TypeCorrect == Spec => []TypeOK
<1>1. TypeInv => TypeOK
  BY DEF TypeInv, TypeOK, ThreadTypes, NetTypes, ClientTypes, ThreadFits
<1> QED
  BY <1>1, TypeInit, TypeStep, PTL DEF Spec

\* One sequence after the other.
Joined(s, t) == s \o t

\* What a client sends to be signed in, and then to have its messages checked;
\* what it is sent for the two.
Hello(c) ==
  AsInt(SIGNIN) \o AsInt(c.lg) \o AsInt(c.pw) \o Letters(c.lg) \o Letters(c.pw)
Check == AsInt(CHECKINCOMINGMESSAGES) \o Letters(TokenSize)
Calls(c) == Hello(c) \o Check
Replies ==
  Letters(TokenSize) \o <<1>> \o AsInt(1) \o AsInt(TextSize + 1) \o Letters(TextSize)

HelloSize(c) == 3 * IntSize + c.lg + c.pw
CallsSize(c) == HelloSize(c) + IntSize + TokenSize
RepliesSize == TokenSize + 1 + 2 * IntSize + TextSize

\* How much of the calls client 1 has sent, and how much of the replies it has taken.
Called == IF cli[1] = "token" THEN HelloSize(typed[1]) ELSE CallsSize(typed[1])
Taken ==
  CASE cli[1] = "token" -> 0
    [] cli[1] = "answer" -> TokenSize
    [] cli[1] = "count" -> TokenSize + 1
    [] cli[1] = "size" -> TokenSize + 1 + IntSize
    [] cli[1] = "text" -> TokenSize + 1 + 2 * IntSize

\* Where thread 1 is when it has used r bytes of the calls and sent q bytes of the
\* replies.  What is left of a password longer than its login is read as commands,
\* of which none is one.
Position(r, q) ==
  LET c == typed[1]
      header == 3 * IntSize IN
  CASE pc[1] = "none" -> accepted = 0 /\ r = 0 /\ q = 0
    [] pc[1] = "command" -> \/ r = 0 /\ q = 0
                            \/ /\ q = TokenSize /\ header + 2 * c.lg <= r
                               /\ c.lg = c.pw => r = HelloSize(c)
                            \/ q = RepliesSize /\ r = CallsSize(c)
    [] pc[1] = "lgSize" -> r = IntSize /\ q = 0
    [] pc[1] = "pwSize" -> r = 2 * IntSize /\ q = 0 /\ lgSize[1] = c.lg
    [] pc[1] = "login" -> r = header /\ q = 0 /\ lgSize[1] = c.lg
    [] pc[1] = "password" -> r = header + c.lg /\ q = 0 /\ lgSize[1] = c.lg
    [] pc[1] = "signedIn" -> r = header + 2 * c.lg /\ q = 0
    [] pc[1] = "token" -> r = HelloSize(c) + IntSize /\ q = TokenSize /\ cmd[1] = AsInt(1)
    [] pc[1] = "answer" -> r = CallsSize(c) /\ q = TokenSize /\ cmd[1] = AsInt(1)
    [] pc[1] = "count" -> r = CallsSize(c) /\ q = TokenSize + 1
    [] pc[1] = "size" -> r = CallsSize(c) /\ q = TokenSize + 1 + IntSize
    [] pc[1] = "text" -> r = CallsSize(c) /\ q = TokenSize + 1 + 2 * IntSize
    [] pc[1] = "ended" -> c.lg = 0
    [] OTHER -> FALSE

\* While the server accepts, what is in flight and in the thread's buffer is the
\* rest of what the client has sent.
ServerAt(r, q) ==
  /\ r <= Called /\ Joined(buf[1], c2s[1]) = Part(Calls(typed[1]), r, Called)
  /\ Position(r, q)

ClientAt(q) ==
  /\ Taken <= q /\ s2c[1] = Part(Replies, Taken, q)
  /\ cli[1] = "answer" /\ job[1] # CHECKINCOMINGMESSAGES => main = "ended" /\ s2c[1] = <<>>
  /\ cli[1] = "text" => size[1] = TextSize + 1

Conversation ==
  \E r \in 0 .. CallsSize(typed[1]), q \in 0 .. RepliesSize :
    ClientAt(q) /\ (main = "accept" => ServerAt(r, q))

\* The first client, as long as it is the only one that was accepted.
FirstAlone ==
  /\ ~shown[1]
  /\ cli[1] = "menu" => main = "ended" /\ s2c[1] = <<>>
  /\ cli[1] \in Waiting => Conversation

\* A client that was not accepted has heard nothing.
Unheard(k) ==
  k > accepted =>
    /\ cli[k] \in {"off", "token", "abandoned", "gone"} /\ s2c[k] = <<>> /\ ~shown[k]
    /\ main = "accept" => pc[k] = "none"

ConvInv ==
  /\ \A k \in Conns : Unheard(k)
  /\ accepted <= 1 /\ 1 \in Conns => FirstAlone

-----------------------------------------------------------------------------
(* Parts of what one side sends.                                           *)

\* A sequence is a part of itself.
LEMMA PartWhole ==
  ASSUME NEW S, NEW s \in Seq(S)
  PROVE  Part(s, 0, Len(s)) = s
<1> DEFINE n == Len(s)
           part == Part(s, 0, n)
<1>1. n \in Nat /\ n = Len(s)
  OBVIOUS
<1>2. part \in Seq(S) /\ Len(part) = n - 0 /\ \A i \in 1 .. n - 0 : part[i] = s[0 + i]
  <2> HIDE DEF n
  <2>1. 0 \in Nat /\ 0 <= n /\ n <= Len(s)
    BY <1>1
  <2> QED
    BY <1>1, <2>1, PartIs, ZenonT(60)
<1> HIDE DEF n, part
<1>3. Len(part) = Len(s) /\ \A i \in 1 .. Len(part) : part[i] = s[i]
  BY <1>1, <1>2
<1>4. part = s
  BY <1>2, <1>3, SameSequence
<1> QED
  BY <1>4 DEF part, n

\* A part of the front of a sequence.
LEMMA PartLeft ==
  ASSUME NEW S, NEW s \in Seq(S), NEW t \in Seq(S), NEW a \in Nat, NEW b \in Nat, a <= b, b <= Len(s)
  PROVE  Part(s \o t, a, b) = Part(s, a, b)
<1> DEFINE st == s \o t
           one == Part(st, a, b)
           two == Part(s, a, b)
<1>1. st \in Seq(S) /\ Len(st) = Len(s) + Len(t)
      /\ \A i \in 1 .. Len(s) + Len(t) : st[i] = IF i <= Len(s) THEN s[i] ELSE t[i - Len(s)]
  BY Concatenated
<1>2. Len(s) \in Nat /\ Len(t) \in Nat
  OBVIOUS
<1> HIDE DEF st
<1>3. one \in Seq(S) /\ Len(one) = b - a /\ \A i \in 1 .. b - a : one[i] = st[a + i]
  <2>1. b <= Len(st)
    BY <1>1, <1>2
  <2> QED
    BY <1>1, <2>1, PartIs, ZenonT(60)
<1>4. two \in Seq(S) /\ Len(two) = b - a /\ \A i \in 1 .. b - a : two[i] = s[a + i]
  BY <1>2, PartIs
<1> HIDE DEF one, two
<1>5. ASSUME NEW i \in 1 .. b - a PROVE one[i] = two[i]
  <2>1. a + i \in 1 .. Len(s) + Len(t) /\ a + i <= Len(s)
    BY <1>2
  <2> QED
    BY <1>1, <1>3, <1>4, <2>1
<1>6. one = two
  BY <1>3, <1>4, <1>5, SameSequence
<1> QED
  BY <1>6 DEF one, two, st

\* Two parts that meet.
LEMMA PartsJoin ==
  ASSUME NEW S, NEW G \in Seq(S), NEW a \in Nat, NEW b \in Nat, NEW d \in Nat,
         a <= b, b <= d, d <= Len(G)
  PROVE  Part(G, a, b) \o Part(G, b, d) = Part(G, a, d)
<1> DEFINE s == Part(G, b, d)
<1>1. s \in Seq(S) /\ Len(s) = d - b /\ \A i \in 1 .. d - b : s[i] = G[b + i]
  BY PartIs
<1> HIDE DEF s
<1>2. b + Len(s) = d /\ b + Len(s) <= Len(G) /\ \A i \in 1 .. Len(s) : s[i] = G[b + i]
  BY <1>1
<1>3. Part(G, a, b) \o s = Part(G, a, b + Len(s))
  <2>1. s \in Seq(S) /\ G \in Seq(S)
    BY <1>1
  <2>2. b + Len(s) <= Len(G)
    BY <1>2
  <2>3. \A i \in 1 .. Len(s) : s[i] = G[b + i]
    BY <1>2
  <2> QED
    BY <2>1, <2>2, <2>3, PartExtended, ZenonT(60)
<1> QED
  BY <1>2, <1>3 DEF s

\* The front of a sequence, and the rest.
LEMMA PartsOfJoined ==
  ASSUME NEW S, NEW s \in Seq(S), NEW t \in Seq(S), NEW G \in Seq(S), NEW a \in Nat, NEW b \in Nat,
         NEW d \in Nat, d = a + Len(s), a <= b, b <= Len(G), Joined(s, t) = Part(G, a, b)
  PROVE  d <= b /\ d + Len(t) = b /\ s = Part(G, a, d) /\ t = Part(G, d, b)
<1> DEFINE st == s \o t
           n == Len(s)
           m == Len(t)
<1>1. st \in Seq(S) /\ Len(st) = n + m
      /\ \A i \in 1 .. n + m : st[i] = IF i <= n THEN s[i] ELSE t[i - n]
  BY Concatenated
<1>2. n \in Nat /\ m \in Nat /\ n = Len(s) /\ m = Len(t)
  OBVIOUS
<1>2a. /\ Len(Part(G, a, b)) = b - a
       /\ \A i \in 1 .. b - a : Part(G, a, b)[i] = G[a + i]
  BY PartIs, ZenonT(60)
<1>2b. st = Part(G, a, b)
  BY DEF Joined
<1>3. Len(st) = b - a
  BY <1>2a, <1>2b
<1>3a. Len(st) = n + m
  BY <1>1
<1>4. a + n <= b /\ a + n \in Nat /\ a + n + m = b
  <2> HIDE DEF n, m, st
  <2>1. n + m = b - a
    BY <1>3, <1>3a
  <2> QED
    BY <1>2, <2>1
<1>5. \A i \in 1 .. b - a : st[i] = G[a + i]
  BY <1>2a, <1>2b
<1> DEFINE front == Part(G, a, a + n)
           back == Part(G, a + n, b)
<1> HIDE DEF st, n, m
<1>6. /\ front \in Seq(S) /\ Len(front) = n
      /\ \A i \in 1 .. n : front[i] = G[a + i]
  <2> DEFINE x == a + n
  <2>1. x \in Nat /\ a <= x /\ x <= Len(G) /\ x - a = n
    BY <1>2, <1>4
  <2> HIDE DEF x
  <2>2. /\ Part(G, a, x) \in Seq(S) /\ Len(Part(G, a, x)) = x - a
        /\ \A i \in 1 .. x - a : Part(G, a, x)[i] = G[a + i]
    BY <2>1, PartIs
  <2> QED
    BY <2>1, <2>2 DEF x
<1>7. /\ back \in Seq(S) /\ Len(back) = m
      /\ \A i \in 1 .. m : back[i] = G[a + n + i]
  <2> DEFINE x == a + n
  <2>1. x \in Nat /\ x <= b /\ b - x = m
    BY <1>2, <1>4
  <2> HIDE DEF x
  <2>2. /\ Part(G, x, b) \in Seq(S) /\ Len(Part(G, x, b)) = b - x
        /\ \A i \in 1 .. b - x : Part(G, x, b)[i] = G[x + i]
    BY <2>1, PartIs, ZenonT(60)
  <2> QED
    BY <2>1, <2>2 DEF x
<1> HIDE DEF front, back
<1>8. s = front
  <2>1. ASSUME NEW i \in 1 .. n PROVE s[i] = front[i]
    <3>1. i \in 1 .. n + m /\ i \in 1 .. b - a /\ i <= n
      BY <1>2, <1>4
    <3> QED
      BY <1>1, <1>5, <1>6, <3>1
  <2> QED
    BY <1>2, <1>6, <2>1, SameSequence
<1>9. t = back
  <2>1. ASSUME NEW i \in 1 .. m PROVE t[i] = back[i]
    <3>1. n + i \in 1 .. n + m /\ n + i \in 1 .. b - a /\ ~(n + i <= n) /\ (n + i) - n = i /\ a + (n + i) = a + n + i
      BY <1>2, <1>4
    <3> QED
      BY <1>1, <1>5, <1>7, <3>1, ZenonT(60)
  <2> QED
    BY <1>2, <1>7, <2>1, SameSequence
<1>10. d = a + n
  BY <1>2
<1> QED
  BY <1>2, <1>4, <1>8, <1>9, <1>10 DEF front, back

Credential == [lg : Ints(IntSize), pw : Ints(IntSize)]

\* Every part but the text is at least a byte, and so is the text.
LEMMA SizesAre ==
  /\ IntSize \in Nat /\ IntSize > 0 /\ TokenSize \in Nat /\ TokenSize > 0
  /\ TextSize \in Nat /\ TextSize > 0
  BY MailAssumption

\* What a user enters fits in the ints that announce it.
LEMMA CredentialIs ==
  ASSUME NEW c \in Credential
  PROVE  /\ c.lg \in Ints(IntSize) /\ c.pw \in Ints(IntSize) /\ c.lg \in Nat /\ c.pw \in Nat
         /\ HelloSize(c) \in Nat /\ CallsSize(c) \in Nat
         /\ HelloSize(c) + IntSize + TokenSize = CallsSize(c)
         /\ 3 * IntSize <= HelloSize(c)
<1>1. c.lg \in Ints(IntSize) /\ c.pw \in Ints(IntSize)
  BY DEF Credential
<1>2. c.lg \in Nat /\ c.pw \in Nat
  BY <1>1 DEF Ints
<1> QED
  BY <1>1, <1>2, SizesAre DEF HelloSize, CallsSize

\* The credentials entered, and those of a client that has entered none.
LEMMA TypedIs ==
  ASSUME TypeInv, NEW k \in Conns
  PROVE  typed[k] \in Credential
<1>1. typed[k] \in Credentials \cup {NoCredential}
  BY DEF TypeInv, ClientTypes
<1>2. NoCredential \in Credential
  BY CommandsFit DEF NoCredential, Credential
<1> QED
  BY <1>1, <1>2, MailAssumption DEF Credential

\* The two parts of a concatenation.
LEMMA PartsOf ==
  ASSUME NEW S, NEW s \in Seq(S), NEW t \in Seq(S)
  PROVE  Part(s \o t, 0, Len(s)) = s /\ Part(s \o t, Len(s), Len(s) + Len(t)) = t
<1>1. PICK G \in Seq(S) : G = s \o t /\ Len(G) = Len(s) + Len(t)
  BY Concatenated
<1>2. PICK z \in Nat : z = 0
  OBVIOUS
<1>3. PICK b \in Nat : b = Len(G)
  OBVIOUS
<1>4. Joined(s, t) = Part(G, z, b)
  BY <1>1, <1>2, <1>3, PartWhole DEF Joined
<1>6. PICK d \in Nat : d = Len(s) /\ d = z + Len(s)
  BY <1>2
<1>5. /\ s = Part(G, z, d) /\ t = Part(G, d, b)
  <2>1. z <= b /\ b <= Len(G)
    BY <1>2, <1>3
  <2> QED
    BY <1>4, <1>6, <2>1, PartsOfJoined
<1> QED
  BY <1>1, <1>2, <1>3, <1>5, <1>6

\* Where every part of a client's calls is.
LEMMA CallsAre ==
  ASSUME NEW c \in Credential
  PROVE  /\ Hello(c) \in Bytes /\ Len(Hello(c)) = HelloSize(c)
         /\ Check \in Bytes /\ Len(Check) = IntSize + TokenSize
         /\ Calls(c) \in Bytes /\ Len(Calls(c)) = CallsSize(c)
         /\ Part(Calls(c), 0, HelloSize(c)) = Hello(c)
         /\ Part(Calls(c), HelloSize(c), CallsSize(c)) = Check
         /\ Part(Calls(c), 0, IntSize) = AsInt(0)
         /\ Part(Calls(c), IntSize, 2 * IntSize) = AsInt(c.lg)
         /\ Part(Calls(c), HelloSize(c), HelloSize(c) + IntSize) = AsInt(1)
         /\ \A i \in Nat : 3 * IntSize < i /\ i <= HelloSize(c) => Calls(c)[i] = 49
         /\ \A i \in Nat : HelloSize(c) + IntSize < i /\ i <= CallsSize(c) => Calls(c)[i] = 49
<1> DEFINE a0 == AsInt(0)
           a1 == AsInt(c.lg)
           a2 == AsInt(c.pw)
           l1 == Letters(c.lg)
           l2 == Letters(c.pw)
           k1 == AsInt(1)
           k2 == Letters(TokenSize)
           h2 == a0 \o a1
           h3 == h2 \o a2
           h4 == h3 \o l1
           h5 == h4 \o l2
           k == k1 \o k2
           h6 == h5 \o k
           I == IntSize
           lg == c.lg
           pw == c.pw
           T == TokenSize
<1>1. I \in Nat /\ T \in Nat /\ lg \in Nat /\ pw \in Nat
  BY CredentialIs, SizesAre
<1>2. /\ a0 \in Seq(Byte) /\ Len(a0) = I /\ a1 \in Seq(Byte) /\ Len(a1) = I
      /\ a2 \in Seq(Byte) /\ Len(a2) = I /\ k1 \in Seq(Byte) /\ Len(k1) = I
  <2>1. 0 \in Ints(IntSize) /\ 1 \in Ints(IntSize) /\ c.lg \in Ints(IntSize) /\ c.pw \in Ints(IntSize)
    BY CommandsFit, CredentialIs
  <2> QED
    BY <2>1, AsIntIs DEF Bytes
<1>3. /\ l1 \in Seq(Byte) /\ Len(l1) = lg /\ \A i \in 1 .. lg : l1[i] = 49
      /\ l2 \in Seq(Byte) /\ Len(l2) = pw /\ \A i \in 1 .. pw : l2[i] = 49
      /\ k2 \in Seq(Byte) /\ Len(k2) = T /\ \A i \in 1 .. T : k2[i] = 49
  BY <1>1, LettersAre DEF Bytes
<1>4. Hello(c) = h5 /\ Check = k /\ Calls(c) = h6
  BY DEF Hello, Check, Calls, SIGNIN, CHECKINCOMINGMESSAGES
<1>5. HelloSize(c) = 3 * I + lg + pw /\ CallsSize(c) = 3 * I + lg + pw + I + T
  BY DEF HelloSize, CallsSize
<1> HIDE DEF a0, a1, a2, l1, l2, k1, k2, I, lg, pw, T
<1>6. h2 \in Seq(Byte) /\ Len(h2) = 2 * I /\ Part(h2, 0, I) = a0 /\ Part(h2, I, 2 * I) = a1
  <2>1. h2 \in Seq(Byte) /\ Len(h2) = Len(a0) + Len(a1)
    BY <1>2, Concatenated
  <2>2. Part(h2, 0, Len(a0)) = a0 /\ Part(h2, Len(a0), Len(a0) + Len(a1)) = a1
    BY <1>2, PartsOf
  <2>3. Len(a0) + Len(a1) = 2 * I
    BY <1>1, <1>2
  <2> QED
    BY <1>2, <2>1, <2>2, <2>3
<1> HIDE DEF h2
<1>7. h3 \in Seq(Byte) /\ Len(h3) = 3 * I
  <2>1. h3 \in Seq(Byte) /\ Len(h3) = Len(h2) + Len(a2)
    BY <1>2, <1>6, Concatenated
  <2> HIDE DEF h3
  <2> QED
    BY <1>1, <1>2, <1>6, <2>1
<1>8. Part(h3, 0, I) = a0 /\ Part(h3, I, 2 * I) = a1
  <2>1. 0 \in Nat /\ 0 <= I /\ I <= Len(h2) /\ I <= 2 * I /\ 2 * I <= Len(h2) /\ 2 * I \in Nat
    BY <1>1, <1>6
  <2>2. Part(h3, 0, I) = Part(h2, 0, I) /\ Part(h3, I, 2 * I) = Part(h2, I, 2 * I)
    BY <1>1, <1>2, <1>6, <2>1, PartLeft
  <2> QED
    BY <1>6, <2>2
<1> HIDE DEF h3
<1>9. /\ h4 \in Seq(Byte) /\ Len(h4) = 3 * I + lg
      /\ \A i \in 1 .. 3 * I + lg : h4[i] = IF i <= 3 * I THEN h3[i] ELSE l1[i - 3 * I]
  <2>1. /\ h4 \in Seq(Byte) /\ Len(h4) = Len(h3) + Len(l1)
        /\ \A i \in 1 .. Len(h3) + Len(l1) : h4[i] = IF i <= Len(h3) THEN h3[i] ELSE l1[i - Len(h3)]
    BY <1>3, <1>7, Concatenated, ZenonT(60)
  <2> QED
    BY <1>3, <1>7, <2>1
<1>10. Part(h4, 0, I) = a0 /\ Part(h4, I, 2 * I) = a1
  <2>1. 0 \in Nat /\ 0 <= I /\ I <= Len(h3) /\ I <= 2 * I /\ 2 * I <= Len(h3) /\ 2 * I \in Nat
    BY <1>1, <1>7
  <2>2. Part(h4, 0, I) = Part(h3, 0, I) /\ Part(h4, I, 2 * I) = Part(h3, I, 2 * I)
    BY <1>1, <1>3, <1>7, <2>1, PartLeft
  <2> QED
    BY <1>8, <2>2
<1> HIDE DEF h4
<1>11. /\ h5 \in Seq(Byte) /\ Len(h5) = 3 * I + lg + pw
       /\ \A i \in 1 .. 3 * I + lg + pw : h5[i] = IF i <= 3 * I + lg THEN h4[i] ELSE l2[i - (3 * I + lg)]
  <2>1. /\ h5 \in Seq(Byte) /\ Len(h5) = Len(h4) + Len(l2)
        /\ \A i \in 1 .. Len(h4) + Len(l2) : h5[i] = IF i <= Len(h4) THEN h4[i] ELSE l2[i - Len(h4)]
    BY <1>3, <1>9, Concatenated, ZenonT(60)
  <2> QED
    BY <1>3, <1>9, <2>1
<1>12. Part(h5, 0, I) = a0 /\ Part(h5, I, 2 * I) = a1
  <2>1. 0 \in Nat /\ 0 <= I /\ I <= Len(h4) /\ I <= 2 * I /\ 2 * I <= Len(h4) /\ 2 * I \in Nat
    BY <1>1, <1>9
  <2>2. Part(h5, 0, I) = Part(h4, 0, I) /\ Part(h5, I, 2 * I) = Part(h4, I, 2 * I)
    BY <1>1, <1>3, <1>9, <2>1, PartLeft
  <2> QED
    BY <1>10, <2>2
<1> HIDE DEF h5
<1>13. /\ k \in Seq(Byte) /\ Len(k) = I + T /\ Part(k, 0, I) = k1
       /\ \A i \in 1 .. I + T : k[i] = IF i <= I THEN k1[i] ELSE k2[i - I]
  <2>1. /\ k \in Seq(Byte) /\ Len(k) = Len(k1) + Len(k2)
        /\ \A i \in 1 .. Len(k1) + Len(k2) : k[i] = IF i <= Len(k1) THEN k1[i] ELSE k2[i - Len(k1)]
    BY <1>2, <1>3, Concatenated, ZenonT(60)
  <2>2. Part(k, 0, Len(k1)) = k1
    BY <1>2, <1>3, PartsOf
  <2> QED
    BY <1>2, <1>3, <2>1, <2>2
<1> HIDE DEF k
<1> DEFINE H == 3 * I + lg + pw
<1>14. /\ h6 \in Seq(Byte) /\ Len(h6) = H + (I + T)
       /\ \A i \in 1 .. H + (I + T) : h6[i] = IF i <= H THEN h5[i] ELSE k[i - H]
  <2>1. /\ h6 \in Seq(Byte) /\ Len(h6) = Len(h5) + Len(k)
        /\ \A i \in 1 .. Len(h5) + Len(k) : h6[i] = IF i <= Len(h5) THEN h5[i] ELSE k[i - Len(h5)]
    BY <1>11, <1>13, Concatenated
  <2> QED
    BY <1>11, <1>13, <2>1
<1>15. Part(h6, 0, I) = a0 /\ Part(h6, I, 2 * I) = a1
  <2>1. 0 \in Nat /\ 0 <= I /\ I <= Len(h5) /\ I <= 2 * I /\ 2 * I <= Len(h5) /\ 2 * I \in Nat
    BY <1>1, <1>11
  <2>2. Part(h6, 0, I) = Part(h5, 0, I) /\ Part(h6, I, 2 * I) = Part(h5, I, 2 * I)
    BY <1>1, <1>11, <1>13, <2>1, PartLeft
  <2> QED
    BY <1>12, <2>2
<1>16. Part(h6, 0, H) = h5 /\ Part(h6, H, H + (I + T)) = k
  <2>1. Part(h6, 0, Len(h5)) = h5 /\ Part(h6, Len(h5), Len(h5) + Len(k)) = k
    BY <1>11, <1>13, PartsOf
  <2> QED
    BY <1>11, <1>13, <2>1
<1>17. Part(h6, H, H + I) = k1
  <2>1. PICK b \in Nat : b = H + (I + T)
    BY <1>1
  <2>2. Joined(k1, k2) = Part(h6, H, b)
    BY <1>16, <2>1 DEF k, Joined
  <2>3. H \in Nat /\ H <= b /\ b <= Len(h6)
    BY <1>1, <1>14, <2>1
  <2> HIDE DEF H, h6
  <2>5. PICK d \in Nat : d = H + Len(k1)
    BY <1>1, <1>2, <2>3
  <2>4. k1 = Part(h6, H, d)
    <3>1. h6 \in Seq(Byte) /\ k1 \in Seq(Byte) /\ k2 \in Seq(Byte)
      BY <1>2, <1>3, <1>14
    <3> QED
      BY <2>2, <2>3, <2>5, <3>1, PartsOfJoined
  <2> QED
    BY <1>2, <2>4, <2>5
<1> HIDE DEF h6
<1>18. ASSUME NEW i \in Nat, 3 * I < i, i <= H PROVE h6[i] = 49
  <2>1. i \in 1 .. H + (I + T) /\ i <= H /\ i \in 1 .. 3 * I + lg + pw
    BY <1>1, <1>18
  <2>2. h6[i] = h5[i]
    BY <1>14, <2>1
  <2>3. CASE i <= 3 * I + lg
    <3>1. i \in 1 .. 3 * I + lg /\ i - 3 * I \in 1 .. lg /\ ~(i <= 3 * I)
      BY <1>1, <1>18, <2>3
    <3> QED
      BY <1>3, <1>9, <1>11, <2>1, <2>2, <2>3, <3>1
  <2>4. CASE ~(i <= 3 * I + lg)
    <3>1. i - (3 * I + lg) \in 1 .. pw
      BY <1>1, <1>18, <2>4
    <3> QED
      BY <1>3, <1>11, <2>1, <2>2, <2>4, <3>1
  <2> QED
    BY <2>3, <2>4
<1>19. ASSUME NEW i \in Nat, H + I < i, i <= H + (I + T) PROVE h6[i] = 49
  <2>1. /\ i \in 1 .. H + (I + T) /\ ~(i <= H) /\ i - H \in 1 .. I + T /\ ~(i - H <= I)
        /\ (i - H) - I \in 1 .. T
    BY <1>1, <1>19
  <2>2. h6[i] = k[i - H] /\ k[i - H] = k2[(i - H) - I]
    BY <1>13, <1>14, <2>1
  <2> QED
    BY <1>3, <2>1, <2>2
<1>20. HelloSize(c) = H /\ CallsSize(c) = H + (I + T)
  BY <1>1, <1>5
<1>21. Len(h5) = H
  BY <1>11
<1> HIDE DEF H
<1>22. Part(Calls(c), 0, HelloSize(c)) = Hello(c) /\ Part(Calls(c), HelloSize(c), CallsSize(c)) = Check
  BY <1>4, <1>16, <1>20
<1>23. \A i \in Nat : 3 * IntSize < i /\ i <= HelloSize(c) => Calls(c)[i] = 49
  BY <1>4, <1>18, <1>20 DEF I
<1>24. \A i \in Nat : HelloSize(c) + IntSize < i /\ i <= CallsSize(c) => Calls(c)[i] = 49
  BY <1>4, <1>19, <1>20 DEF I
<1>25. /\ Part(Calls(c), 0, IntSize) = AsInt(0) /\ Part(Calls(c), IntSize, 2 * IntSize) = AsInt(c.lg)
       /\ Part(Calls(c), HelloSize(c), HelloSize(c) + IntSize) = AsInt(1)
  BY <1>4, <1>15, <1>17, <1>20 DEF a0, a1, k1, I
<1>26. /\ Hello(c) \in Bytes /\ Len(Hello(c)) = HelloSize(c)
       /\ Calls(c) \in Bytes /\ Len(Calls(c)) = CallsSize(c)
  BY <1>4, <1>11, <1>14, <1>20, <1>21 DEF Bytes
<1>27. Check \in Bytes /\ Len(Check) = IntSize + TokenSize
  BY <1>4, <1>13 DEF Bytes, I, T
<1> QED
  BY <1>22, <1>23, <1>24, <1>25, <1>26, <1>27

\* Where every part of the replies is.
LEMMA RepliesAre ==
  /\ Replies \in Bytes /\ Len(Replies) = RepliesSize
  /\ Part(Replies, 0, TokenSize) = Letters(TokenSize)
  /\ Part(Replies, TokenSize, TokenSize + 1) = <<1>>
  /\ Part(Replies, TokenSize + 1, TokenSize + 1 + IntSize) = AsInt(1)
  /\ Part(Replies, TokenSize + 1 + IntSize, TokenSize + 1 + 2 * IntSize) = AsInt(TextSize + 1)
  /\ Part(Replies, TokenSize + 1 + 2 * IntSize, RepliesSize) = Letters(TextSize)
<1> DEFINE a1 == Letters(TokenSize)
           a2 == <<1>>
           a3 == AsInt(1)
           a4 == AsInt(TextSize + 1)
           a5 == Letters(TextSize)
           h2 == a1 \o a2
           h3 == h2 \o a3
           h4 == h3 \o a4
           h5 == h4 \o a5
           I == IntSize
           T == TokenSize
           X == TextSize
<1>1. I \in Nat /\ T \in Nat /\ X \in Nat
  BY SizesAre
<1>2. /\ a1 \in Seq(Byte) /\ Len(a1) = T /\ a5 \in Seq(Byte) /\ Len(a5) = X
      /\ a2 \in Seq(Byte) /\ Len(a2) = 1
  <2>1. a1 \in Seq(Byte) /\ Len(a1) = T /\ a5 \in Seq(Byte) /\ Len(a5) = X
    BY <1>1, LettersAre DEF Bytes
  <2>2. a2 \in Seq(Byte) /\ Len(a2) = 1
    BY DEF Byte
  <2> QED
    BY <2>1, <2>2
<1>3. a3 \in Seq(Byte) /\ Len(a3) = I /\ a4 \in Seq(Byte) /\ Len(a4) = I
  <2>1. 1 \in Ints(IntSize) /\ TextSize + 1 \in Ints(IntSize)
    BY CommandsFit, MailAssumption
  <2> QED
    BY <2>1, AsIntIs DEF Bytes
<1>4. Replies = h5 /\ RepliesSize = T + 1 + 2 * I + X
  BY DEF Replies, RepliesSize
<1> HIDE DEF a1, a2, a3, a4, a5, I, T, X
<1>5. h2 \in Seq(Byte) /\ Len(h2) = T + 1 /\ Part(h2, 0, T) = a1 /\ Part(h2, T, T + 1) = a2
  <2>1. h2 \in Seq(Byte) /\ Len(h2) = Len(a1) + Len(a2)
    BY <1>2, Concatenated
  <2>2. Part(h2, 0, Len(a1)) = a1 /\ Part(h2, Len(a1), Len(a1) + Len(a2)) = a2
    BY <1>2, PartsOf
  <2> QED
    BY <1>2, <2>1, <2>2
<1> HIDE DEF h2
<1>6. /\ h3 \in Seq(Byte) /\ Len(h3) = T + 1 + I
      /\ Part(h3, T + 1, T + 1 + I) = a3
  <2>1. h3 \in Seq(Byte) /\ Len(h3) = Len(h2) + Len(a3)
    BY <1>3, <1>5, Concatenated
  <2>2. Part(h3, Len(h2), Len(h2) + Len(a3)) = a3
    BY <1>3, <1>5, PartsOf
  <2> QED
    BY <1>3, <1>5, <2>1, <2>2
<1>7. Part(h3, 0, T) = a1 /\ Part(h3, T, T + 1) = a2
  <2>1. 0 \in Nat /\ 0 <= T /\ T <= Len(h2) /\ T <= T + 1 /\ T + 1 <= Len(h2) /\ T + 1 \in Nat
    BY <1>1, <1>5
  <2>2. Part(h3, 0, T) = Part(h2, 0, T) /\ Part(h3, T, T + 1) = Part(h2, T, T + 1)
    BY <1>1, <1>3, <1>5, <2>1, PartLeft
  <2> QED
    BY <1>5, <2>2
<1> HIDE DEF h3
<1>8. /\ h4 \in Seq(Byte) /\ Len(h4) = T + 1 + I + I
      /\ Part(h4, T + 1 + I, T + 1 + I + I) = a4
  <2>1. h4 \in Seq(Byte) /\ Len(h4) = Len(h3) + Len(a4)
    BY <1>3, <1>6, Concatenated
  <2>2. Part(h4, Len(h3), Len(h3) + Len(a4)) = a4
    BY <1>3, <1>6, PartsOf
  <2> QED
    BY <1>3, <1>6, <2>1, <2>2
<1>9. Part(h4, 0, T) = a1 /\ Part(h4, T, T + 1) = a2 /\ Part(h4, T + 1, T + 1 + I) = a3
  <2>1. /\ 0 \in Nat /\ 0 <= T /\ T <= Len(h3) /\ T <= T + 1 /\ T + 1 <= Len(h3) /\ T + 1 \in Nat
        /\ T + 1 <= T + 1 + I /\ T + 1 + I <= Len(h3) /\ T + 1 + I \in Nat
    BY <1>1, <1>6
  <2>2. /\ Part(h4, 0, T) = Part(h3, 0, T) /\ Part(h4, T, T + 1) = Part(h3, T, T + 1)
        /\ Part(h4, T + 1, T + 1 + I) = Part(h3, T + 1, T + 1 + I)
    BY <1>1, <1>3, <1>6, <2>1, PartLeft
  <2> QED
    BY <1>6, <1>7, <2>2
<1> HIDE DEF h4
<1>10. /\ h5 \in Seq(Byte) /\ Len(h5) = T + 1 + I + I + X
       /\ Part(h5, T + 1 + I + I, T + 1 + I + I + X) = a5
  <2>1. h5 \in Seq(Byte) /\ Len(h5) = Len(h4) + Len(a5)
    BY <1>2, <1>8, Concatenated
  <2>2. Part(h5, Len(h4), Len(h4) + Len(a5)) = a5
    BY <1>2, <1>8, PartsOf
  <2> QED
    BY <1>2, <1>8, <2>1, <2>2
<1>11. /\ Part(h5, 0, T) = a1 /\ Part(h5, T, T + 1) = a2 /\ Part(h5, T + 1, T + 1 + I) = a3
       /\ Part(h5, T + 1 + I, T + 1 + I + I) = a4
  <2>1. /\ 0 \in Nat /\ 0 <= T /\ T <= Len(h4) /\ T <= T + 1 /\ T + 1 <= Len(h4) /\ T + 1 \in Nat
        /\ T + 1 <= T + 1 + I /\ T + 1 + I <= Len(h4) /\ T + 1 + I \in Nat
        /\ T + 1 + I <= T + 1 + I + I /\ T + 1 + I + I <= Len(h4) /\ T + 1 + I + I \in Nat
    BY <1>1, <1>8
  <2>2. /\ Part(h5, 0, T) = Part(h4, 0, T) /\ Part(h5, T, T + 1) = Part(h4, T, T + 1)
        /\ Part(h5, T + 1, T + 1 + I) = Part(h4, T + 1, T + 1 + I)
        /\ Part(h5, T + 1 + I, T + 1 + I + I) = Part(h4, T + 1 + I, T + 1 + I + I)
    BY <1>1, <1>2, <1>8, <2>1, PartLeft
  <2> QED
    BY <1>8, <1>9, <2>2
<1> HIDE DEF h5
<1>12. T + 1 + I + I = T + 1 + 2 * I
  BY <1>1
<1> QED
  BY <1>4, <1>10, <1>11, <1>12 DEF Bytes, a1, a2, a3, a4, a5, I, T, X

\* A letter in what is read as a command makes it none.
LEMMA NoCommand ==
  ASSUME NEW bytes \in Bytes, Len(bytes) = IntSize, NEW i \in 1 .. IntSize, bytes[i] = 49
  PROVE  Switch(Value(bytes)) = "command"
<1>1. i \in 1 .. Len(bytes) /\ i <= 4
  BY MailAssumption
<1>2. Value(bytes) \in Nat /\ Value(bytes) >= 49
  BY <1>1, ValueBounds
<1> QED
  BY <1>2 DEF Switch, SIGNIN, CHECKINCOMINGMESSAGES, DELETEINCOMINGMESSAGE, SIGNOUT

\* The commands of a client, as the thread reads them.
LEMMA CommandIs ==
  /\ Switch(Value(AsInt(0))) = "lgSize" /\ Switch(Value(AsInt(1))) = "token"
  /\ Value(AsInt(1)) = 1
<1>1. 0 \in Ints(IntSize) /\ 1 \in Ints(IntSize)
  BY CommandsFit
<1>2. Value(AsInt(0)) = 0 /\ Value(AsInt(1)) = 1
  BY <1>1, AsIntIs
<1> QED
  BY <1>2 DEF Switch, SIGNIN, CHECKINCOMINGMESSAGES, DELETEINCOMINGMESSAGE, SIGNOUT

\* What the first client has sent.
LEMMA CalledIs ==
  ASSUME TypeInv, 1 \in Conns
  PROVE  /\ typed[1] \in Credential /\ Called \in Nat /\ Called <= CallsSize(typed[1])
         /\ HelloSize(typed[1]) \in Nat /\ CallsSize(typed[1]) \in Nat
         /\ HelloSize(typed[1]) <= Called
<1>1. typed[1] \in Credential
  BY TypedIs
<1> QED
  BY <1>1, CredentialIs, SizesAre DEF Called

\* The bytes the thread has received are the next of the calls: it moves on with them.
LEMMA Used ==
  ASSUME TypeInv, 1 \in Conns, accepted = 1, pc[1] \in Receiving, UNCHANGED <<accepted, typed>>,
         NEW r \in Nat, NEW q \in 0 .. RepliesSize, Position(r, q),
         NEW n \in Nat, n = Need(1), r + n <= Called,
         NEW bytes \in Bytes, bytes = Part(Calls(typed[1]), r, r + n), Proceed(1, bytes)
  PROVE  Position(r + n, q)'
<1> DEFINE c == typed[1]
           I == IntSize
           H == HelloSize(c)
           G == Calls(c)
<1>1. c \in Credential /\ r + n <= CallsSize(c) /\ typed'[1] = c
  BY CalledIs
<1> HIDE DEF c
<1>2. /\ c.lg \in Nat /\ c.pw \in Nat /\ H \in Nat /\ H = 3 * I + c.lg + c.pw
      /\ CallsSize(c) = H + I + TokenSize /\ I \in Nat /\ I > 0 /\ TokenSize \in Nat
  BY <1>1, CredentialIs, SizesAre DEF HelloSize, CallsSize
<1>3. /\ G \in Bytes /\ Len(G) = CallsSize(c)
      /\ Part(G, 0, I) = AsInt(0) /\ Part(G, I, 2 * I) = AsInt(c.lg) /\ Part(G, H, H + I) = AsInt(1)
      /\ \A i \in Nat : 3 * I < i /\ i <= H => G[i] = 49
      /\ \A i \in Nat : H + I < i /\ i <= CallsSize(c) => G[i] = 49
  BY <1>1, CallsAre
<1> HIDE DEF H, G, I
<1>4. Len(bytes) = n /\ \A i \in 1 .. n : bytes[i] = G[r + i]
  <2> DEFINE x == r + n
  <2>1. G \in Seq(Byte) /\ x \in Nat /\ r <= x /\ x <= Len(G) /\ x - r = n
    <3>1. G \in Seq(Byte) /\ Len(G) = CallsSize(c)
      BY <1>3 DEF Bytes
    <3>2. x \in Nat /\ r <= x /\ x <= CallsSize(c) /\ x - r = n
      BY <1>1
    <3> QED
      BY <3>1, <3>2
  <2> HIDE DEF x
  <2>2. Len(Part(G, r, x)) = x - r /\ \A i \in 1 .. x - r : Part(G, r, x)[i] = G[r + i]
    BY <2>1, PartIs
  <2>3. bytes = Part(G, r, x)
    BY DEF x, G, c
  <2> QED
    BY <2>1, <2>2, <2>3
<1>5. bytes = Part(G, r, r + n)
  BY DEF c, G
<1>6. pc \in [Conns -> ThreadPCs] /\ lgSize \in [Conns -> Nat] /\ cmd \in [Conns -> [1 .. I -> Byte]]
  BY DEF TypeInv, ThreadTypes, I
<1>7. CASE pc[1] = "command"
  <2>1. n = I /\ cmd'[1] = bytes /\ pc'[1] = Switch(Value(bytes))
    BY <1>6, <1>7 DEF Need, Proceed, I
  <2>2. CASE r = 0 /\ q = 0
    <3>1. bytes = AsInt(0) /\ r + n = I
      BY <1>2, <1>3, <1>5, <2>1, <2>2
    <3>2. pc'[1] = "lgSize"
      BY <2>1, <3>1, CommandIs
    <3> QED
      BY <2>2, <3>1, <3>2 DEF Position, I
  <2>3. CASE q = TokenSize /\ 3 * I + 2 * c.lg <= r /\ (c.lg = c.pw => r = H)
    <3>1. CASE r = H
      <4>1. bytes = AsInt(1) /\ r + n = H + I
        BY <1>3, <1>5, <2>1, <3>1
      <4>2. pc'[1] = "token"
        BY <2>1, <4>1, CommandIs
      <4> QED
        BY <1>1, <2>1, <2>3, <4>1, <4>2 DEF Position, I, H
    <3>2. CASE r # H
      <4>1. PICK i \in 1 .. I : bytes[i] = 49
        <5>1. CASE r < H
          <6>1. 1 \in 1 .. I /\ r + 1 \in Nat /\ 3 * I < r + 1 /\ r + 1 <= H
            BY <1>2, <2>3, <5>1
          <6> QED
            BY <1>3, <1>4, <2>1, <6>1
        <5>2. CASE r > H
          <6>1. I \in 1 .. I /\ r + I \in Nat /\ H + I < r + I /\ r + I <= CallsSize(c)
            BY <1>1, <1>2, <2>1, <5>2
          <6> QED
            BY <1>3, <1>4, <2>1, <6>1
        <5> QED
          BY <1>2, <3>2, <5>1, <5>2
      <4>2. pc'[1] = "command"
        <5>1. Len(bytes) = IntSize /\ i \in 1 .. IntSize
          BY <1>4, <2>1 DEF I
        <5> QED
          BY <2>1, <4>1, <5>1, NoCommand
      <4>3. 3 * I + 2 * c.lg <= r + n
        BY <1>2, <2>3
      <4> QED
        BY <1>1, <2>3, <3>2, <4>2, <4>3 DEF Position, I
    <3> QED
      BY <3>1, <3>2
  <2>4. CASE q = RepliesSize /\ r = CallsSize(c)
    BY <1>1, <1>2, <2>1, <2>4
  <2> QED
    BY <1>7, <2>2, <2>3, <2>4 DEF Position, c, I, H
<1>8. CASE pc[1] = "lgSize"
  <2>1. n = I /\ pc'[1] = "pwSize" /\ lgSize'[1] = Value(bytes) /\ r = I /\ q = 0
    BY <1>6, <1>8 DEF Need, Proceed, I, Position
  <2>2. r + n = 2 * I /\ bytes = AsInt(c.lg)
    BY <1>2, <1>3, <1>5, <2>1
  <2>3. lgSize'[1] = c.lg
    <3>1. c.lg \in Ints(IntSize)
      BY <1>1, CredentialIs
    <3> QED
      BY <2>1, <2>2, <3>1, AsIntIs
  <2> QED
    BY <1>1, <2>1, <2>2, <2>3 DEF Position, I
<1>9. CASE pc[1] = "pwSize"
  <2>1. n = I /\ pc'[1] = "login" /\ lgSize'[1] = lgSize[1] /\ r = 2 * I /\ q = 0 /\ lgSize[1] = c.lg
    BY <1>6, <1>9 DEF Need, Proceed, I, Position, c
  <2>2. r + n = 3 * I
    BY <1>2, <2>1
  <2> QED
    BY <1>1, <2>1, <2>2 DEF Position, I
<1>10. CASE pc[1] = "login"
  <2>1. n = c.lg /\ pc'[1] = "password" /\ lgSize'[1] = lgSize[1] /\ r = 3 * I /\ q = 0 /\ lgSize[1] = c.lg
    BY <1>6, <1>10 DEF Need, Proceed, I, Position, c
  <2> QED
    BY <1>1, <2>1 DEF Position, I
<1>11. CASE pc[1] = "password"
  <2>1. n = c.lg /\ pc'[1] = "signedIn" /\ r = 3 * I + c.lg /\ q = 0
    BY <1>6, <1>11 DEF Need, Proceed, I, Position, c
  <2>2. r + n = 3 * I + 2 * c.lg
    BY <1>2, <2>1
  <2> QED
    BY <1>1, <2>1, <2>2 DEF Position, I
<1>12. CASE pc[1] = "token"
  <2>1. n = TokenSize /\ pc'[1] = "answer" /\ cmd' = cmd /\ r = H + I /\ q = TokenSize /\ cmd[1] = AsInt(1)
    BY <1>6, <1>12 DEF Need, Proceed, I, H, Position, c
  <2>2. r + n = CallsSize(c)
    BY <1>2, <2>1
  <2> QED
    BY <1>1, <2>1, <2>2 DEF Position
<1>13. CASE pc[1] = "number"
  BY <1>13 DEF Position
<1> QED
  BY <1>7, <1>8, <1>9, <1>10, <1>11, <1>12, <1>13 DEF Receiving

\* What the thread sends is the next of the replies.
LEMMA Replied ==
  ASSUME TypeInv, 1 \in Conns, accepted = 1, pc[1] \in Sending, UNCHANGED <<accepted, typed, cmd>>,
         NEW r \in Nat, NEW q \in Nat, Position(r, q), pc' = [pc EXCEPT ![1] = Sent(1)]
  PROVE  \E x \in 0 .. RepliesSize : q <= x /\ Reply(1) = Part(Replies, q, x) /\ Position(r, x)'
<1> DEFINE c == typed[1]
           T == TokenSize
           I == IntSize
<1>1. c \in Credential /\ typed'[1] = c
  BY CalledIs
<1> HIDE DEF c
<1>2. T \in Nat /\ I \in Nat /\ TextSize \in Nat /\ RepliesSize = T + 1 + 2 * I + TextSize /\ RepliesSize \in Nat
  BY SizesAre DEF RepliesSize
<1>3. /\ Part(Replies, 0, T) = Letters(T) /\ Part(Replies, T, T + 1) = <<1>>
      /\ Part(Replies, T + 1, T + 1 + I) = AsInt(1)
      /\ Part(Replies, T + 1 + I, T + 1 + 2 * I) = AsInt(TextSize + 1)
      /\ Part(Replies, T + 1 + 2 * I, RepliesSize) = Letters(TextSize)
  BY RepliesAre
<1>4. pc'[1] = Sent(1)
  BY DEF TypeInv, ThreadTypes
<1> HIDE DEF T, I
<1>5. CASE pc[1] = "signedIn"
  <2>1. q = 0 /\ r = 3 * I + 2 * c.lg /\ Reply(1) = Letters(T) /\ pc'[1] = "command"
    BY <1>4, <1>5 DEF Position, Reply, Sent, c, T, I
  <2>2. c.lg = c.pw => r = HelloSize(c)
    BY <1>1, <1>2, <2>1, CredentialIs DEF HelloSize, I
  <2>3. c.lg \in Nat /\ 3 * I + 2 * c.lg <= r
    BY <1>1, <1>2, <2>1, CredentialIs
  <2>4. Position(r, T)'
    BY <1>1, <2>1, <2>2, <2>3 DEF Position, T, I
  <2>5. T \in 0 .. RepliesSize /\ q <= T
    BY <1>2, <2>1
  <2> QED
    BY <1>3, <2>1, <2>4, <2>5
<1>6. CASE pc[1] = "answer"
  <2>1. q = T /\ r = CallsSize(c) /\ Reply(1) = <<1>> /\ cmd[1] = AsInt(1)
    BY <1>6 DEF Position, Reply, c, T
  <2>2. pc'[1] = "count"
    <3>1. Value(cmd[1]) = 1
      BY <2>1, CommandIs
    <3>2. Sent(1) = CASE Value(cmd[1]) = 1 -> "count"
                      [] Value(cmd[1]) = 2 -> "number"
                      [] OTHER -> "command"
      BY <1>6, Zenon DEF Sent, CHECKINCOMINGMESSAGES, DELETEINCOMINGMESSAGE
    <3>3. Sent(1) = "count"
      BY <3>1, <3>2
    <3> QED
      BY <1>4, <3>3
  <2>3. Position(r, T + 1)'
    BY <1>1, <2>1, <2>2 DEF Position, T
  <2>4. T + 1 \in 0 .. RepliesSize /\ q <= T + 1
    BY <1>2, <2>1
  <2> QED
    BY <1>3, <2>1, <2>3, <2>4
<1>7. CASE pc[1] = "count"
  <2>1. q = T + 1 /\ r = CallsSize(c) /\ Reply(1) = AsInt(1) /\ pc'[1] = "size"
    BY <1>4, <1>7 DEF Position, Reply, Sent, c, T
  <2>2. Position(r, T + 1 + I)'
    BY <1>1, <2>1 DEF Position, T, I
  <2>3. T + 1 + I \in 0 .. RepliesSize /\ q <= T + 1 + I
    BY <1>2, <2>1
  <2> QED
    BY <1>3, <2>1, <2>2, <2>3
<1>8. CASE pc[1] = "size"
  <2>1. q = T + 1 + I /\ r = CallsSize(c) /\ Reply(1) = AsInt(TextSize + 1) /\ pc'[1] = "text"
    BY <1>4, <1>8 DEF Position, Reply, Sent, c, T, I
  <2>2. Position(r, T + 1 + 2 * I)'
    BY <1>1, <2>1 DEF Position, T, I
  <2>3. T + 1 + 2 * I \in 0 .. RepliesSize /\ q <= T + 1 + 2 * I
    BY <1>2, <2>1
  <2> QED
    BY <1>3, <2>1, <2>2, <2>3
<1>9. CASE pc[1] = "text"
  <2>1. q = T + 1 + 2 * I /\ r = CallsSize(c) /\ Reply(1) = Letters(TextSize) /\ pc'[1] = "command"
    BY <1>4, <1>9 DEF Position, Reply, Sent, c, T, I
  <2>2. Position(r, RepliesSize)'
    BY <1>1, <2>1 DEF Position
  <2>3. RepliesSize \in 0 .. RepliesSize /\ q <= RepliesSize
    BY <1>2, <2>1
  <2> QED
    BY <1>3, <2>1, <2>2, <2>3
<1> QED
  BY <1>5, <1>6, <1>7, <1>8, <1>9 DEF Sending

\* What is said of the first client holds after a step that changes nothing of it,
\* except that the server may stop accepting or end.
LEMMA FirstUnmoved ==
  ASSUME FirstAlone, cli'[1] = cli[1], s2c'[1] = s2c[1], typed'[1] = typed[1], job'[1] = job[1],
         size'[1] = size[1], shown'[1] = shown[1],
         main = "ended" => main' = "ended",
         main' = "accept" =>
           /\ main = "accept" /\ accepted' = accepted /\ pc'[1] = pc[1] /\ lgSize'[1] = lgSize[1]
           /\ cmd'[1] = cmd[1] /\ Joined(buf[1], c2s[1])' = Joined(buf[1], c2s[1])
  PROVE  FirstAlone'
<1>1. ASSUME cli[1] \in Waiting, Conversation PROVE Conversation'
  <2>1. PICK r \in 0 .. CallsSize(typed[1]), q \in 0 .. RepliesSize :
           ClientAt(q) /\ (main = "accept" => ServerAt(r, q))
    BY <1>1 DEF Conversation
  <2>2. Called' = Called /\ Taken' = Taken
    BY <1>1 DEF Called, Taken, Waiting
  <2>3. ClientAt(q)'
    BY <2>1, <2>2 DEF ClientAt
  <2>4. main' = "accept" => ServerAt(r, q)'
    <3>1. ASSUME main' = "accept" PROVE ServerAt(r, q)'
      <4>1. ServerAt(r, q)
        BY <2>1, <3>1
      <4>2. Position(r, q)'
        <5>1. Position(r, q)
          BY <4>1 DEF ServerAt
        <5> QED
          BY <3>1, <5>1 DEF Position
      <4> QED
        BY <2>2, <3>1, <4>1, <4>2 DEF ServerAt
    <3> QED
      BY <3>1
  <2>5. CallsSize(typed[1])' = CallsSize(typed[1])
    BY DEF CallsSize, HelloSize
  <2> QED
    BY <2>1, <2>3, <2>4, <2>5 DEF Conversation
<1> QED
  BY <1>1 DEF FirstAlone

\* Only the thread of an accepted connection runs.
LEMMA OnlyThread ==
  ASSUME TypeInv, accepted <= 1, NEW k \in Conns, ThreadStep(k)
  PROVE  k = 1 /\ accepted = 1
<1>1. pc[k] \in Receiving \cup Sending
  BY DEF ThreadStep, Call, Receive, ReceiveNothing, ReceiveFails, Send, SendFails, TypeInv, ThreadFits
<1> QED
  BY <1>1, Runs, Numbers

\* Three sequences, joined.
LEMMA Assoc ==
  ASSUME NEW S, NEW x \in Seq(S), NEW y \in Seq(S), NEW z \in Seq(S)
  PROVE  Joined(Joined(x, y), z) = Joined(x, Joined(y, z))
  BY DEF Joined

\* Receiving moves bytes that were in flight into the buffer.
LEMMA Moved ==
  ASSUME TypeInv, NEW k \in Conns, on[k] = k, NEW n \in 1 .. Len(c2s[k])
  PROVE  /\ Got(k, n) \in Bytes
         /\ SubSeq(c2s[k], n + 1, Len(c2s[k])) \in Bytes
         /\ Joined(Got(k, n), SubSeq(c2s[k], n + 1, Len(c2s[k]))) = Joined(buf[k], c2s[k])
<1> DEFINE q == c2s[k]
           rest == SubSeq(q, n + 1, Len(q))
<1>1. /\ Got(k, n) \in Bytes /\ rest \in Bytes /\ q \in Bytes /\ buf[k] \in Bytes
      /\ Got(k, n) = buf[k] \o Part(q, 0, n)
  <2>1. on[k] # 0 /\ n \in 1 .. Len(c2s[on[k]])
    BY Numbers
  <2> QED
    BY <2>1, Pieces
<1>2. PICK len \in Nat : len = Len(q) /\ n <= len /\ n \in Nat
  BY <1>1 DEF Bytes
<1>3. rest = Part(q, n, len)
  BY <1>2 DEF Part
<1> HIDE DEF q, rest
<1>4. PICK front \in Seq(Byte) : front = Part(q, 0, n)
  BY <1>1, <1>2, PartIs DEF Bytes
<1>5. front \o rest = q
  <2>1. PICK z \in Nat : z = 0
    OBVIOUS
  <2>2. q \in Seq(Byte) /\ len <= Len(q) /\ z <= n
    BY <1>1, <1>2, <2>1 DEF Bytes
  <2>3. Part(q, z, n) \o Part(q, n, len) = Part(q, z, len)
    BY <1>2, <2>2, PartsJoin
  <2>4. Part(q, 0, Len(q)) = q
    BY <2>2, PartWhole
  <2> QED
    BY <1>2, <1>3, <1>4, <2>1, <2>3, <2>4
<1>6. Joined(Joined(buf[k], front), rest) = Joined(buf[k], Joined(front, rest))
  <2>1. buf[k] \in Seq(Byte) /\ rest \in Seq(Byte)
    BY <1>1 DEF Bytes
  <2> QED
    BY <2>1, Assoc
<1>7. Got(k, n) = Joined(buf[k], front) /\ Joined(front, rest) = q
  BY <1>1, <1>4, <1>5 DEF Joined
<1> QED
  BY <1>1, <1>6, <1>7 DEF q, rest

\* Nothing joined to a sequence.
LEMMA JoinedEmpty ==
  ASSUME NEW t \in Bytes
  PROVE  Joined(<<>>, t) = t
  BY DEF Joined, Bytes

\* The thread of the first client receives.
LEMMA FirstReceives ==
  ASSUME TypeInv, 1 \in Conns, accepted = 1, main = "accept", FirstAlone, cli[1] \in Waiting, Receive(1)
  PROVE  FirstAlone'
<1>1. on[1] = 1 /\ pc[1] \in Receiving
  BY Numbers DEF Receive, TypeInv, ThreadTypes, ThreadFits
<1>2. PICK n \in 1 .. Len(c2s[1]) :
         /\ Len(Got(1, n)) <= Need(1)
         /\ c2s' = [c2s EXCEPT ![1] = SubSeq(@, n + 1, Len(@))]
         /\ IF Len(Got(1, n)) = Need(1)
              THEN Proceed(1, Got(1, n))
              ELSE buf' = [buf EXCEPT ![1] = Got(1, n)] /\ UNCHANGED <<pc, cmd, lgSize, pwSize>>
  BY <1>1 DEF Receive
<1> DEFINE got == Got(1, n)
           rest == SubSeq(c2s[1], n + 1, Len(c2s[1]))
<1>3. /\ got \in Bytes /\ rest \in Bytes
      /\ Joined(got, rest) = Joined(buf[1], c2s[1])
  BY <1>1, Moved
<1>4. c2s'[1] = rest
  BY <1>2 DEF TypeInv, NetTypes
<1>5. UNCHANGED <<mainVars, s2c, clientVars>>
  BY DEF Receive
<1>6. IF Len(got) = Need(1)
        THEN Proceed(1, got)
        ELSE buf' = [buf EXCEPT ![1] = got] /\ UNCHANGED <<pc, cmd, lgSize, pwSize>>
  BY <1>2
<1> HIDE DEF got, rest
<1>7. CASE Len(got) # Need(1)
  <2>1. buf'[1] = got /\ UNCHANGED <<pc, cmd, lgSize, pwSize>>
    BY <1>6, <1>7 DEF TypeInv, ThreadTypes
  <2>2. Joined(buf[1], c2s[1])' = Joined(buf[1], c2s[1])
    BY <1>3, <1>4, <2>1
  <2> QED
    BY <1>5, <2>1, <2>2, FirstUnmoved DEF mainVars, clientVars
<1>8. CASE Len(got) = Need(1)
  <2>1. PICK r \in 0 .. CallsSize(typed[1]), q \in 0 .. RepliesSize : ClientAt(q) /\ ServerAt(r, q)
    BY DEF FirstAlone, Conversation
  <2>2. PICK m \in Nat : m = Need(1) /\ m = Len(got)
    BY <1>1, <1>8, Needs
  <2>3. r \in Nat /\ r <= Called /\ Called \in Nat /\ Joined(got, rest) = Part(Calls(typed[1]), r, Called)
        /\ Position(r, q)
    BY <1>3, <2>1, CalledIs DEF ServerAt
  <2>4. PICK d \in Nat : d = r + m /\ d = r + Len(got)
    BY <2>2, <2>3
  <2>5. d <= Called /\ got = Part(Calls(typed[1]), r, d) /\ rest = Part(Calls(typed[1]), d, Called)
    <3>1. got \in Seq(Byte) /\ rest \in Seq(Byte)
      BY <1>3 DEF Bytes
    <3>2. PICK G \in Seq(Byte) : G = Calls(typed[1]) /\ Called <= Len(G)
      BY CalledIs, CallsAre DEF Bytes
    <3>3. PICK w \in Nat : w = Called
      BY <2>3
    <3>4. r \in Nat /\ r <= w /\ w <= Len(G) /\ Joined(got, rest) = Part(G, r, w)
      BY <2>3, <3>2, <3>3
    <3>5. d <= w /\ got = Part(G, r, d) /\ rest = Part(G, d, w)
      <4>1. PICK s \in Seq(Byte), t \in Seq(Byte) : s = got /\ t = rest
        BY <3>1
      <4>2. d = r + Len(s) /\ Joined(s, t) = Part(G, r, w)
        BY <2>4, <3>4, <4>1
      <4>3. d \in Nat /\ r \in Nat /\ w \in Nat /\ r <= w /\ w <= Len(G) /\ G \in Seq(Byte)
        BY <2>4, <3>2, <3>3, <3>4
      <4>4. s \in Seq(Byte) /\ t \in Seq(Byte)
        BY <4>1
      <4>5. d <= w /\ s = Part(G, r, d) /\ t = Part(G, d, w)
        BY <4>2, <4>3, <4>4, PartsOfJoined
      <4> QED
        BY <4>1, <4>5
    <3> QED
      BY <3>2, <3>3, <3>5
  <2>6. Proceed(1, got)
    BY <1>6, <1>8
  <2>7. UNCHANGED <<accepted, typed, cli, job, size, shown, main, s2c>>
    BY <1>5 DEF mainVars, clientVars
  <2>8. Position(d, q)'
    BY <1>1, <1>3, <2>2, <2>3, <2>4, <2>5, <2>6, <2>7, Used
  <2>9. buf'[1] = <<>>
    BY <2>6 DEF Proceed, TypeInv, ThreadTypes
  <2>10. Called' = Called /\ Taken' = Taken /\ CallsSize(typed[1])' = CallsSize(typed[1])
    BY <2>7 DEF Called, Taken, CallsSize, HelloSize
  <2>11. ServerAt(d, q)'
    <3>1. Joined(buf[1], c2s[1])' = Part(Calls(typed[1]), d, Called)
      BY <1>3, <1>4, <2>5, <2>9, JoinedEmpty
    <3>2. Calls(typed[1])' = Calls(typed[1])
      BY <2>7
    <3> QED
      BY <2>5, <2>7, <2>8, <2>10, <3>1 DEF ServerAt
  <2>12. ClientAt(q)'
    BY <2>1, <2>7, <2>10 DEF ClientAt
  <2>13. d \in 0 .. CallsSize(typed[1])
    BY <2>3, <2>5, CalledIs
  <2>14. Conversation'
    BY <2>10, <2>11, <2>12, <2>13 DEF Conversation
  <2> QED
    BY <2>7, <2>14 DEF FirstAlone
<1> QED
  BY <1>7, <1>8

\* The thread of the first client goes on with nothing, or ends.
LEMMA FirstReceivesNothing ==
  ASSUME TypeInv, 1 \in Conns, accepted = 1, main = "accept", FirstAlone, cli[1] \in Waiting,
         ReceiveNothing(1)
  PROVE  FirstAlone'
<1>1. pc[1] \in Receiving /\ Need(1) = 0 /\ UNCHANGED <<mainVars, on, c2s, s2c, clientVars>>
  BY DEF ReceiveNothing
<1>2. PICK r \in 0 .. CallsSize(typed[1]), q \in 0 .. RepliesSize : ClientAt(q) /\ ServerAt(r, q)
  BY DEF FirstAlone, Conversation
<1>3. r \in Nat /\ r <= Called /\ Called \in Nat /\ Position(r, q)
      /\ Joined(buf[1], c2s[1]) = Part(Calls(typed[1]), r, Called)
  BY <1>2, CalledIs DEF ServerAt
<1>4. UNCHANGED <<accepted, typed, cli, job, size, shown, main, s2c, c2s>>
  BY <1>1 DEF mainVars, clientVars
<1>5. Called' = Called /\ Taken' = Taken /\ CallsSize(typed[1])' = CallsSize(typed[1])
  BY <1>4 DEF Called, Taken, CallsSize, HelloSize
<1>6. buf[1] = <<>>
  <2>1. buf[1] \in Seq(Byte) /\ Len(buf[1]) <= 0
    BY <1>1 DEF TypeInv, ThreadTypes, ThreadFits, Bytes
  <2> QED
    BY <2>1
<1>7. CASE Proceed(1, <<>>)
  <2>1. PICK m \in Nat : m = 0 /\ m = Need(1)
    BY <1>1
  <2>2. r + m = r
    BY <1>3, <2>1
  <2>3. <<>> \in Bytes /\ <<>> = Part(Calls(typed[1]), r, r + m)
    <3>1. Part(Calls(typed[1]), r, r) \in Seq(Byte) /\ Len(Part(Calls(typed[1]), r, r)) = 0
      <4>1. Calls(typed[1]) \in Seq(Byte) /\ r <= Len(Calls(typed[1])) /\ r <= r /\ r - r = 0
        BY <1>3, CalledIs, CallsAre DEF Bytes
      <4> QED
        BY <1>3, <4>1, PartIs
    <3> QED
      BY <2>2, <3>1 DEF Bytes
  <2>4. Position(r + m, q)'
    BY <1>1, <1>3, <1>4, <1>7, <2>1, <2>2, <2>3, Used
  <2>5. buf'[1] = <<>>
    BY <1>7 DEF Proceed, TypeInv, ThreadTypes
  <2>6. ServerAt(r, q)'
    BY <1>3, <1>4, <1>5, <1>6, <2>2, <2>4, <2>5 DEF ServerAt
  <2>7. ClientAt(q)'
    BY <1>2, <1>4, <1>5 DEF ClientAt
  <2> QED
    BY <1>2, <1>4, <1>5, <2>6, <2>7 DEF FirstAlone, Conversation
<1>8. CASE End(1)
  <2>1. buf'[1] = <<>> /\ pc'[1] = "ended"
    BY <1>8 DEF End, TypeInv, ThreadTypes
  <2>2. typed[1].lg = 0
    <3>1. pc[1] \in {"login", "password"}
      BY <1>1, Needs
    <3> QED
      BY <1>1, <1>3, <3>1 DEF Need, Position
  <2>3. Position(r, q)'
    BY <1>4, <2>1, <2>2 DEF Position
  <2>4. ServerAt(r, q)'
    BY <1>3, <1>4, <1>5, <1>6, <2>1, <2>3 DEF ServerAt
  <2>5. ClientAt(q)'
    BY <1>2, <1>4, <1>5 DEF ClientAt
  <2> QED
    BY <1>2, <1>4, <1>5, <2>4, <2>5 DEF FirstAlone, Conversation
<1> QED
  BY <1>7, <1>8 DEF ReceiveNothing

\* The thread of the first client sends.
LEMMA FirstSends ==
  ASSUME TypeInv, 1 \in Conns, accepted = 1, main = "accept", FirstAlone, cli[1] \in Waiting, Send(1)
  PROVE  FirstAlone'
<1>1. /\ pc[1] \in Sending /\ pc' = [pc EXCEPT ![1] = Sent(1)]
      /\ UNCHANGED <<mainVars, on, buf, cmd, lgSize, pwSize, c2s, clientVars>>
  BY DEF Send
<1>2. serv(1) = 1 /\ cli[1] \notin {"abandoned", "gone"}
  BY DEF serv, Waiting
<1>3. s2c' = [s2c EXCEPT ![1] = @ \o Reply(1)]
  BY <1>2 DEF Send
<1>4. PICK r \in 0 .. CallsSize(typed[1]), q \in 0 .. RepliesSize : ClientAt(q) /\ ServerAt(r, q)
  BY DEF FirstAlone, Conversation
<1>5. UNCHANGED <<accepted, typed, cmd, cli, job, size, shown, main, c2s, buf>>
  BY <1>1 DEF mainVars, clientVars
<1>6. r \in Nat /\ q \in Nat /\ q <= RepliesSize /\ Position(r, q) /\ Taken <= q
      /\ s2c[1] = Part(Replies, Taken, q) /\ RepliesSize \in Nat
  BY <1>4, SizesAre DEF ServerAt, ClientAt, RepliesSize
<1>7. PICK x \in 0 .. RepliesSize : q <= x /\ Reply(1) = Part(Replies, q, x) /\ Position(r, x)'
  BY <1>1, <1>5, <1>6, Replied
<1>8. Called' = Called /\ Taken' = Taken /\ CallsSize(typed[1])' = CallsSize(typed[1])
  BY <1>5 DEF Called, Taken, CallsSize, HelloSize
<1>9. Taken \in Nat
  BY SizesAre DEF Taken, Waiting
<1>10. s2c'[1] = Part(Replies, Taken, x) /\ Taken <= x
  <2>1. s2c'[1] = Part(Replies, Taken, q) \o Part(Replies, q, x)
    BY <1>3, <1>6, <1>7 DEF TypeInv, NetTypes
  <2>2. Replies \in Seq(Byte) /\ x <= Len(Replies) /\ x \in Nat
    BY <1>6, RepliesAre DEF Bytes
  <2>3. Part(Replies, Taken, q) \o Part(Replies, q, x) = Part(Replies, Taken, x)
    BY <1>6, <1>7, <1>9, <2>2, PartsJoin
  <2> QED
    BY <1>6, <1>7, <1>9, <2>1, <2>2, <2>3
<1>11. ClientAt(x)'
  BY <1>4, <1>5, <1>8, <1>10 DEF ClientAt
<1>12. ServerAt(r, x)'
  BY <1>4, <1>5, <1>7, <1>8 DEF ServerAt
<1> QED
  BY <1>4, <1>5, <1>7, <1>8, <1>11, <1>12 DEF FirstAlone, Conversation

\* A step of the thread of the first client.
LEMMA FirstThread ==
  ASSUME TypeInv, 1 \in Conns, accepted = 1, FirstAlone, ThreadStep(1)
  PROVE  FirstAlone'
<1>1. /\ UNCHANGED <<main, accepted, cli, typed, job, size, shown>>
  BY DEF ThreadStep, Call, Receive, ReceiveNothing, ReceiveFails, Send, SendFails, mainVars, clientVars
<1>2. CASE main # "accept"
  <2>1. UNCHANGED s2c
    BY <1>2 DEF ThreadStep, Call, Receive, ReceiveNothing, ReceiveFails, Send, SendFails, serv
  <2> QED
    BY <1>1, <1>2, <2>1, FirstUnmoved
<1>3. CASE cli[1] \notin Waiting /\ main = "accept"
  BY <1>1, <1>3 DEF FirstAlone
<1>4. CASE cli[1] \in Waiting /\ main = "accept"
  <2>1. CASE Call(1)
    BY <1>1, <2>1, FirstUnmoved DEF Call, Joined
  <2>2. CASE ReceiveFails(1)
    <3>1. serv(1) = 1 /\ on[1] \in {0, 1} /\ cli[1] # "gone"
      BY <1>4, Numbers DEF serv, Waiting, TypeInv, ThreadTypes
    <3> QED
      BY <2>2, <3>1 DEF ReceiveFails, Broken
  <2>3. CASE SendFails(1)
    <3>1. serv(1) = 1 /\ cli[1] # "gone"
      BY <1>4 DEF serv, Waiting
    <3> QED
      BY <2>3, <3>1 DEF SendFails
  <2> QED
    BY <1>4, <2>1, <2>2, <2>3, FirstReceives, FirstReceivesNothing, FirstSends DEF ThreadStep
<1> QED
  BY <1>2, <1>3, <1>4

\* The front of a part, and the rest of it.
LEMMA PartTaken ==
  ASSUME NEW S, NEW G \in Seq(S), NEW a \in Nat, NEW q \in Nat, a <= q, q <= Len(G),
         NEW n \in Nat, n <= q - a, NEW d \in Nat, d = a + n
  PROVE  /\ d <= q
         /\ Part(Part(G, a, q), 0, n) = Part(G, a, d)
         /\ Part(Part(G, a, q), n, Len(Part(G, a, q))) = Part(G, d, q)
<1>1. PICK m \in Nat : m = q - a /\ a + m = q /\ n <= m
  OBVIOUS
<1>2. Len(Part(G, a, q)) = m
  BY <1>1, PartIs
<1>3. PICK z \in Nat : z = 0 /\ z <= n /\ a + z = a
  OBVIOUS
<1>4. Part(Part(G, a, q), z, n) = Part(G, a + z, a + n)
  BY <1>1, <1>3, PartOfPart
<1>5. Part(Part(G, a, q), n, m) = Part(G, a + n, a + m)
  BY <1>1, PartOfPart
<1> QED
  BY <1>1, <1>2, <1>3, <1>4, <1>5

\* What the first client takes are the next of the replies.
LEMMA Took ==
  ASSUME TypeInv, 1 \in Conns, Take(1), NEW q \in 0 .. RepliesSize, ClientAt(q),
         NEW d \in Nat, d = Taken + ClientNeed(1)
  PROVE  /\ d <= q /\ s2c'[1] = Part(Replies, d, q)
         /\ SubSeq(s2c[1], 1, ClientNeed(1)) = Part(Replies, Taken, d)
<1>1. /\ ClientNeed(1) \in Nat /\ ClientNeed(1) <= Len(s2c[1])
      /\ s2c'[1] = Part(s2c[1], ClientNeed(1), Len(s2c[1]))
      /\ cli[1] \in Waiting
  BY Takes
<1>2. PICK n \in Nat : n = ClientNeed(1)
  BY <1>1
<1>3. PICK a \in Nat : a = Taken
  BY <1>1, SizesAre DEF Taken, Waiting
<1>4. PICK G \in Seq(Byte) : G = Replies /\ Len(G) = RepliesSize
  BY RepliesAre DEF Bytes
<1>5. q \in Nat /\ a <= q /\ q <= Len(G) /\ s2c[1] = Part(G, a, q)
  BY <1>3, <1>4, SizesAre DEF ClientAt, RepliesSize
<1>6. Len(Part(G, a, q)) = q - a
  BY <1>3, <1>4, <1>5, PartIs
<1>7. n <= q - a /\ d = a + n
  BY <1>1, <1>2, <1>3, <1>5, <1>6
<1>8. /\ d <= q
      /\ Part(Part(G, a, q), 0, n) = Part(G, a, d)
      /\ Part(Part(G, a, q), n, Len(Part(G, a, q))) = Part(G, d, q)
  BY <1>2, <1>3, <1>4, <1>5, <1>7, PartTaken
<1>9. SubSeq(s2c[1], 1, ClientNeed(1)) = Part(s2c[1], 0, n)
  BY <1>2 DEF Part
<1> QED
  BY <1>1, <1>2, <1>3, <1>4, <1>5, <1>8, <1>9

\* The position of the thread does not depend on what the client waits for.
LEMMA SamePosition ==
  ASSUME NEW r, NEW q, Position(r, q),
         UNCHANGED <<accepted, pc, lgSize, cmd>>, typed'[1] = typed[1]
  PROVE  Position(r, q)'
  BY DEF Position

\* The client takes the token,
LEMMA FirstGotToken ==
  ASSUME TypeInv, 1 \in Conns, FirstAlone, GotToken(1)
  PROVE  FirstAlone'
<1>1. /\ cli[1] = "token" /\ Take(1) /\ Ask(1, Check, "answer")
      /\ job' = [job EXCEPT ![1] = CHECKINCOMINGMESSAGES] /\ UNCHANGED <<left, size, shown>>
  BY DEF GotToken, AskFor, Check
<1>2. UNCHANGED <<mainVars, threadVars, connected, typed, given>>
  BY <1>1, Takes
<1>3. cli'[1] = "answer" /\ job'[1] = CHECKINCOMINGMESSAGES
  BY <1>1 DEF Ask, TypeInv, ClientTypes
<1>4. PICK r \in 0 .. CallsSize(typed[1]), q \in 0 .. RepliesSize :
         ClientAt(q) /\ (main = "accept" => ServerAt(r, q))
  BY <1>1 DEF FirstAlone, Conversation, Waiting
<1>5. Taken = 0 /\ ClientNeed(1) = TokenSize /\ Taken' = TokenSize
  BY <1>1, <1>3 DEF Taken, ClientNeed
<1>6. TokenSize <= q /\ s2c'[1] = Part(Replies, TokenSize, q)
  <2>1. PICK d \in Nat : d = TokenSize /\ d = Taken + ClientNeed(1)
    BY <1>5, SizesAre
  <2>2. d <= q /\ s2c'[1] = Part(Replies, d, q)
    BY <1>1, <1>4, <2>1, Took
  <2> QED
    BY <2>1, <2>2
<1>7. ClientAt(q)'
  BY <1>3, <1>5, <1>6 DEF ClientAt
<1>8. typed' = typed /\ main' = main /\ accepted' = accepted /\ UNCHANGED <<pc, buf, lgSize, cmd>>
  BY <1>2 DEF mainVars, threadVars
<1>9. ASSUME main' = "accept" PROVE ServerAt(r, q)'
  <2> DEFINE c == typed[1]
             H == HelloSize(c)
             L == CallsSize(c)
  <2>1. ServerAt(r, q) /\ main = "accept"
    BY <1>4, <1>8, <1>9
  <2>2. Called = H /\ Called' = L /\ Calls(typed[1])' = Calls(c)
    BY <1>1, <1>3, <1>8 DEF Called, CallsSize, HelloSize
  <2>3. c \in Credential /\ H \in Nat /\ L \in Nat /\ H <= L
    BY CalledIs, CredentialIs, SizesAre
  <2>4. PICK x \in Seq(Byte) : x = buf[1]
    BY DEF TypeInv, ThreadTypes, Bytes
  <2>5. PICK y \in Seq(Byte) : y = c2s[1]
    BY DEF TypeInv, NetTypes, Bytes
  <2>6. PICK z \in Seq(Byte) : z = Check
    BY <2>3, CallsAre DEF Bytes
  <2>7. c2s'[1] = Joined(y, z) /\ buf'[1] = x
    BY <1>1, <1>8, <2>1, <2>4, <2>5, <2>6 DEF Ask, TypeInv, NetTypes, Joined
  <2>8. Joined(x, Joined(y, z)) = Joined(Joined(x, y), z)
    BY <2>4, <2>5, <2>6, Assoc
  <2>9. r \in Nat /\ r <= H /\ Joined(x, y) = Part(Calls(c), r, H) /\ Position(r, q)
    BY <2>1, <2>2, <2>3, <2>4, <2>5 DEF ServerAt
  <2>10. z = Part(Calls(c), H, L) /\ Calls(c) \in Seq(Byte) /\ Len(Calls(c)) = L
    BY <2>3, <2>6, CallsAre DEF Bytes
  <2> HIDE DEF c, H, L
  <2>11. Part(Calls(c), r, H) \o Part(Calls(c), H, L) = Part(Calls(c), r, L)
    <3>1. L <= Len(Calls(c))
      BY <2>3, <2>10
    <3> QED
      BY <2>3, <2>9, <2>10, <3>1, PartsJoin
  <2>12. Joined(buf[1], c2s[1])' = Part(Calls(c), r, L)
    BY <2>7, <2>8, <2>9, <2>10, <2>11 DEF Joined
  <2>13. Position(r, q)'
    BY <1>8, <2>9, SamePosition
  <2>14. r <= L
    BY <2>3, <2>9
  <2> QED
    BY <2>2, <2>12, <2>13, <2>14 DEF ServerAt
<1>10. CallsSize(typed[1])' = CallsSize(typed[1])
  BY <1>8 DEF CallsSize, HelloSize
<1>11. Conversation'
  BY <1>4, <1>7, <1>9, <1>10 DEF Conversation
<1> QED
  BY <1>1, <1>3, <1>11 DEF FirstAlone

\* The first client has taken something other than the token.
LEMMA FirstTakes ==
  ASSUME TypeInv, 1 \in Conns, FirstAlone, cli[1] \in Waiting \ {"token"}, Take(1),
         cli'[1] \in {"count", "size", "text"}, UNCHANGED <<c2s, job, shown>>,
         Taken' = Taken + ClientNeed(1), cli'[1] = "text" => size'[1] = TextSize + 1
  PROVE  FirstAlone'
<1>1. UNCHANGED <<mainVars, threadVars, connected, typed, given>>
  BY Takes
<1>2. PICK r \in 0 .. CallsSize(typed[1]), q \in 0 .. RepliesSize :
         ClientAt(q) /\ (main = "accept" => ServerAt(r, q))
  BY DEF FirstAlone, Conversation
<1>3. Taken' <= q /\ s2c'[1] = Part(Replies, Taken', q)
  <2>1. Taken \in Nat /\ ClientNeed(1) \in Nat
    BY Takes, SizesAre, SMTT(30) DEF Taken, Waiting
  <2>2. PICK d \in Nat : d = Taken' /\ d = Taken + ClientNeed(1)
    BY <2>1
  <2>3. d <= q /\ s2c'[1] = Part(Replies, d, q)
    BY <1>2, <2>2, Took
  <2> QED
    BY <2>2, <2>3
<1>4. ClientAt(q)'
  BY <1>3 DEF ClientAt
<1>5. typed' = typed /\ main' = main /\ accepted' = accepted /\ UNCHANGED <<pc, buf, lgSize, cmd>>
  BY <1>1 DEF mainVars, threadVars
<1>6. Called' = Called /\ CallsSize(typed[1])' = CallsSize(typed[1])
  BY <1>5 DEF Called, CallsSize, HelloSize
<1>7. ASSUME main' = "accept" PROVE ServerAt(r, q)'
  <2>1. ServerAt(r, q)
    BY <1>2, <1>5, <1>7
  <2>2. Position(r, q)'
    BY <1>5, <2>1, SamePosition DEF ServerAt
  <2>3. Joined(buf[1], c2s[1])' = Joined(buf[1], c2s[1]) /\ Calls(typed[1])' = Calls(typed[1])
    BY <1>5
  <2> QED
    BY <1>6, <2>1, <2>2, <2>3 DEF ServerAt
<1>8. Conversation'
  BY <1>2, <1>4, <1>6, <1>7 DEF Conversation
<1> QED
  BY <1>8 DEF FirstAlone

\* the answer,
LEMMA FirstGotAnswer ==
  ASSUME TypeInv, 1 \in Conns, FirstAlone, GotAnswer(1)
  PROVE  FirstAlone'
<1>1. cli[1] = "answer" /\ Take(1) /\ cli[1] \in Waiting \ {"token"}
  BY DEF GotAnswer, Waiting
<1>2. job[1] = CHECKINCOMINGMESSAGES
  <2>1. PICK q \in 0 .. RepliesSize : ClientAt(q)
    BY <1>1 DEF FirstAlone, Conversation
  <2>2. ClientNeed(1) = 1 /\ Len(s2c[1]) >= 1
    BY <1>1, Takes DEF ClientNeed
  <2>3. s2c[1] # <<>>
    BY <2>2
  <2> QED
    BY <1>1, <2>1, <2>3 DEF ClientAt
<1>3. cli' = [cli EXCEPT ![1] = "count"] /\ UNCHANGED <<c2s, job, shown>>
  BY <1>2 DEF GotAnswer, CHECKINCOMINGMESSAGES, DELETEINCOMINGMESSAGE, SIGNOUT
<1>4. cli'[1] = "count"
  BY <1>3 DEF TypeInv, ClientTypes
<1>5. Taken' = Taken + ClientNeed(1)
  BY <1>1, <1>4 DEF Taken, ClientNeed
<1> QED
  BY <1>1, <1>3, <1>4, <1>5, FirstTakes

\* the number of messages,
LEMMA FirstGotCount ==
  ASSUME TypeInv, 1 \in Conns, FirstAlone, GotCount(1)
  PROVE  FirstAlone'
<1>1. cli[1] = "count" /\ Take(1) /\ cli[1] \in Waiting \ {"token"} /\ ClientNeed(1) = IntSize
  BY DEF GotCount, Waiting, ClientNeed
<1>2. PICK q \in 0 .. RepliesSize : ClientAt(q)
  BY <1>1 DEF FirstAlone, Conversation
<1>3. PICK d \in Nat : d = TokenSize + 1 + IntSize /\ d = Taken + ClientNeed(1)
  BY <1>1, SizesAre DEF Taken
<1>4. SubSeq(s2c[1], 1, IntSize) = AsInt(1)
  <2>1. SubSeq(s2c[1], 1, ClientNeed(1)) = Part(Replies, Taken, d)
    BY <1>1, <1>2, <1>3, Took
  <2>2. Taken = TokenSize + 1
    BY <1>1 DEF Taken
  <2> QED
    BY <1>1, <1>3, <2>1, <2>2, RepliesAre
<1>5. Value(SubSeq(s2c[1], 1, IntSize)) = 1
  BY <1>4, CommandIs
<1>6. cli' = [cli EXCEPT ![1] = "size"] /\ shown' = [shown EXCEPT ![1] = FALSE] /\ UNCHANGED <<c2s, job, size>>
  <2> DEFINE count == Value(SubSeq(s2c[1], 1, IntSize))
  <2>1. /\ cli' = [cli EXCEPT ![1] = IF count > 0 THEN "size" ELSE "menu"]
        /\ shown' = [shown EXCEPT ![1] = FALSE] /\ UNCHANGED <<c2s, job, size>>
    BY DEF GotCount
  <2>2. count > 0
    BY <1>5
  <2> QED
    BY <2>1, <2>2
<1>7. cli'[1] = "size" /\ shown' = shown
  BY <1>6 DEF TypeInv, ClientTypes, FirstAlone
<1>8. Taken' = Taken + ClientNeed(1)
  BY <1>1, <1>3, <1>7 DEF Taken
<1> QED
  BY <1>1, <1>6, <1>7, <1>8, FirstTakes

\* and the size of the message, which is one more than its letters.
LEMMA FirstGotSize ==
  ASSUME TypeInv, 1 \in Conns, FirstAlone, GotSize(1)
  PROVE  FirstAlone'
<1>1. cli[1] = "size" /\ Take(1) /\ cli[1] \in Waiting \ {"token"} /\ ClientNeed(1) = IntSize
  BY DEF GotSize, Waiting, ClientNeed
<1>2. PICK q \in 0 .. RepliesSize : ClientAt(q)
  BY <1>1 DEF FirstAlone, Conversation
<1>3. PICK d \in Nat : d = TokenSize + 1 + 2 * IntSize /\ d = Taken + ClientNeed(1)
  BY <1>1, SizesAre DEF Taken
<1>4. SubSeq(s2c[1], 1, IntSize) = AsInt(TextSize + 1)
  <2>1. SubSeq(s2c[1], 1, ClientNeed(1)) = Part(Replies, Taken, d)
    BY <1>1, <1>2, <1>3, Took
  <2>2. Taken = TokenSize + 1 + IntSize
    BY <1>1 DEF Taken
  <2> QED
    BY <1>1, <1>3, <2>1, <2>2, RepliesAre
<1>5. Value(SubSeq(s2c[1], 1, IntSize)) = TextSize + 1
  BY <1>4, AsIntIs, MailAssumption
<1>6. cli' = [cli EXCEPT ![1] = "text"] /\ size' = [size EXCEPT ![1] = TextSize + 1] /\ UNCHANGED <<c2s, job, shown>>
  BY <1>5 DEF GotSize
<1>7. cli'[1] = "text" /\ size'[1] = TextSize + 1
  BY <1>6 DEF TypeInv, ClientTypes
<1>8. Taken' = Taken + ClientNeed(1)
  BY <1>1, <1>3, <1>7 DEF Taken
<1> QED
  BY <1>1, <1>6, <1>7, <1>8, FirstTakes

\* The first client never has a message: one byte of it is not sent.
LEMMA FirstHasNoText ==
  ASSUME TypeInv, 1 \in Conns, FirstAlone
  PROVE  ~GotText(1)
<1> SUFFICES ASSUME GotText(1) PROVE FALSE
  OBVIOUS
<1>1. cli[1] = "text" /\ Take(1) /\ cli[1] \in Waiting
  BY DEF GotText, Waiting
<1>2. PICK q \in 0 .. RepliesSize : ClientAt(q)
  BY <1>1 DEF FirstAlone, Conversation
<1>3. Taken = TokenSize + 1 + 2 * IntSize /\ ClientNeed(1) = TextSize + 1
  BY <1>1, <1>2 DEF Taken, ClientNeed, ClientAt
<1>4. PICK d \in Nat : d = Taken + ClientNeed(1)
  BY <1>3, SizesAre
<1>5. d <= q
  BY <1>1, <1>2, <1>4, Took
<1> QED
  BY <1>3, <1>4, <1>5, SizesAre DEF RepliesSize

\* A step of the first client.
LEMMA FirstClient ==
  ASSUME TypeInv, 1 \in Conns, FirstAlone, ClientStep(1)
  PROVE  FirstAlone'
<1>1. CASE GotNothing(1)
  <2>1. /\ main' = main /\ main = "ended" /\ s2c' = [s2c EXCEPT ![1] = <<>>]
        /\ cli' = [cli EXCEPT ![1] = IF @ \in {"size", "text"} THEN "menu" ELSE "abandoned"]
        /\ shown' = [shown EXCEPT ![1] = @ /\ cli[1] \in {"size", "text"}]
    BY <1>1 DEF GotNothing, mainVars
  <2>2. cli'[1] \in {"menu", "abandoned"} /\ s2c'[1] = <<>> /\ ~shown'[1]
    BY <2>1 DEF TypeInv, ClientTypes, NetTypes, FirstAlone
  <2> QED
    BY <2>1, <2>2 DEF FirstAlone, Waiting
<1> QED
  BY <1>1, FirstGotToken, FirstGotAnswer, FirstGotCount, FirstGotSize, FirstHasNoText DEF ClientStep

\* The end of a sequence has nothing in it.
LEMMA PartEmpty ==
  ASSUME NEW n \in Nat, n <= RepliesSize
  PROVE  Part(Replies, n, n) = <<>>
<1>1. Replies \in Seq(Byte) /\ n <= Len(Replies) /\ n <= n /\ n - n = 0
  BY RepliesAre DEF Bytes
<1>2. Part(Replies, n, n) \in Seq(Byte) /\ Len(Part(Replies, n, n)) = 0
  BY <1>1, PartIs
<1> QED
  BY <1>2

\* At the menu the server has ended: what a user asks for goes nowhere.
LEMMA FirstClicks ==
  ASSUME TypeInv, 1 \in Conns, FirstAlone, NEW command \in CHECKINCOMINGMESSAGES .. SIGNOUT, Click(1, command)
  PROVE  FirstAlone'
<1>1. cli[1] = "menu" /\ main = "ended" /\ s2c[1] = <<>> /\ ~shown[1]
  BY DEF Click, FirstAlone
<1>2. cli'[1] = "answer" /\ UNCHANGED <<main, s2c, shown>>
  BY DEF Click, AskFor, Ask, TypeInv, ClientTypes, mainVars
<1>3. TokenSize \in 0 .. RepliesSize /\ TokenSize \in Nat
  BY SizesAre DEF RepliesSize
<1>4. Part(Replies, TokenSize, TokenSize) = <<>> /\ Taken' = TokenSize
  BY <1>2, <1>3, PartEmpty DEF Taken
<1>5. ClientAt(TokenSize)'
  BY <1>1, <1>2, <1>3, <1>4 DEF ClientAt
<1>6. 0 \in 0 .. CallsSize(typed[1])'
  <2>1. typed' = typed
    BY DEF Click
  <2>2. CallsSize(typed[1]) \in Nat
    BY CalledIs
  <2> QED
    BY <2>1, <2>2 DEF CallsSize, HelloSize
<1>7. Conversation'
  BY <1>1, <1>2, <1>3, <1>5, <1>6 DEF Conversation
<1> QED
  BY <1>1, <1>2, <1>7 DEF FirstAlone

\* Initially there is no conversation.
LEMMA ConvInit == Init => ConvInv
  BY DEF Init, ConvInv, Unheard, FirstAlone, Waiting

\* A client signs in.
LEMMA FirstSignsIn ==
  ASSUME TypeInv, 1 \in Conns, FirstAlone, \A k \in Conns : Unheard(k),
         NEW credential \in Credentials, SignIn(credential)
  PROVE  FirstAlone'
<1>1. /\ connected < MaxConns /\ main # "ended" /\ connected + 1 \in Conns
      /\ UNCHANGED <<mainVars, threadVars, s2c, job, left, size, shown, given>>
  BY Numbers DEF SignIn, Conns
<1>2. CASE connected # 0
  <2>1. PICK k \in Conns : k = connected + 1 /\ k # 1
    BY <1>1, <1>2, Numbers
  <2>2. cli'[1] = cli[1] /\ c2s'[1] = c2s[1] /\ typed'[1] = typed[1]
    BY <2>1 DEF SignIn, Ask, TypeInv, ClientTypes, NetTypes
  <2> QED
    BY <1>1, <2>2, FirstUnmoved DEF mainVars, threadVars
<1>3. CASE connected = 0
  <2>1. accepted = 0 /\ cli[1] = "off" /\ c2s[1] = <<>> /\ s2c[1] = <<>> /\ ~shown[1]
    BY <1>3, Numbers DEF TypeInv, ClientFits, FirstAlone
  <2>2. connected + 1 = 1
    BY <1>3
  <2>3. typed'[1] = credential
    BY <2>2 DEF SignIn, TypeInv, ClientTypes
  <2>4. /\ cli'[1] \in {"token", "abandoned"}
        /\ cli'[1] = "token" => c2s' = [c2s EXCEPT ![1] = @ \o Hello(credential)]
    BY <1>1, <2>2 DEF SignIn, Ask, Hello, TypeInv, ClientTypes
  <2>5. CASE cli'[1] = "abandoned"
    BY <1>1, <2>1, <2>5 DEF FirstAlone, Waiting
  <2>6. CASE cli'[1] = "token"
    <3> DEFINE H == HelloSize(credential)
    <3>1. credential \in Credential
      BY MailAssumption DEF Credential
    <3>2. /\ Hello(credential) \in Bytes /\ Part(Calls(credential), 0, H) = Hello(credential)
      BY <3>1, CallsAre
    <3>3. H \in Nat /\ CallsSize(credential) \in Nat /\ H <= CallsSize(credential)
      BY <3>1, CredentialIs, SizesAre
    <3>4. c2s'[1] = Hello(credential)
      <4>1. c2s'[1] = <<>> \o Hello(credential)
        BY <2>1, <2>4, <2>6 DEF TypeInv, NetTypes
      <4> QED
        BY <3>2, <4>1, JoinedEmpty DEF Joined
    <3>5. Taken' = 0 /\ Called' = H /\ CallsSize(typed[1])' = CallsSize(credential)
      BY <2>3, <2>6 DEF Taken, Called, CallsSize, HelloSize
    <3>6. RepliesSize \in Nat /\ Part(Replies, 0, 0) = <<>>
      <4>1. RepliesSize \in Nat
        BY SizesAre DEF RepliesSize
      <4>2. PICK z \in Nat : z = 0 /\ z <= RepliesSize
        BY <4>1
      <4> QED
        BY <4>1, <4>2, PartEmpty
    <3>7. ClientAt(0)'
      BY <1>1, <2>1, <2>6, <3>5, <3>6 DEF ClientAt
    <3>8. ASSUME main' = "accept" PROVE ServerAt(0, 0)'
      <4>1. main = "accept" /\ accepted' = 0 /\ pc' = pc /\ buf' = buf
        BY <1>1, <2>1, <3>8 DEF mainVars, threadVars
      <4>2. pc[1] = "none" /\ buf[1] = <<>>
        <5>1. pc[1] = "none"
          BY <2>1, <4>1 DEF Unheard
        <5> QED
          BY <5>1 DEF TypeInv, ThreadFits, Receiving
      <4>3. Joined(buf[1], c2s[1])' = Part(Calls(credential), 0, H)
        <5>1. Joined(<<>>, Hello(credential)) = Hello(credential)
          BY <3>2, JoinedEmpty
        <5> QED
          BY <3>2, <3>4, <4>1, <4>2, <5>1
      <4>4. Position(0, 0)'
        BY <4>1, <4>2 DEF Position
      <4>5. Calls(typed[1])' = Calls(credential)
        BY <2>3 DEF Calls, Hello, AsInt
      <4> QED
        BY <3>3, <3>5, <4>3, <4>4, <4>5 DEF ServerAt
    <3>9. 0 \in 0 .. CallsSize(typed[1])' /\ 0 \in 0 .. RepliesSize'
      <4>1. RepliesSize' = RepliesSize
        OBVIOUS
      <4> QED
        BY <3>3, <3>5, <3>6, <4>1
    <3>10. Conversation'
      BY <3>7, <3>8, <3>9 DEF Conversation
    <3> QED
      BY <1>1, <2>1, <2>6, <3>10 DEF FirstAlone
  <2> QED
    BY <2>4, <2>5, <2>6
<1> QED
  BY <1>2, <1>3

\* The first thread starts with nothing read and nothing sent.
LEMMA FirstAccepted ==
  ASSUME TypeInv, 1 \in Conns, FirstAlone, \A k \in Conns : Unheard(k), Accept, accepted' <= 1
  PROVE  FirstAlone'
<1>1. /\ main = "accept" /\ main' = main /\ accepted = 0 /\ accepted' = 1 /\ pc' = [pc EXCEPT ![1] = "command"]
      /\ UNCHANGED <<on, buf, cmd, lgSize, pwSize, c2s, s2c, clientVars>>
  <2>1. accepted = 0
    BY Numbers DEF Accept
  <2>2. accepted + 1 = 1
    BY <2>1
  <2> QED
    BY <2>1, <2>2 DEF Accept
<1>2. UNCHANGED <<cli, typed, job, size, shown>>
  BY <1>1 DEF clientVars
<1>3. ASSUME cli[1] \in Waiting PROVE Conversation'
  <2>1. PICK r \in 0 .. CallsSize(typed[1]), q \in 0 .. RepliesSize : ClientAt(q) /\ ServerAt(r, q)
    BY <1>1, <1>3 DEF FirstAlone, Conversation
  <2>2. Called' = Called /\ Taken' = Taken /\ CallsSize(typed[1])' = CallsSize(typed[1])
    BY <1>2 DEF Called, Taken, CallsSize, HelloSize
  <2>3. ClientAt(q)'
    BY <1>1, <1>2, <2>1, <2>2 DEF ClientAt
  <2>4. pc[1] = "none"
    BY <1>1 DEF Unheard
  <2>5. r = 0 /\ q = 0
    BY <2>1, <2>4 DEF ServerAt, Position
  <2>6. pc'[1] = "command"
    BY <1>1 DEF TypeInv, ThreadTypes
  <2>7. Position(r, q)'
    BY <2>5, <2>6 DEF Position
  <2>8. ServerAt(r, q)'
    BY <1>1, <1>2, <2>1, <2>2, <2>7 DEF ServerAt
  <2> QED
    BY <2>1, <2>2, <2>3, <2>8 DEF Conversation
<1> QED
  BY <1>1, <1>2, <1>3 DEF FirstAlone

\* What any step does to a client that was not accepted.
LEMMA UnheardStep ==
  ASSUME TypeInv, ConvInv, [Next]_vars, NEW j \in Conns
  PROVE  Unheard(j)'
<1> SUFFICES ASSUME j > accepted' PROVE Unheard(j)'
  BY DEF Unheard
<1>1. CASE Accept
  <2>1. accepted' = accepted + 1 /\ pc' = [pc EXCEPT ![accepted + 1] = "command"] /\ main' = main
        /\ UNCHANGED <<s2c, clientVars>>
    BY <1>1 DEF Accept
  <2>2. j > accepted /\ j # accepted + 1
    BY <2>1, Numbers
  <2> QED
    BY <2>1, <2>2 DEF ConvInv, Unheard, clientVars, TypeInv, ThreadTypes
<1>2. CASE AcceptFails
  BY <1>2 DEF AcceptFails, ConvInv, Unheard
<1>3. CASE EndProcess
  BY <1>3 DEF EndProcess, ConvInv, Unheard, clientVars
<1>4. ASSUME NEW credential \in Credentials, SignIn(credential) PROVE Unheard(j)'
  <2>1. UNCHANGED <<mainVars, threadVars, s2c, shown>> /\ cli'[j] \in {cli[j], "token", "abandoned"}
    BY <1>4 DEF SignIn, Ask, TypeInv, ClientTypes
  <2> QED
    BY <2>1 DEF ConvInv, Unheard, mainVars, threadVars
<1>5. ASSUME NEW k \in Conns, ThreadStep(k) PROVE Unheard(j)'
  <2>1. UNCHANGED <<mainVars, clientVars>>
    BY <1>5 DEF ThreadStep, Call, Receive, ReceiveNothing, ReceiveFails, Send, SendFails
  <2>2. pc[k] \in Receiving \cup Sending
    BY <1>5 DEF ThreadStep, Call, Receive, ReceiveNothing, ReceiveFails, Send, SendFails, TypeInv, ThreadFits
  <2>3. k <= accepted /\ j > accepted /\ j # k
    BY <2>1, <2>2, Runs, Numbers DEF mainVars
  <2>4. s2c'[j] = s2c[j]
    <3>1. s2c' = s2c \/ \E n \in {accepted} : s2c' = [s2c EXCEPT ![n] = @ \o Reply(k)]
      BY <1>5 DEF ThreadStep, Call, Receive, ReceiveNothing, ReceiveFails, Send, SendFails, serv
    <3>2. j # accepted
      BY <2>3, Numbers
    <3> QED
      BY <3>1, <3>2 DEF TypeInv, NetTypes
  <2>5. pc'[j] = pc[j]
    BY <1>5, <2>3 DEF ThreadStep, Call, Receive, ReceiveNothing, ReceiveFails, Send, SendFails,
       Proceed, End, TypeInv, ThreadTypes
  <2> QED
    BY <2>1, <2>3, <2>4, <2>5 DEF ConvInv, Unheard, mainVars, clientVars
<1>6. ASSUME NEW k \in Conns, ClientStep(k) \/ Kill(k) \/ \E command \in CHECKINCOMINGMESSAGES .. SIGNOUT : Click(k, command)
      PROVE  Unheard(j)'
  <2>1. UNCHANGED <<mainVars, threadVars>>
    BY <1>6 DEF ClientStep, GotToken, GotAnswer, GotCount, GotSize, GotText, GotNothing, Take, Kill, Click
  <2>2. j > accepted /\ Unheard(j)
    BY <2>1 DEF ConvInv, mainVars
  <2>3. CASE j # k
    <3>1. cli'[j] = cli[j] /\ s2c'[j] = s2c[j] /\ shown'[j] = shown[j]
      BY <1>6, <2>3 DEF ClientStep, GotToken, GotAnswer, GotCount, GotSize, GotText, GotNothing, Take, Kill,
         Click, AskFor, Ask, TypeInv, ClientTypes, NetTypes
    <3> QED
      BY <2>1, <2>2, <3>1 DEF Unheard, mainVars, threadVars
  <2>4. CASE j = k
    <3>1. cli[j] \in {"off", "token", "abandoned", "gone"} /\ s2c[j] = <<>> /\ ~shown[j]
      BY <2>2 DEF Unheard
    <3>2. ~(Take(j) /\ cli[j] = "token")
      <4>1. SUFFICES ASSUME Take(j), cli[j] = "token" PROVE FALSE
        OBVIOUS
      <4>2. ClientNeed(j) = TokenSize /\ Len(s2c[j]) >= ClientNeed(j) /\ Len(<<>>) = 0
        BY <4>1, Takes, SizesAre DEF ClientNeed, Take
      <4> QED
        BY <3>1, <4>2, SizesAre
    <3>3. GotNothing(j) \/ Kill(j)
      BY <1>6, <2>4, <3>1, <3>2 DEF ClientStep, GotToken, GotAnswer, GotCount, GotSize, GotText, Click
    <3>4. cli'[j] \in {"abandoned", "gone"} /\ s2c'[j] = <<>> /\ ~shown'[j]
      BY <3>1, <3>3 DEF GotNothing, Kill, TypeInv, ClientTypes, NetTypes
    <3> QED
      BY <2>1, <2>2, <3>4 DEF Unheard, mainVars, threadVars
  <2> QED
    BY <2>3, <2>4
<1>7. CASE UNCHANGED vars
  BY <1>7 DEF vars, mainVars, threadVars, clientVars, ConvInv, Unheard
<1> QED
  BY <1>1, <1>2, <1>3, <1>4, <1>5, <1>6, <1>7 DEF Next, Join, MemoryFails

\* Every step keeps the conversation.
LEMMA ConvStep == TypeInv /\ ConvInv /\ [Next]_vars => ConvInv'
<1> SUFFICES ASSUME TypeInv, ConvInv, [Next]_vars PROVE ConvInv'
  OBVIOUS
<1>1. \A j \in Conns : Unheard(j)'
  BY UnheardStep
<1>2. ASSUME accepted' <= 1, 1 \in Conns PROVE FirstAlone'
  <2>1. accepted <= accepted' /\ accepted <= 1
    <3>1. accepted' = accepted \/ accepted' = accepted + 1
      BY DEF Next, vars, mainVars, Accept, AcceptFails, Join, EndProcess, SignIn, ThreadStep, Call, Receive,
         ReceiveNothing, ReceiveFails, Send, SendFails, MemoryFails, ClientStep, GotToken, GotAnswer,
         GotCount, GotSize, GotText, GotNothing, Take, Kill, Click
    <3> QED
      BY <1>2, <3>1, Numbers
  <2>2. FirstAlone /\ \A k \in Conns : Unheard(k)
    BY <1>2, <2>1 DEF ConvInv
  <2>3. CASE Accept
    BY <1>2, <2>2, <2>3, FirstAccepted
  <2>4. CASE AcceptFails
    BY <2>2, <2>4, FirstUnmoved DEF AcceptFails
  <2>5. CASE EndProcess
    BY <2>2, <2>5, FirstUnmoved DEF EndProcess, clientVars
  <2>6. ASSUME NEW credential \in Credentials, SignIn(credential) PROVE FirstAlone'
    BY <1>2, <2>2, <2>6, FirstSignsIn
  <2>7. ASSUME NEW k \in Conns, ThreadStep(k) PROVE FirstAlone'
    BY <1>2, <2>1, <2>2, <2>7, OnlyThread, FirstThread
  <2>8. ASSUME NEW k \in Conns, ClientStep(k) \/ Kill(k) \/ \E command \in CHECKINCOMINGMESSAGES .. SIGNOUT : Click(k, command)
        PROVE  FirstAlone'
    <3>1. CASE k = 1
      <4>1. CASE Kill(k)
        <5>1. cli'[1] = "gone" /\ ~shown'[1]
          BY <1>2, <3>1, <4>1 DEF Kill, TypeInv, ClientTypes
        <5> QED
          BY <5>1 DEF FirstAlone, Waiting
      <4> QED
        BY <1>2, <2>2, <2>8, <3>1, <4>1, FirstClient, FirstClicks
    <3>2. CASE k # 1
      <4>1. UNCHANGED <<mainVars, threadVars>>
        BY <2>8 DEF ClientStep, GotToken, GotAnswer, GotCount, GotSize, GotText, GotNothing, Take, Kill, Click
      <4>2. /\ cli'[1] = cli[1] /\ s2c'[1] = s2c[1] /\ shown'[1] = shown[1] /\ typed'[1] = typed[1]
            /\ job'[1] = job[1] /\ size'[1] = size[1] /\ c2s'[1] = c2s[1]
        BY <1>2, <2>8, <3>2 DEF ClientStep, GotToken, GotAnswer, GotCount, GotSize, GotText, GotNothing, Take,
           Kill, Click, AskFor, Ask, TypeInv, ClientTypes, NetTypes
      <4> QED
        BY <2>2, <4>1, <4>2, FirstUnmoved DEF mainVars, threadVars
    <3> QED
      BY <3>1, <3>2
  <2>9. CASE UNCHANGED vars
    BY <2>2, <2>9, FirstUnmoved DEF vars, mainVars, threadVars, clientVars
  <2> QED
    BY <2>3, <2>4, <2>5, <2>6, <2>7, <2>8, <2>9 DEF Next, Join, MemoryFails
<1> QED
  BY <1>1, <1>2 DEF ConvInv

\* A client that is the only one to connect is never shown a message: the client
\* waits for the terminator that the size counts, and the server does not send it.
THEOREM NeverShown == Spec => []NothingShown
<1>1. TypeInv /\ ConvInv => NothingShown
  <2> SUFFICES ASSUME TypeInv, ConvInv, accepted <= 1, NEW k \in Conns PROVE ~shown[k]
    BY DEF NothingShown
  <2>1. CASE k = 1
    BY <2>1 DEF ConvInv, FirstAlone
  <2>2. CASE k # 1
    <3>1. k > accepted
      BY <2>2, Numbers
    <3> QED
      BY <3>1 DEF ConvInv, Unheard
  <2> QED
    BY <2>1, <2>2
<1> QED
  BY <1>1, TypeInit, TypeStep, ConvInit, ConvStep, PTL DEF Spec

\* As long as a connection is the only one that was accepted, and its login is as
\* long as its password, thread and client agree on where every part of a command
\* begins, in whatever pieces it arrives.
THEOREM KeepsInStep == Spec => []InStep
<1>1. TypeInv /\ ConvInv => InStep
  <2> SUFFICES ASSUME TypeInv, ConvInv, accepted = 1, main = "accept", cli[1] \in Waiting,
                      typed[1].lg = typed[1].pw, typed[1].lg > 0
               PROVE  LET unread == Len(buf[1]) + Len(c2s[1])
                          short == IF cli[1] = "token" THEN 0 ELSE 1 IN
                      IF pc[1] = "command" /\ unread = 0
                        THEN Len(s2c[1]) + short = Expects(1)
                        ELSE unread = Reads(1) /\ Len(s2c[1]) + Sends(1) + short = Expects(1)
    BY DEF InStep
  <2> DEFINE c == typed[1]
             H == HelloSize(c)
             unread == Len(buf[1]) + Len(c2s[1])
             n == Len(s2c[1])
  <2>1. 1 \in Conns
    BY Numbers DEF Conns
  <2>2. PICK r \in 0 .. CallsSize(c), q \in 0 .. RepliesSize : ClientAt(q) /\ ServerAt(r, q)
    BY <2>1, Numbers DEF ConvInv, FirstAlone, Conversation
  <2>3. c \in Credential /\ Called \in Nat /\ Called <= CallsSize(c)
    BY <2>1, CalledIs
  <2>4. /\ c.lg \in Nat /\ c.pw = c.lg /\ c.lg > 0 /\ H = 3 * IntSize + 2 * c.lg
        /\ CallsSize(c) = H + IntSize + TokenSize
        /\ IntSize \in Nat /\ IntSize > 0 /\ TokenSize \in Nat /\ TokenSize > 0 /\ TextSize \in Nat
        /\ RepliesSize = TokenSize + 1 + 2 * IntSize + TextSize
        /\ H \in Nat /\ RepliesSize \in Nat
    <3>1. c.lg \in Nat
      BY <2>3, CredentialIs
    <3> QED
      BY <3>1, SizesAre DEF HelloSize, CallsSize, RepliesSize
  <2>5. r \in Nat /\ q \in Nat /\ q <= RepliesSize /\ r <= Called /\ Position(r, q)
    BY <2>2, <2>3, <2>4 DEF ServerAt
  <2>6. unread = Called - r /\ unread \in Nat
    <3>1. buf[1] \in Seq(Byte) /\ c2s[1] \in Seq(Byte)
      BY <2>1 DEF TypeInv, ThreadTypes, NetTypes, Bytes
    <3>2. Len(Joined(buf[1], c2s[1])) = Len(buf[1]) + Len(c2s[1])
      BY <3>1, Concatenated DEF Joined
    <3>3. Calls(c) \in Seq(Byte) /\ Called <= Len(Calls(c))
      BY <2>3, CallsAre DEF Bytes
    <3>4. PICK w \in Nat : w = Called
      BY <2>3
    <3>5. Len(Part(Calls(c), r, w)) = w - r
      BY <2>5, <3>3, <3>4, PartIs
    <3>6. Joined(buf[1], c2s[1]) = Part(Calls(c), r, w)
      BY <2>2, <3>4 DEF ServerAt
    <3>7. unread = w - r
      BY <3>2, <3>5, <3>6
    <3>8. w - r \in Nat
      BY <2>5, <3>4
    <3> QED
      BY <3>4, <3>7, <3>8
  <2>7. n = q - Taken /\ n \in Nat /\ Taken \in Nat /\ Taken <= q
    <3>1. Replies \in Seq(Byte) /\ q <= Len(Replies)
      BY <2>5, RepliesAre DEF Bytes
    <3>2. PICK a \in Nat : a = Taken
      BY <2>4 DEF Taken, Waiting
    <3>3. a <= q /\ s2c[1] = Part(Replies, a, q)
      BY <2>2, <3>2 DEF ClientAt
    <3>4. Len(Part(Replies, a, q)) = q - a
      BY <2>5, <3>1, <3>2, <3>3, PartIs
    <3>5. n = q - a
      BY <3>3, <3>4
    <3> QED
      BY <2>5, <3>2, <3>3, <3>5
  <2>8. cli[1] = "text" => size[1] = TextSize + 1
    BY <2>2 DEF ClientAt
  <2> HIDE DEF H, unread, n
  <2>9. IF cli[1] = "token"
          THEN Taken = 0 /\ Called = H /\ Expects(1) = TokenSize
          ELSE Taken >= TokenSize /\ Called = H + IntSize + TokenSize /\ Expects(1) = RepliesSize + 1 - Taken
    <3>1. Called = IF cli[1] = "token" THEN H ELSE CallsSize(c)
      BY DEF Called, H
    <3> QED
      BY <2>4, <2>8, <3>1 DEF Expects, Taken, Waiting
  <2>10. pc[1] \in {"command", "lgSize", "pwSize", "login", "password", "signedIn", "token", "answer", "count", "size", "text"}
    <3>1. pc[1] \notin {"none", "ended", "number"}
      BY <2>3, <2>4, <2>5 DEF Position
    <3> QED
      BY <2>1, <3>1 DEF TypeInv, ThreadTypes, ThreadPCs, Receiving, Sending
  <2> HIDE DEF c
  <2>11. ASSUME cli[1] = "token"
         PROVE  IF pc[1] = "command" /\ unread = 0
                  THEN n = Expects(1) ELSE unread = Reads(1) /\ n + Sends(1) = Expects(1)
    <3>1. /\ n = q /\ unread = H - r /\ Expects(1) = TokenSize /\ Sends(1) = TokenSize /\ r <= H
      <4>1. Taken = 0 /\ Called = H /\ Expects(1) = TokenSize
        BY <2>9, <2>11
      <4>2. q \in Nat /\ r <= H /\ unread = H - r
        BY <2>5, <2>6, <4>1, Zenon
      <4>3. n = q - 0
        BY <2>7, <4>1
      <4>4. n = q
        BY <4>2, <4>3
      <4>5. Sends(1) = TokenSize
        BY <2>11 DEF Sends
      <4> QED
        BY <4>1, <4>2, <4>4, <4>5
    <3>2. CASE pc[1] = "command"
      <4>1. (r = 0 /\ q = 0) \/ (q = TokenSize /\ r = H) \/ r = H + IntSize + TokenSize
        BY <2>4, <2>5, <3>2 DEF Position, H, c
      <4>2. Reads(1) = IntSize + (2 * IntSize + 2 * c.lg)
        BY <2>11, <3>2 DEF Reads, c
      <4> QED
        BY <2>4, <2>5, <2>11, <3>1, <3>2, <4>1, <4>2
    <3>3. CASE pc[1] \in {"lgSize", "pwSize", "login", "password"}
      <4>1. q = 0 /\ r + Reads(1) = H
        <5>1. CASE pc[1] = "lgSize"
          BY <2>4, <2>5, <5>1 DEF Position, Reads, c
        <5>2. CASE pc[1] = "pwSize"
          BY <2>4, <2>5, <5>2 DEF Position, Reads, c
        <5>3. CASE pc[1] = "login"
          BY <2>4, <2>5, <5>3 DEF Position, Reads, c
        <5>4. CASE pc[1] = "password"
          BY <2>4, <2>5, <5>4 DEF Position, Reads, c
        <5> QED
          BY <3>3, <5>1, <5>2, <5>3, <5>4
      <4>1a. Reads(1) \in Nat
        BY <2>4, <2>11, <3>3 DEF Reads, c
      <4>2. unread = Reads(1)
        <5>1. r \in Nat
          BY <2>5
        <5>2. r + Reads(1) = H
          BY <4>1
        <5>3. unread = H - r
          BY <3>1
        <5>4. PICK x \in Nat : x = Reads(1)
          BY <4>1a
        <5>5. H - r = x
          BY <5>1, <5>2, <5>4
        <5> QED
          BY <5>3, <5>4, <5>5
      <4> QED
        <5>1. n + Sends(1) = Expects(1)
          BY <2>4, <3>1, <4>1
        <5>2. pc[1] # "command"
          BY <3>3
        <5> QED
          BY <4>2, <5>1, <5>2
    <3>4. CASE pc[1] = "signedIn"
      <4>1. q = 0 /\ r = H /\ Reads(1) = 0
        BY <2>4, <2>5, <3>4 DEF Position, Reads, c
      <4> QED
        BY <2>4, <2>11, <3>1, <3>4, <4>1
    <3>5. CASE pc[1] \in {"token", "answer", "count", "size", "text"}
      <4>1. r > H
        BY <2>4, <2>5, <3>5 DEF Position, H, c
      <4> QED
        BY <2>4, <2>5, <3>1, <4>1
    <3> QED
      BY <2>11, <2>10, <3>2, <3>3, <3>4, <3>5
  <2>12. ASSUME cli[1] # "token"
         PROVE  IF pc[1] = "command" /\ unread = 0
                  THEN n + 1 = Expects(1) ELSE unread = Reads(1) /\ n + Sends(1) + 1 = Expects(1)
    <3>1. /\ n = q - Taken /\ unread = H + IntSize + TokenSize - r /\ Expects(1) = RepliesSize + 1 - Taken
          /\ q >= TokenSize /\ TokenSize <= RepliesSize
      BY <2>4, <2>5, <2>6, <2>7, <2>9, <2>12
    <3>2. CASE pc[1] = "command"
      <4>1. (q = TokenSize /\ r = H) \/ (q = RepliesSize /\ r = H + IntSize + TokenSize)
        BY <2>4, <2>5, <3>1, <3>2 DEF Position, H, c
      <4>2. Reads(1) = IntSize + TokenSize
        BY <2>12, <3>2 DEF Reads
      <4>3. Sends(1) = 1 + 2 * IntSize + TextSize
        BY <2>12, <3>2 DEF Sends
      <4> QED
        BY <2>4, <2>5, <2>7, <2>12, <3>1, <3>2, <4>1, <4>2, <4>3
    <3>3. CASE pc[1] \in {"lgSize", "pwSize", "login", "password", "signedIn"}
      <4>1. q = 0
        BY <2>5, <3>3 DEF Position
      <4> QED
        BY <2>4, <3>1, <4>1
    <3>4. CASE pc[1] \in {"token", "answer", "count", "size", "text"}
      <4>1. r + Reads(1) = H + IntSize + TokenSize
        BY <2>4, <2>5, <3>4 DEF Position, Reads, H, c
      <4>2. q + Sends(1) = RepliesSize
        BY <2>4, <2>5, <2>12, <3>4 DEF Position, Sends
      <4>3. Reads(1) \in Nat /\ Sends(1) \in Nat
        BY <2>4, <2>12, <3>4 DEF Reads, Sends
      <4>4. unread = Reads(1)
        BY <2>4, <2>5, <3>1, <4>1, <4>3
      <4>5. Sends(1) = RepliesSize - q
        BY <2>4, <2>5, <4>2, <4>3
      <4> QED
        BY <2>4, <2>5, <2>7, <2>12, <3>1, <3>4, <4>4, <4>5
    <3> QED
      BY <2>12, <2>10, <3>2, <3>3, <3>4
  <2>13. CASE cli[1] = "token"
    <3>1. IF pc[1] = "command" /\ unread = 0
            THEN n + 0 = Expects(1) ELSE unread = Reads(1) /\ n + Sends(1) + 0 = Expects(1)
      <4>1. Sends(1) = TokenSize
        BY <2>13 DEF Sends
      <4> QED
        BY <2>4, <2>7, <2>11, <2>13, <4>1
    <3> QED
      BY <2>13, <3>1 DEF unread, n
  <2>14. CASE cli[1] # "token"
    BY <2>12, <2>14 DEF unread, n
  <2> QED
    BY <2>13, <2>14
<1> QED
  BY <1>1, TypeInit, TypeStep, ConvInit, ConvStep, PTL DEF Spec
=============================================================================
