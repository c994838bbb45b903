---------------------------- MODULE UDPChatProofs ---------------------------
(***************************************************************************)
(* Proofs about UDPChat, for any clients and texts, any sizes, and all     *)
(* faults.                                                                 *)
(***************************************************************************)
EXTENDS UDPChat, BytesProofs, SequenceTheorems, TLAPS

-----------------------------------------------------------------------------
(* Types.                                                                  *)

Datagram == [from : Clients, bytes : Bytes]
Entered == Texts \cup {<<>>}

ServerType == [at : {"size", "text", "down"}, slot : [1 .. IntSize -> Byte], reset : BOOLEAN]
NetType ==
  [inbox : Seq(Datagram), replies : [Clients -> Seq(Datagrams)], mixed : BOOLEAN, lost : SUBSET Clients]
ClientType ==
  [at : {"input", "sized", "waiting", "asked", "gone"}, typed : Entered, shown : Datagrams,
   entered : 0 .. MaxTexts]

TypeInv ==
  /\ server \in ServerType /\ net \in NetType /\ client \in [Clients -> ClientType]
  /\ \A c \in Clients :
       /\ client[c].at = "asked" => Len(client[c].shown) = Len(client[c].typed)
       /\ \A i \in 1 .. Len(net.replies[c]) : Len(net.replies[c][i]) <= MaxDatagram

-----------------------------------------------------------------------------
(* Pairs of a size and a text.                                             *)

Announces(text) == IntBytes(Len(text), IntSize)

\* Places of the inbox at which the server takes what it finds for a size; place 0
\* is what it received last.
IsSize(i) == IF server.at = "size" THEN i % 2 = 1 ELSE i % 2 = 0
SizeAt(i) == IF i = 0 THEN server.slot ELSE net.inbox[i].bytes

\* In front of every text is its size.
SizeFirst ==
  \A i \in 0 .. Len(net.inbox) - 1 : IsSize(i) => SizeAt(i) = Announces(net.inbox[i + 1].bytes)

\* The last size is the one whose text is about to be sent.
SizeLast ==
  /\ IsSize(Len(net.inbox)) => \E c \in Clients : client[c].at = "sized"
  /\ \A c \in Clients :
       client[c].at = "sized" =>
         IsSize(Len(net.inbox)) /\ SizeAt(Len(net.inbox)) = Announces(client[c].typed)

\* A text was sent by a client that waits for the answer to it, unless it has left.
TextOf(i) ==
  LET d == net.inbox[i] IN
  /\ d.bytes \in Entered /\ ~Oversized(d.bytes)
  /\ client[d.from].at # "gone" =>
       /\ client[d.from].at = "waiting" /\ client[d.from].typed = d.bytes
       /\ net.replies[d.from] = <<>>
TextsSent ==
  /\ \A i \in 1 .. Len(net.inbox) : ~IsSize(i) => TextOf(i)
  /\ \A i, j \in 1 .. Len(net.inbox) :
       /\ ~IsSize(i) /\ ~IsSize(j) /\ net.inbox[i].from = net.inbox[j].from
       /\ client[net.inbox[i].from].at # "gone"
       => i = j

\* What a client has been sent, and what it has shown.
OwnReply(c) ==
  /\ client[c].at = "sized" => ~Oversized(client[c].typed)
  /\ client[c].at # "gone" /\ net.replies[c] # <<>> =>
       client[c].at = "waiting" /\ net.replies[c] = <<Swapped(client[c].typed)>>
  /\ client[c].at = "asked" => client[c].shown = Swapped(client[c].typed)

Row == server.at # "down" => SizeFirst /\ SizeLast /\ TextsSent

PairInv ==
  ~net.mixed =>
    /\ server.at = "down" => server.reset
    /\ \A c \in Clients : OwnReply(c)
    /\ Row

\* A reply is on its way to the client, or its text is to the server, at a place where
\* the server takes what it finds for a text.
Coming(c) ==
  \/ net.replies[c] # <<>>
  \/ \E i \in 1 .. Len(net.inbox) : ~IsSize(i) /\ net.inbox[i] = [from |-> c, bytes |-> client[c].typed]

ComingInv ==
  ~net.mixed /\ server.at # "down" =>
    \A c \in Clients \ net.lost : client[c].at = "waiting" => Coming(c)

-----------------------------------------------------------------------------
(* Texts and buffers.                                                      *)

\* What recvfrom leaves in a buffer is as long as the buffer.
LEMMA FilledIs ==
  ASSUME NEW S, NEW n \in Nat, NEW buffer \in [1 .. n -> S], NEW bytes \in Seq(S)
  PROVE  /\ Filled(buffer, bytes) \in [1 .. n -> S] /\ Filled(buffer, bytes) \in Seq(S)
         /\ Len(Filled(buffer, bytes)) = n
         /\ Len(bytes) = n => Filled(buffer, bytes) = bytes
<1>1. Filled(buffer, bytes) = [i \in 1 .. n |-> IF i \in 1 .. Len(bytes) THEN bytes[i] ELSE buffer[i]]
  BY DEF Filled
<1>2. Filled(buffer, bytes) \in [1 .. n -> S]
  BY <1>1
<1>3. Filled(buffer, bytes) \in Seq(S) /\ Len(Filled(buffer, bytes)) = n
  BY <1>2
<1>4. ASSUME Len(bytes) = n PROVE Filled(buffer, bytes) = bytes
  <2>1. \A i \in 1 .. n : Filled(buffer, bytes)[i] = bytes[i]
    BY <1>1, <1>4
  <2> QED
    BY <1>3, <1>4, <2>1
<1> QED
  BY <1>2, <1>3, <1>4

\* The loop of the server swaps the characters of every pair.
LEMMA SwappedIs ==
  ASSUME NEW S, NEW text \in Seq(S)
  PROVE  /\ Swapped(text) \in Seq(S) /\ Len(Swapped(text)) = Len(text)
         /\ IsSwapped(text, Swapped(text))
<1> DEFINE n == Len(text)
           other == Swapped(text)
<1>1. n \in Nat /\ DOMAIN text = 1 .. n /\ \A i \in 1 .. n : text[i] \in S
  OBVIOUS
<1>2. other = [i \in 1 .. n |->
                 IF i % 2 = 0 THEN text[i - 1] ELSE IF i < n THEN text[i + 1] ELSE text[i]]
  BY DEF Swapped
<1>3. ASSUME NEW i \in 1 .. n PROVE other[i] \in S
  <2>1. CASE i % 2 = 0
    <3>1. i - 1 \in 1 .. n
      BY <1>1, <2>1
    <3> QED
      BY <1>1, <1>2, <2>1, <3>1
  <2>2. CASE i % 2 # 0
    BY <1>1, <1>2, <2>2
  <2> QED
    BY <2>1, <2>2
<1>4. other \in Seq(S) /\ Len(other) = n /\ DOMAIN other = 1 .. n
  BY <1>1, <1>2, <1>3
<1> HIDE DEF n, other
<1>5. ASSUME NEW i \in 1 .. n \div 2 PROVE other[2 * i - 1] = text[2 * i] /\ other[2 * i] = text[2 * i - 1]
  <2> DEFINE a == 2 * i - 1
             b == 2 * i
  <2>1. a \in 1 .. n /\ b \in 1 .. n /\ a % 2 = 1 /\ b % 2 = 0 /\ a < n /\ a + 1 = b /\ b - 1 = a
    BY <1>1
  <2> HIDE DEF a, b
  <2>2. other[a] = text[b] /\ other[b] = text[a]
    BY <1>2, <2>1
  <2> QED
    BY <2>2 DEF a, b
<1>6. n % 2 = 1 => other[n] = text[n]
  BY <1>1, <1>2
<1>7. IsSwapped(text, other)
  BY <1>1, <1>4, <1>5, <1>6 DEF IsSwapped, n
<1> QED
  BY <1>4, <1>7 DEF n, other

\* The size of a text is an int.
LEMMA AnnouncesIs ==
  ASSUME ChatAssumption, NEW text \in Entered
  PROVE  /\ text \in Bytes /\ Len(text) \in Nat
         /\ Announces(text) \in Bytes /\ Len(Announces(text)) = IntSize
         /\ Value(Announces(text)) = Len(text)
<1>1. 0 \in Ints(IntSize)
  <2>1. IntSize \in 1 .. 4 /\ 0 \in 0 .. 255
    BY DEF ChatAssumption
  <2> QED
    BY <2>1, SmallInts
<1>2. text \in Bytes /\ Len(text) \in Ints(IntSize)
  <2>1. CASE text \in Texts
    BY <2>1 DEF ChatAssumption
  <2>2. CASE text = <<>>
    BY <1>1, <2>2 DEF Bytes
  <2> QED
    BY <2>1, <2>2 DEF Entered
<1>3. Len(text) \in Nat
  BY <1>2 DEF Bytes
<1> QED
  BY <1>2, <1>3, ValueIs DEF ChatAssumption, Announces

-----------------------------------------------------------------------------
(* Types.                                                                  *)

\* The types hold at first.
LEMMA TypeInit == ASSUME ChatAssumption PROVE Init => TypeInv
<1> SUFFICES ASSUME Init PROVE TypeInv
  OBVIOUS
<1>1. server \in ServerType
  BY DEF Init, ServerType, ChatAssumption
<1>2. net \in NetType /\ \A c \in Clients : net.replies[c] = <<>>
  BY DEF Init, NetType
<1>3. <<>> \in Datagrams /\ <<>> \in Entered /\ 0 \in 0 .. MaxTexts
  BY DEF Datagrams, Entered, ChatAssumption
<1>4. NoText \in ClientType /\ NoText.at = "input"
  BY <1>3 DEF NoText, ClientType
<1>5. client \in [Clients -> ClientType] /\ \A c \in Clients : client[c].at = "input"
  BY <1>4 DEF Init
<1> QED
  BY <1>1, <1>2, <1>5 DEF TypeInv

\* The fields of the variables.
LEMMA Fields ==
  ASSUME TypeInv
  PROVE  /\ server.at \in {"size", "text", "down"} /\ server.slot \in [1 .. IntSize -> Byte]
         /\ server.reset \in BOOLEAN
         /\ net.inbox \in Seq(Datagram) /\ net.replies \in [Clients -> Seq(Datagrams)]
         /\ net.mixed \in BOOLEAN /\ net.lost \in SUBSET Clients
         /\ \A c \in Clients :
              /\ client[c].at \in {"input", "sized", "waiting", "asked", "gone"}
              /\ client[c].typed \in Entered /\ client[c].shown \in Datagrams
              /\ client[c].entered \in 0 .. MaxTexts
  BY DEF TypeInv, ServerType, NetType, ClientType

\* The number in the slot is one that an int can hold.
LEMMA AnnouncedIs ==
  ASSUME ChatAssumption, TypeInv
  PROVE  announced \in Nat /\ server.slot \in Bytes /\ Len(server.slot) = IntSize
<1>1. IntSize \in Nat /\ server.slot \in [1 .. IntSize -> Byte]
  BY Fields DEF ChatAssumption
<1>2. server.slot \in Bytes /\ Len(server.slot) = IntSize
  BY <1>1 DEF Bytes
<1> QED
  BY <1>2, ValueBounds DEF announced

\* The server takes a datagram of the inbox.
LEMMA Heads ==
  ASSUME TypeInv, net.inbox # <<>>
  PROVE  /\ Head(net.inbox) = net.inbox[1] /\ 1 \in 1 .. Len(net.inbox)
         /\ Head(net.inbox) \in Datagram /\ Head(net.inbox).from \in Clients
         /\ Head(net.inbox).bytes \in Bytes /\ Tail(net.inbox) \in Seq(Datagram)
         /\ Len(Tail(net.inbox)) = Len(net.inbox) - 1
         /\ \A i \in 1 .. Len(net.inbox) - 1 : Tail(net.inbox)[i] = net.inbox[i + 1]
<1>1. net.inbox \in Seq(Datagram)
  BY Fields
<1> DEFINE q == net.inbox
<1>2. q \in Seq(Datagram) /\ q # <<>>
  BY <1>1
<1> HIDE DEF q
<1>3. /\ Head(q) = q[1] /\ 1 \in 1 .. Len(q) /\ Head(q) \in Datagram /\ Tail(q) \in Seq(Datagram)
      /\ Len(Tail(q)) = Len(q) - 1 /\ \A i \in 1 .. Len(q) - 1 : Tail(q)[i] = q[i + 1]
  BY <1>2
<1>4. Head(q).from \in Clients /\ Head(q).bytes \in Bytes
  BY <1>3 DEF Datagram
<1> QED
  BY <1>3, <1>4 DEF q

\* Each action keeps the types: the server receives a size.
LEMMA ReceiveSizeTypes ==
  ASSUME ChatAssumption, TypeInv, ReceiveSize
  PROVE  TypeInv'
<1> DEFINE bytes == Head(net.inbox).bytes
<1>1. net.inbox # <<>> /\ net' = [net EXCEPT !.inbox = Tail(@)] /\ client' = client
  BY DEF ReceiveSize
<1>2. bytes \in Bytes /\ Tail(net.inbox) \in Seq(Datagram)
  BY <1>1, Heads
<1>3. net' \in NetType /\ net'.replies = net.replies
  BY <1>1, <1>2 DEF TypeInv, NetType
<1>4. server' \in ServerType
  <2>1. CASE Len(bytes) > IntSize
    <3>1. server' = [server EXCEPT !.at = "down"]
      BY <2>1 DEF ReceiveSize
    <3> QED
      BY <3>1 DEF TypeInv, ServerType
  <2>2. CASE ~(Len(bytes) > IntSize)
    <3>1. server' = [server EXCEPT !.at = "text", !.slot = Filled(@, bytes)]
      BY <2>2 DEF ReceiveSize
    <3>2. IntSize \in Nat /\ server.slot \in [1 .. IntSize -> Byte] /\ bytes \in Seq(Byte)
      BY <1>2, Fields DEF ChatAssumption, Bytes
    <3>3. Filled(server.slot, bytes) \in [1 .. IntSize -> Byte]
      BY <3>2, FilledIs
    <3> QED
      BY <3>1, <3>3 DEF TypeInv, ServerType
  <2> QED
    BY <2>1, <2>2
<1> QED
  BY <1>1, <1>3, <1>4 DEF TypeInv

\* The reply to a datagram is as long as announced.
LEMMA ReplyIs ==
  ASSUME ChatAssumption, TypeInv, NEW bytes \in Bytes
  PROVE  LET message == Filled([i \in 1 .. announced |-> Unknown], bytes) IN
         Swapped(message) \in Datagrams /\ Len(Swapped(message)) = announced
<1> DEFINE S == Byte \cup {Unknown}
           blank == [i \in 1 .. announced |-> Unknown]
           message == Filled(blank, bytes)
<1>1. announced \in Nat
  BY AnnouncedIs
<1>2. blank \in [1 .. announced -> S] /\ bytes \in Seq(S)
  BY DEF Bytes
<1>3. message \in Seq(S) /\ Len(message) = announced
  <2> HIDE DEF S, blank
  <2> QED
    BY <1>1, <1>2, FilledIs
<1>4. Swapped(message) \in Seq(S) /\ Len(Swapped(message)) = Len(message)
  <2> HIDE DEF S, message
  <2> QED
    BY <1>3, SwappedIs
<1> QED
  BY <1>3, <1>4 DEF Datagrams

\* It receives a text.
LEMMA ReceiveTextTypes ==
  ASSUME ChatAssumption, TypeInv, ReceiveText
  PROVE  TypeInv'
<1> DEFINE d == Head(net.inbox)
           reply == Swapped(Filled([i \in 1 .. announced |-> Unknown], d.bytes))
           read == [net EXCEPT !.inbox = Tail(@)]
<1>1. /\ server.at = "text" /\ net.inbox # <<>> /\ client' = client
      /\ \/ server' = [server EXCEPT !.at = "down"] /\ net' = read
         \/ server' = [server EXCEPT !.at = "size", !.reset = TRUE] /\ net' = read
         \/ /\ server' = [server EXCEPT !.at = "size"] /\ ~(announced > MaxDatagram)
            /\ net' = [read EXCEPT !.replies[d.from] = Append(@, reply)]
  BY DEF ReceiveText
<1>2. d.from \in Clients /\ d.bytes \in Bytes /\ Tail(net.inbox) \in Seq(Datagram)
  BY <1>1, Heads
<1>3. server' \in ServerType
  BY <1>1 DEF TypeInv, ServerType
<1>4. CASE net' = read
  <2>1. net' \in NetType /\ net'.replies = net.replies
    BY <1>2, <1>4 DEF TypeInv, NetType
  <2> QED
    BY <1>1, <1>3, <2>1 DEF TypeInv
<1>5. CASE net' # read
  <2>1. ~(announced > MaxDatagram) /\ net' = [read EXCEPT !.replies[d.from] = Append(@, reply)]
    BY <1>1, <1>5
  <2>2. reply \in Datagrams /\ Len(reply) = announced
    BY <1>2, ReplyIs
  <2>3. Len(reply) <= MaxDatagram
    BY <2>1, <2>2, AnnouncedIs DEF ChatAssumption
  <2> HIDE DEF reply
  <2> DEFINE more == Append(net.replies[d.from], reply)
  <2>4. net.replies[d.from] \in Seq(Datagrams)
    BY <1>2, Fields
  <2>5. more \in Seq(Datagrams)
    BY <2>2, <2>4
  <2>6. \A i \in 1 .. Len(more) : Len(more[i]) <= MaxDatagram
    <3>1. \A i \in 1 .. Len(net.replies[d.from]) : Len(net.replies[d.from][i]) <= MaxDatagram
      BY <1>2 DEF TypeInv
    <3> DEFINE old == net.replies[d.from]
    <3>2. old \in Seq(Datagrams) /\ more = Append(old, reply)
      BY <2>4
    <3> HIDE DEF old, d
    <3> SUFFICES ASSUME NEW i \in 1 .. Len(Append(old, reply)) PROVE Len(Append(old, reply)[i]) <= MaxDatagram
      BY <3>2
    <3>3. i \in 1 .. Len(old) => Append(old, reply)[i] = old[i]
      BY <3>2
    <3>4. i \notin 1 .. Len(old) => Append(old, reply)[i] = reply
      BY <3>2
    <3> QED
      BY <2>3, <3>1, <3>3, <3>4 DEF old
  <2> HIDE DEF more
  <2>7. net' = [net EXCEPT !.inbox = Tail(@), !.replies = [@ EXCEPT ![d.from] = more]]
    BY <2>1, Fields DEF more, TypeInv, NetType
  <2>8. net' \in NetType /\ net'.replies = [net.replies EXCEPT ![d.from] = more]
    BY <1>2, <2>5, <2>7 DEF TypeInv, NetType
  <2> QED
    BY <1>1, <1>2, <1>3, <2>6, <2>8 DEF TypeInv, NetType
<1> QED
  BY <1>4, <1>5

\* A client sends a datagram.
LEMMA SendToTypes ==
  ASSUME TypeInv, NEW c \in Clients, NEW text \in Entered, NEW bytes \in Bytes, SendTo(c, text, bytes)
  PROVE  /\ net' \in NetType /\ net'.replies = net.replies
         /\ net'.mixed = (net.mixed \/ Between(c) \/ Oversized(text))
         /\ net'.inbox = IF server.at = "down" THEN net.inbox
                         ELSE Append(net.inbox, [from |-> c, bytes |-> bytes])
<1> DEFINE new == IF server.at = "down" THEN net.inbox ELSE Append(net.inbox, [from |-> c, bytes |-> bytes])
           mixed == net.mixed \/ Between(c) \/ Oversized(text)
<1>1. net' = [net EXCEPT !.mixed = mixed, !.inbox = new]
  BY DEF SendTo
<1>2. [from |-> c, bytes |-> bytes] \in Datagram /\ net.inbox \in Seq(Datagram)
  BY Fields DEF Datagram
<1>3. new \in Seq(Datagram) /\ mixed \in BOOLEAN
  BY <1>2, Fields
<1> HIDE DEF new, mixed
<1>4. net' \in NetType /\ net'.replies = net.replies /\ net'.mixed = mixed /\ net'.inbox = new
  BY <1>1, <1>3 DEF TypeInv, NetType
<1> QED
  BY <1>4 DEF new, mixed

\* A client sends a size.
LEMMA SendSizeTypes ==
  ASSUME ChatAssumption, TypeInv, NEW c \in Clients, NEW text \in Texts, SendSize(c, text)
  PROVE  TypeInv'
<1>1. /\ client[c].entered < MaxTexts /\ SendTo(c, text, Announces(text)) /\ server' = server
      /\ client' = [client EXCEPT ![c] = [at |-> "sized", typed |-> text, shown |-> <<>>,
                                         entered |-> client[c].entered + 1]]
  BY DEF SendSize, Announces
<1>2. text \in Entered /\ <<>> \in Datagrams /\ client[c].entered + 1 \in 0 .. MaxTexts
  BY <1>1, Fields DEF Entered, Datagrams, ChatAssumption
<1>3. Announces(text) \in Bytes
  BY <1>2, AnnouncesIs
<1>4. net' \in NetType /\ net'.replies = net.replies
  BY <1>1, <1>2, <1>3, SendToTypes
<1>5. client' \in [Clients -> ClientType]
  BY <1>1, <1>2 DEF TypeInv, ClientType
<1> QED
  BY <1>1, <1>4, <1>5 DEF TypeInv

\* It sends a text.
LEMMA SendTextTypes ==
  ASSUME ChatAssumption, TypeInv, NEW c \in Clients, SendText(c)
  PROVE  TypeInv'
<1>1. /\ SendTo(c, client[c].typed, client[c].typed) /\ server' = server
      /\ client' = [client EXCEPT ![c].at = "waiting"]
  BY DEF SendText
<1>2. client[c].typed \in Entered
  BY Fields
<1>3. client[c].typed \in Bytes
  BY <1>2, AnnouncesIs
<1>4. net' \in NetType /\ net'.replies = net.replies
  BY <1>1, <1>2, <1>3, SendToTypes
<1>5. client' \in [Clients -> ClientType] /\ client'[c].at = "waiting"
  BY <1>1 DEF TypeInv, ClientType
<1>6. \A d \in Clients \ {c} : client'[d] = client[d]
  BY <1>1
<1> QED
  BY <1>1, <1>4, <1>5, <1>6 DEF TypeInv

\* A client that ends.
LEMMA QuitTypes ==
  ASSUME ChatAssumption, TypeInv, NEW c \in Clients, Quit(c)
  PROVE  /\ client' \in [Clients -> ClientType] /\ client'[c].at = "gone"
         /\ \A d \in Clients \ {c} : client'[d] = client[d]
<1>1. client' = [client EXCEPT ![c] = [NoText EXCEPT !.at = "gone"]]
  BY DEF Quit
<1>2. <<>> \in Datagrams /\ <<>> \in Entered /\ 0 \in 0 .. MaxTexts
  BY DEF Datagrams, Entered, ChatAssumption
<1>3. [NoText EXCEPT !.at = "gone"] \in ClientType /\ [NoText EXCEPT !.at = "gone"].at = "gone"
  BY <1>2 DEF NoText, ClientType
<1> QED
  BY <1>1, <1>3 DEF TypeInv

\* A reply is taken from the queue of a client.
LEMMA TakeReply ==
  ASSUME TypeInv, NEW c \in Clients, net.replies[c] # <<>>
  PROVE  LET rest == Tail(net.replies[c]) IN
         /\ rest \in Seq(Datagrams) /\ \A i \in 1 .. Len(rest) : Len(rest[i]) <= MaxDatagram
         /\ Head(net.replies[c]) \in Datagrams
<1> DEFINE q == net.replies[c]
<1>1. q \in Seq(Datagrams) /\ q # <<>> /\ \A i \in 1 .. Len(q) : Len(q[i]) <= MaxDatagram
  BY Fields DEF TypeInv
<1> HIDE DEF q
<1>2. /\ Head(q) \in Datagrams /\ Tail(q) \in Seq(Datagrams)
      /\ Len(Tail(q)) = Len(q) - 1 /\ \A i \in 1 .. Len(q) - 1 : Tail(q)[i] = q[i + 1]
  BY <1>1
<1>3. ASSUME NEW i \in 1 .. Len(Tail(q)) PROVE Len(Tail(q)[i]) <= MaxDatagram
  <2>1. i \in 1 .. Len(q) - 1 /\ i + 1 \in 1 .. Len(q)
    BY <1>1, <1>2
  <2> QED
    BY <1>1, <1>2, <2>1
<1> QED
  BY <1>2, <1>3 DEF q

\* It shows a reply.
LEMMA ShowReplyTypes ==
  ASSUME ChatAssumption, TypeInv, NEW c \in Clients, ShowReply(c)
  PROVE  TypeInv'
<1> DEFINE rest == Tail(net.replies[c])
           reply == Head(net.replies[c])
           response == [i \in DOMAIN client[c].typed |-> Unknown]
<1>1. /\ client[c].at = "waiting" /\ net.replies[c] # <<>> /\ server' = server
      /\ net' = [net EXCEPT !.replies[c] = Tail(@)]
  BY DEF ShowReply
<1>2. /\ rest \in Seq(Datagrams) /\ \A i \in 1 .. Len(rest) : Len(rest[i]) <= MaxDatagram
      /\ reply \in Datagrams
  BY <1>1, TakeReply
<1>3. /\ net' \in NetType /\ net'.replies = [net.replies EXCEPT ![c] = rest]
      /\ \A d \in Clients : \A i \in 1 .. Len(net'.replies[d]) : Len(net'.replies[d][i]) <= MaxDatagram
  <2> HIDE DEF rest
  <2>1. net' = [net EXCEPT !.replies = [@ EXCEPT ![c] = rest]]
    BY <1>1, Fields DEF rest
  <2>2. net' \in NetType /\ net'.replies = [net.replies EXCEPT ![c] = rest]
    BY <1>2, <2>1 DEF TypeInv, NetType
  <2> QED
    BY <1>2, <2>2 DEF TypeInv, NetType
<1>4. CASE Len(reply) > Len(response)
  <2>1. Quit(c)
    BY <1>4 DEF ShowReply
  <2> QED
    BY <1>1, <1>3, <2>1, QuitTypes DEF TypeInv
<1>5. CASE ~(Len(reply) > Len(response))
  <2> DEFINE shown == Filled(response, reply)
             n == Len(client[c].typed)
  <2>1. client' = [client EXCEPT ![c].at = "asked", ![c].shown = shown]
    BY <1>5 DEF ShowReply
  <2>2. n \in Nat /\ DOMAIN client[c].typed = 1 .. n
    <3>1. client[c].typed \in Seq(Byte)
      BY Fields, AnnouncesIs DEF Bytes
    <3> QED
      BY <3>1
  <2>3. shown \in Datagrams /\ Len(shown) = n
    <3> DEFINE S == Byte \cup {Unknown}
    <3>1. response \in [1 .. n -> S] /\ reply \in Seq(S)
      BY <1>2, <2>2 DEF Datagrams
    <3> HIDE DEF S, response, reply, n
    <3>2. Filled(response, reply) \in Seq(S) /\ Len(Filled(response, reply)) = n
      BY <2>2, <3>1, FilledIs
    <3> QED
      BY <3>2 DEF S, Datagrams
  <2> HIDE DEF shown
  <2>4. /\ client' \in [Clients -> ClientType] /\ Len(client'[c].shown) = Len(client'[c].typed)
        /\ \A d \in Clients \ {c} : client'[d] = client[d]
    BY <2>1, <2>3 DEF TypeInv, ClientType
  <2> QED
    BY <1>1, <1>3, <2>4 DEF TypeInv
<1> QED
  BY <1>4, <1>5

\* It leaves.
LEMMA LeaveTypes ==
  ASSUME ChatAssumption, TypeInv, NEW c \in Clients, Leave(c)
  PROVE  TypeInv'
<1>1. Quit(c) /\ server' = server
      /\ net' = [net EXCEPT !.mixed = @ \/ client[c].at = "sized", !.replies[c] = <<>>]
  BY DEF Leave
<1>2. net' \in NetType /\ net'.replies = [net.replies EXCEPT ![c] = <<>>]
  <2> DEFINE mixed == net.mixed \/ client[c].at = "sized"
  <2>1. mixed \in BOOLEAN /\ net' = [net EXCEPT !.mixed = mixed, !.replies = [@ EXCEPT ![c] = <<>>]]
    BY <1>1, Fields
  <2>2. <<>> \in Seq(Datagrams)
    OBVIOUS
  <2> HIDE DEF mixed
  <2> QED
    BY <2>1, <2>2 DEF TypeInv, NetType
<1>3. \A d \in Clients : \A i \in 1 .. Len(net'.replies[d]) : Len(net'.replies[d][i]) <= MaxDatagram
  <2>1. net'.replies[c] = <<>> /\ \A d \in Clients \ {c} : net'.replies[d] = net.replies[d]
    BY <1>2, Fields
  <2>2. ASSUME NEW d \in Clients, NEW i \in 1 .. Len(net'.replies[d]) PROVE Len(net'.replies[d][i]) <= MaxDatagram
    BY <2>1, <2>2 DEF TypeInv
  <2> QED
    BY <2>2
<1> QED
  BY <1>1, <1>2, <1>3, QuitTypes DEF TypeInv

\* A reply is lost.
LEMMA LoseReplyTypes ==
  ASSUME ChatAssumption, TypeInv, NEW c \in Clients, LoseReply(c)
  PROVE  TypeInv'
<1> DEFINE rest == Tail(net.replies[c])
<1>1. /\ net.replies[c] # <<>> /\ UNCHANGED <<server, client>>
      /\ net' = [net EXCEPT !.replies[c] = Tail(@), !.lost = @ \cup {c}]
  BY DEF LoseReply
<1>2. rest \in Seq(Datagrams) /\ \A i \in 1 .. Len(rest) : Len(rest[i]) <= MaxDatagram
  BY <1>1, TakeReply
<1> HIDE DEF rest
<1>3. net' = [net EXCEPT !.replies = [@ EXCEPT ![c] = rest], !.lost = @ \cup {c}]
  BY <1>1, Fields DEF rest
<1>4. net' \in NetType /\ net'.replies = [net.replies EXCEPT ![c] = rest]
  BY <1>2, <1>3 DEF TypeInv, NetType
<1>5. \A d \in Clients : \A i \in 1 .. Len(net'.replies[d]) : Len(net'.replies[d][i]) <= MaxDatagram
  BY <1>2, <1>4 DEF TypeInv, NetType
<1> QED
  BY <1>1, <1>4, <1>5 DEF TypeInv

\* The medium loses, doubles or delays a datagram.
LEMMA MediumTypes ==
  ASSUME TypeInv, Lose \/ Disorder
  PROVE  TypeInv' /\ net'.mixed
<1>1. PICK new \in Seq(Datagram) : net' = [net EXCEPT !.inbox = new, !.mixed = TRUE]
  <2>1. /\ net.inbox # <<>>
        /\ \/ net' = [net EXCEPT !.inbox = Tail(@), !.mixed = TRUE]
           \/ net' = [net EXCEPT !.inbox = <<Head(@)>> \o @, !.mixed = TRUE]
           \/ net' = [net EXCEPT !.inbox = Append(Tail(@), Head(@)), !.mixed = TRUE]
    BY DEF Lose, Disorder
  <2> DEFINE q == net.inbox
  <2>2. q \in Seq(Datagram) /\ q # <<>>
    BY <2>1, Fields
  <2> HIDE DEF q
  <2>3. Tail(q) \in Seq(Datagram) /\ <<Head(q)>> \o q \in Seq(Datagram) /\ Append(Tail(q), Head(q)) \in Seq(Datagram)
    BY <2>2
  <2> QED
    BY <2>1, <2>3 DEF q
<1>2. net' \in NetType /\ net'.replies = net.replies /\ net'.mixed
  BY <1>1 DEF TypeInv, NetType
<1>3. UNCHANGED <<server, client>>
  BY DEF Lose, Disorder
<1> QED
  BY <1>2, <1>3 DEF TypeInv

\* Every step keeps the types.
LEMMA TypeStep == ASSUME ChatAssumption PROVE TypeInv /\ [Next]_vars => TypeInv'
<1> SUFFICES ASSUME TypeInv, [Next]_vars PROVE TypeInv'
  OBVIOUS
<1>1. CASE ServerStep
  BY <1>1, ReceiveSizeTypes, ReceiveTextTypes DEF ServerStep
<1>2. CASE AllocationFails \/ ReceiveFails
  <2>1. server' = [server EXCEPT !.at = "down"] /\ UNCHANGED <<net, client>>
    BY <1>2 DEF AllocationFails, ReceiveFails
  <2>2. server' \in ServerType
    BY <2>1 DEF TypeInv, ServerType
  <2> QED
    BY <2>1, <2>2 DEF TypeInv
<1>3. CASE Lose \/ Disorder
  BY <1>3, MediumTypes
<1>4. ASSUME NEW c \in Clients, ClientStep(c) PROVE TypeInv'
  <2>1. CASE SendTextFails(c)
    BY <2>1, QuitTypes DEF SendTextFails, TypeInv
  <2> QED
    BY <1>4, <2>1, SendTextTypes, ShowReplyTypes DEF ClientStep
<1>5. ASSUME NEW c \in Clients, Continue(c) PROVE TypeInv'
  <2>1. client[c].at = "asked" /\ UNCHANGED <<server, net>>
    BY <1>5 DEF Continue
  <2>2. CASE client' = [client EXCEPT ![c].at = "input"]
    <3>1. client' \in [Clients -> ClientType] /\ client'[c].at = "input" /\ \A d \in Clients \ {c} : client'[d] = client[d]
      BY <2>2 DEF TypeInv, ClientType
    <3> QED
      BY <2>1, <3>1 DEF TypeInv
  <2>3. CASE Quit(c)
    BY <2>1, <2>3, QuitTypes DEF TypeInv
  <2> QED
    BY <1>5, <2>2, <2>3 DEF Continue
<1>6. ASSUME NEW c \in Clients, Unreachable(c) PROVE TypeInv'
  BY <1>6, QuitTypes DEF Unreachable, TypeInv
<1>7. ASSUME NEW c \in Clients, Leave(c) \/ LoseReply(c) PROVE TypeInv'
  BY <1>7, LeaveTypes, LoseReplyTypes
<1>8. ASSUME NEW c \in Clients, NEW text \in Texts, SendSize(c, text) PROVE TypeInv'
  BY <1>8, SendSizeTypes
<1>9. CASE UNCHANGED vars
  BY <1>9 DEF vars, TypeInv
<1> QED
  BY <1>1, <1>2, <1>3, <1>4, <1>5, <1>6, <1>7, <1>8, <1>9 DEF Next

\* Every variable keeps its type, no reply is longer than a datagram, and a reply
\* is printed as long as the text it answers, whatever datagrams are taken for
\* sizes and for texts.
THEOREM TypeCorrect == ASSUME ChatAssumption PROVE Spec => []TypeOK
<1>1. TypeInv => TypeOK
  <2> SUFFICES ASSUME TypeInv PROVE TypeOK
    OBVIOUS
  <2>1. ASSUME NEW i \in DOMAIN net.inbox PROVE net.inbox[i].from \in Clients /\ net.inbox[i].bytes \in Bytes
    <3>1. net.inbox[i] \in Datagram
      BY Fields
    <3> QED
      BY <3>1 DEF Datagram
  <2>2. ASSUME NEW c \in Clients, NEW i \in DOMAIN net.replies[c]
        PROVE  net.replies[c][i] \in Datagrams /\ Len(net.replies[c][i]) <= MaxDatagram
    <3>1. net.replies[c] \in Seq(Datagrams) /\ i \in 1 .. Len(net.replies[c])
      BY Fields
    <3> QED
      BY <3>1 DEF TypeInv
  <2>3. \A c \in Clients : client[c].at = "asked" => Len(client[c].shown) = Len(client[c].typed)
    BY DEF TypeInv
  <2> QED
    BY <2>1, <2>2, <2>3, Fields DEF TypeOK, Entered
<1> QED
  BY <1>1, TypeInit, TypeStep, PTL DEF Spec

-----------------------------------------------------------------------------
(* Pairs.                                                                  *)

\* The pairs are whole at first.
LEMMA PairInit == Init => PairInv
<1> SUFFICES ASSUME Init PROVE PairInv
  OBVIOUS
<1>1. server.at = "size" /\ net.inbox = <<>> /\ \A c \in Clients : net.replies[c] = <<>> /\ client[c].at = "input"
  BY DEF Init, NoText
<1>2. Len(net.inbox) = 0 /\ ~IsSize(0)
  BY <1>1 DEF IsSize
<1>3. SizeFirst /\ SizeLast /\ TextsSent
  BY <1>1, <1>2 DEF SizeFirst, SizeLast, TextsSent
<1> QED
  BY <1>1, <1>3 DEF PairInv, OwnReply, Row

\* Sizes and texts take turns.
LEMMA Turns ==
  ASSUME NEW i \in Nat
  PROVE  IsSize(i + 1) <=> ~IsSize(i)
  BY DEF IsSize

\* The row is as long as the inbox.
LEMMA RowLength ==
  ASSUME TypeInv
  PROVE  Len(net.inbox) \in Nat /\ \A i \in 1 .. Len(net.inbox) : net.inbox[i] \in Datagram
  BY Fields

\* The server takes the first datagram of the row.
LEMMA RowTaken ==
  ASSUME TypeInv, Row, server.at # "down", net.inbox # <<>>, net'.inbox = Tail(net.inbox), client' = client,
         \/ server.at = "size" /\ server'.at = "text" /\ server'.slot = net.inbox[1].bytes
         \/ server.at = "text" /\ server'.at = "size",
         \A c \in Clients :
           net'.replies[c] = net.replies[c] \/ (server.at = "text" /\ c = net.inbox[1].from)
  PROVE  Row'
<1>1. PICK n \in Nat : Len(net.inbox) = n + 1
  <2>1. PICK m \in Nat : m = Len(net.inbox)
    BY RowLength
  <2>2. m # 0
    BY <2>1, Heads
  <2>3. m - 1 \in Nat /\ m = (m - 1) + 1
    BY <2>1, <2>2
  <2> QED
    BY <2>1, <2>3
<1>2. Len(net'.inbox) = n /\ \A i \in 1 .. n : net'.inbox[i] = net.inbox[i + 1]
  BY <1>1, Heads
<1>3. SizeFirst /\ SizeLast /\ TextsSent
  BY DEF Row
<1>4. ASSUME NEW i \in Nat PROVE IsSize(i)' <=> IsSize(i + 1)
  BY DEF IsSize
<1>5. ASSUME NEW i \in 0 .. n, IsSize(i)' PROVE SizeAt(i)' = SizeAt(i + 1)
  <2>1. CASE i = 0
    <3>1. server'.at = "text"
      BY <1>5, <2>1 DEF IsSize
    <3> QED
      BY <2>1, <3>1 DEF SizeAt
  <2>2. CASE i # 0
    BY <1>2, <2>2 DEF SizeAt
  <2> QED
    BY <2>1, <2>2
<1>6. SizeFirst'
  <2> SUFFICES ASSUME NEW i \in 0 .. n - 1, IsSize(i)' PROVE SizeAt(i)' = Announces(net'.inbox[i + 1].bytes)
    BY <1>2 DEF SizeFirst, Announces
  <2> DEFINE k == i + 1
  <2>1. k \in 0 .. Len(net.inbox) - 1 /\ k \in 1 .. n /\ i \in 0 .. n /\ i \in Nat
    BY <1>1
  <2>2. IsSize(k) /\ SizeAt(i)' = SizeAt(k)
    BY <1>4, <1>5, <2>1
  <2> HIDE DEF k
  <2>3. SizeAt(k) = Announces(net.inbox[k + 1].bytes)
    BY <1>3, <2>1, <2>2 DEF SizeFirst
  <2>4. net'.inbox[k] = net.inbox[k + 1]
    BY <1>2, <2>1
  <2> QED
    BY <2>2, <2>3, <2>4 DEF k
<1>7. SizeLast'
  <2>1. n \in 0 .. n /\ n \in Nat /\ Len(net'.inbox) = n
    BY <1>2
  <2>2. IsSize(n)' <=> IsSize(Len(net.inbox))
    BY <1>1, <1>4
  <2>3. IsSize(n)' => SizeAt(n)' = SizeAt(Len(net.inbox))
    BY <1>1, <1>5, <2>1
  <2> QED
    BY <1>3, <2>1, <2>2, <2>3 DEF SizeLast, Announces
<1>8. TextsSent'
  <2>1. ASSUME NEW i \in 1 .. n, ~IsSize(i)' PROVE TextOf(i)'
    <3> DEFINE k == i + 1
    <3>1. k \in 1 .. Len(net.inbox) /\ ~IsSize(k) /\ k # 1 /\ 1 \in 1 .. Len(net.inbox) /\ i \in 1 .. n
      BY <1>1, <1>4, <2>1
    <3>2. net'.inbox[i] = net.inbox[k]
      BY <1>2, <3>1
    <3> HIDE DEF k
    <3>3. TextOf(k)
      BY <1>3, <3>1 DEF TextsSent
    <3>4. net.inbox[k].from \in Clients
      BY <3>1, RowLength DEF Datagram
    <3>5. client[net.inbox[k].from].at # "gone" => net'.replies[net.inbox[k].from] = net.replies[net.inbox[k].from]
      <4>1. server.at = "text" => ~IsSize(1)
        BY DEF IsSize
      <4> QED
        BY <1>3, <3>1, <3>4, <4>1 DEF TextsSent
    <3> QED
      BY <3>2, <3>3, <3>5 DEF TextOf, Oversized
  <2>2. ASSUME NEW i \in 1 .. n, NEW j \in 1 .. n, ~IsSize(i)', ~IsSize(j)',
               net'.inbox[i].from = net'.inbox[j].from, client[net'.inbox[i].from].at # "gone"
        PROVE  i = j
    <3> DEFINE k == i + 1
               l == j + 1
    <3>1. k \in 1 .. Len(net.inbox) /\ l \in 1 .. Len(net.inbox) /\ ~IsSize(k) /\ ~IsSize(l)
      <4>1. i \in Nat /\ j \in Nat /\ k \in 1 .. n + 1 /\ l \in 1 .. n + 1
        BY <1>1
      <4>2. ~IsSize(i + 1) /\ ~IsSize(j + 1)
        BY <1>4, <2>2, <4>1
      <4> QED
        BY <1>1, <4>1, <4>2
    <3>2. net'.inbox[i] = net.inbox[k] /\ net'.inbox[j] = net.inbox[l]
      BY <1>2
    <3> HIDE DEF k, l
    <3>3. k = l
      BY <1>3, <2>2, <3>1, <3>2 DEF TextsSent
    <3> QED
      BY <3>3 DEF k, l
  <2> QED
    BY <1>2, <2>1, <2>2 DEF TextsSent
<1> QED
  BY <1>6, <1>7, <1>8 DEF Row

\* The row stays, and the clients whose texts are in it wait on, or leave.
LEMMA RowKept ==
  ASSUME TypeInv, Row, net'.inbox = net.inbox, server' = server,
         \A c \in Clients :
           /\ client'[c].at = "sized" <=> client[c].at = "sized"
           /\ client[c].at = "sized" => client'[c].typed = client[c].typed
           /\ client'[c].at # "gone" => client[c].at # "gone"
           /\ client'[c].at # "gone" /\ client[c].at = "waiting" /\ net.replies[c] = <<>> =>
                client'[c].at = "waiting" /\ client'[c].typed = client[c].typed /\ net'.replies[c] = <<>>
  PROVE  Row'
<1> SUFFICES ASSUME server.at # "down" PROVE SizeFirst' /\ SizeLast' /\ TextsSent'
  BY DEF Row
<1>1. SizeFirst /\ SizeLast /\ TextsSent
  BY DEF Row
<1>2. \A i : (IsSize(i)' <=> IsSize(i)) /\ SizeAt(i)' = SizeAt(i)
  BY DEF IsSize, SizeAt
<1>3. SizeFirst'
  BY <1>1, <1>2 DEF SizeFirst, Announces
<1>4. SizeLast'
  BY <1>1, <1>2 DEF SizeLast, Announces
<1>5. \A i \in 1 .. Len(net.inbox) : net.inbox[i].from \in Clients
  BY RowLength DEF Datagram
<1>6. ASSUME NEW i \in 1 .. Len(net.inbox), ~IsSize(i)' PROVE TextOf(i)'
  <2>1. TextOf(i)
    BY <1>1, <1>2, <1>6 DEF TextsSent
  <2> QED
    BY <1>5, <2>1 DEF TextOf, Oversized
<1>7. TextsSent'
  BY <1>1, <1>2, <1>5, <1>6 DEF TextsSent
<1> QED
  BY <1>3, <1>4, <1>7

\* Each action keeps the pairs whole: the server receives a size.
LEMMA ReceiveSizePairs ==
  ASSUME ChatAssumption, TypeInv, PairInv, ~net.mixed, ReceiveSize
  PROVE  PairInv'
<1>1. /\ server.at = "size" /\ net.inbox # <<>> /\ net' = [net EXCEPT !.inbox = Tail(@)] /\ client' = client
  BY DEF ReceiveSize
<1>2. net'.inbox = Tail(net.inbox) /\ net'.replies = net.replies /\ net'.mixed = net.mixed
  BY <1>1 DEF TypeInv, NetType
<1>3. Row
  BY DEF PairInv
<1>4. PICK size \in Bytes : size = net.inbox[1].bytes
  BY <1>1, Heads
<1>5. Len(size) = IntSize
  <2>1. PICK text \in Entered : size = Announces(text)
    <3>1. IsSize(1) /\ SizeAt(1) = size /\ 1 \in 1 .. Len(net.inbox)
      BY <1>1, <1>4, Heads DEF IsSize, SizeAt
    <3>2. CASE Len(net.inbox) = 1
      <4>1. PICK c \in Clients : client[c].at = "sized"
        BY <1>1, <1>3, <3>1, <3>2 DEF Row, SizeLast
      <4>2. SizeAt(1) = Announces(client[c].typed)
        BY <1>1, <1>3, <3>2, <4>1 DEF Row, SizeLast
      <4> QED
        BY <3>1, <4>2, Fields
    <3>3. CASE Len(net.inbox) # 1
      <4>1. PICK m \in Nat : m = Len(net.inbox)
        BY RowLength
      <4>1a. m \in Nat /\ 1 \in 1 .. m /\ m # 1
        BY <3>1, <3>3, <4>1
      <4>1b. m >= 2
        BY <4>1a
      <4>2. 1 \in 0 .. m - 1 /\ 2 \in 1 .. m
        BY <4>1a, <4>1b
      <4>3. SizeAt(1) = Announces(net.inbox[1 + 1].bytes)
        BY <1>1, <1>3, <3>1, <4>1, <4>2 DEF Row, SizeFirst
      <4>4. ~IsSize(2)
        BY <1>1 DEF IsSize
      <4>5. net.inbox[2].bytes \in Entered
        BY <1>1, <1>3, <4>1, <4>2, <4>4 DEF Row, TextsSent, TextOf
      <4> QED
        BY <3>1, <4>3, <4>5
    <3> QED
      BY <3>2, <3>3
  <2> QED
    BY <2>1, AnnouncesIs
<1>6. server'.at = "text" /\ server'.slot = net.inbox[1].bytes /\ server'.reset = server.reset
  <2>1. Head(net.inbox).bytes = size
    BY <1>1, <1>4, Heads
  <2>2. IntSize \in Nat /\ server.slot \in [1 .. IntSize -> Byte] /\ size \in Seq(Byte)
    BY Fields DEF ChatAssumption, Bytes
  <2>3. Filled(server.slot, size) = size
    BY <1>5, <2>2, FilledIs
  <2>4. ~(Len(size) > IntSize)
    BY <1>5, <2>2
  <2>5. server' = [server EXCEPT !.at = "text", !.slot = Filled(@, size)]
    BY <2>1, <2>4 DEF ReceiveSize
  <2> QED
    BY <1>4, <2>3, <2>5 DEF TypeInv, ServerType
<1>7. Row'
  BY <1>1, <1>2, <1>3, <1>6, RowTaken
<1>8. \A c \in Clients : OwnReply(c)'
  BY <1>1, <1>2 DEF PairInv, OwnReply, Oversized
<1> QED
  BY <1>6, <1>7, <1>8 DEF PairInv

\* The text the server waits for is the one it was announced, if it has arrived, and
\* about to be sent if not.
LEMMA AnnouncedText ==
  ASSUME ChatAssumption, TypeInv, PairInv, ~net.mixed, server.at = "text"
  PROVE  /\ announced <= MaxDatagram
         /\ net.inbox # <<>> => ~IsSize(1) /\ TextOf(1) /\ announced = Len(net.inbox[1].bytes)
<1>1. Row /\ IsSize(0) /\ ~IsSize(1) /\ SizeAt(0) = server.slot
  BY DEF PairInv, IsSize, SizeAt
<1>2. SizeFirst /\ SizeLast /\ TextsSent
  BY <1>1 DEF Row
<1>3. ASSUME NEW text \in Entered, ~Oversized(text), server.slot = Announces(text)
      PROVE  announced = Len(text) /\ announced <= MaxDatagram
  <2>1. announced = Len(text) /\ Len(text) \in Nat /\ MaxDatagram \in Nat
    BY <1>3, AnnouncesIs DEF announced, ChatAssumption
  <2> QED
    BY <1>3, <2>1 DEF Oversized
<1>4. CASE net.inbox = <<>>
  <2>1. PICK c \in Clients : client[c].at = "sized"
    BY <1>1, <1>2, <1>4 DEF SizeLast
  <2>2. server.slot = Announces(client[c].typed)
    BY <1>1, <1>2, <1>4, <2>1 DEF SizeLast
  <2>3. ~Oversized(client[c].typed) /\ client[c].typed \in Entered
    BY <2>1, Fields DEF PairInv, OwnReply
  <2> QED
    BY <1>3, <1>4, <2>2, <2>3
<1>5. CASE net.inbox # <<>>
  <2>1. PICK m \in Nat : m = Len(net.inbox)
    BY RowLength
  <2>2. 1 \in 1 .. m /\ 0 \in 0 .. m - 1
    BY <1>5, <2>1, Heads
  <2>3. server.slot = Announces(net.inbox[0 + 1].bytes) /\ TextOf(1)
    BY <1>1, <1>2, <2>1, <2>2 DEF SizeFirst, TextsSent
  <2>4. net.inbox[1].bytes \in Entered /\ ~Oversized(net.inbox[1].bytes)
    BY <2>3 DEF TextOf
  <2> QED
    BY <1>1, <1>3, <2>3, <2>4
<1> QED
  BY <1>4, <1>5

\* It receives the text that belongs to it, and replies to its sender.
LEMMA ReceiveTextPairs ==
  ASSUME ChatAssumption, TypeInv, PairInv, ~net.mixed, ReceiveText
  PROVE  PairInv'
<1> DEFINE d == Head(net.inbox)
           reply == Swapped(Filled([i \in 1 .. announced |-> Unknown], d.bytes))
           read == [net EXCEPT !.inbox = Tail(@)]
<1>1. server.at = "text" /\ net.inbox # <<>> /\ client' = client
  BY DEF ReceiveText
<1>2. /\ d = net.inbox[1] /\ d.from \in Clients /\ d.bytes \in Bytes /\ Row
      /\ 1 \in 1 .. Len(net.inbox)
  BY <1>1, Heads DEF PairInv
<1>3. announced <= MaxDatagram /\ TextOf(1) /\ announced = Len(d.bytes)
  BY <1>1, <1>2, AnnouncedText
<1>4. announced \in Nat /\ MaxDatagram \in Nat
  BY AnnouncedIs DEF ChatAssumption
<1>5. ~(announced > MaxDatagram \/ Len(d.bytes) > announced)
  BY <1>3, <1>4
<1>6. CASE client[d.from].at = "gone"
  <2>1. server' = [server EXCEPT !.at = "size", !.reset = TRUE] /\ net' = read
    BY <1>5, <1>6 DEF ReceiveText
  <2>2. server'.at = "size" /\ net'.inbox = Tail(net.inbox) /\ net'.replies = net.replies
    BY <2>1 DEF TypeInv, ServerType, NetType
  <2>3. Row'
    BY <1>1, <1>2, <2>2, RowTaken
  <2>4. \A c \in Clients : OwnReply(c)'
    BY <1>1, <2>2 DEF PairInv, OwnReply, Oversized
  <2> QED
    BY <2>2, <2>3, <2>4 DEF PairInv
<1>7. CASE client[d.from].at # "gone"
  <2>1. /\ server' = [server EXCEPT !.at = "size"]
        /\ net' = [read EXCEPT !.replies[d.from] = Append(@, reply)]
    BY <1>5, <1>7 DEF ReceiveText
  <2>2. reply = Swapped(d.bytes)
    <3> DEFINE S == Byte \cup {Unknown}
               blank == [i \in 1 .. announced |-> Unknown]
    <3>1. blank \in [1 .. announced -> S] /\ d.bytes \in Seq(S)
      BY <1>2 DEF Bytes
    <3> HIDE DEF S, blank, d
    <3>2. Filled(blank, d.bytes) = d.bytes
      BY <1>3, <1>4, <3>1, FilledIs
    <3> QED
      BY <3>2 DEF blank
  <2> HIDE DEF reply
  <2>3. /\ client[d.from].at = "waiting" /\ client[d.from].typed = d.bytes /\ net.replies[d.from] = <<>>
    BY <1>2, <1>3, <1>7 DEF TextOf
  <2>4. /\ net'.inbox = Tail(net.inbox) /\ net'.mixed = net.mixed
        /\ net'.replies = [net.replies EXCEPT ![d.from] = Append(@, reply)]
    BY <2>1 DEF TypeInv, NetType
  <2>5. server'.at = "size"
    BY <2>1 DEF TypeInv, ServerType
  <2>6. /\ net'.replies[d.from] = <<reply>>
        /\ \A c \in Clients \ {d.from} : net'.replies[c] = net.replies[c]
    <3>1. Append(<<>>, reply) = <<reply>>
      OBVIOUS
    <3>2. net.replies \in [Clients -> Seq(Datagrams)]
      BY Fields
    <3> HIDE DEF d
    <3> QED
      BY <1>2, <2>3, <2>4, <3>1, <3>2
  <2>7. Row'
    <3>1. \A c \in Clients : net'.replies[c] = net.replies[c] \/ (server.at = "text" /\ c = net.inbox[1].from)
      BY <1>1, <1>2, <2>6
    <3> QED
      BY <1>1, <1>2, <2>4, <2>5, <3>1, RowTaken
  <2>8. ASSUME NEW c \in Clients PROVE OwnReply(c)'
    <3>1. OwnReply(c)
      BY DEF PairInv
    <3>2. CASE c = d.from
      BY <1>1, <2>2, <2>3, <2>6, <3>1, <3>2 DEF OwnReply, Oversized
    <3>3. CASE c # d.from
      BY <1>1, <2>6, <3>1, <3>3 DEF OwnReply, Oversized
    <3> QED
      BY <3>2, <3>3
  <2> QED
    BY <2>5, <2>7, <2>8 DEF PairInv
<1> QED
  BY <1>6, <1>7

\* A datagram is appended to the row.
LEMMA RowExtended ==
  ASSUME TypeInv, server' = server, NEW d \in Datagram, net'.inbox = Append(net.inbox, d),
         NEW n \in Nat, n = Len(net.inbox)
  PROVE  /\ Len(net'.inbox) = n + 1 /\ net'.inbox[n + 1] = d
         /\ \A i \in 1 .. n : net'.inbox[i] = net.inbox[i]
         /\ \A i : IsSize(i)' <=> IsSize(i)
         /\ \A i \in 0 .. n : SizeAt(i)' = SizeAt(i)
         /\ SizeAt(n + 1)' = d.bytes
<1> DEFINE q == net.inbox
           r == net'.inbox
<1>1. q \in Seq(Datagram) /\ r = Append(q, d) /\ n = Len(q)
  BY Fields
<1> HIDE DEF q, r
<1>2. Len(r) = n + 1 /\ r[n + 1] = d /\ \A i \in 1 .. n : r[i] = q[i]
  BY <1>1
<1>3. \A i : IsSize(i)' <=> IsSize(i)
  BY DEF IsSize
<1>4. \A i \in 0 .. n : SizeAt(i)' = SizeAt(i)
  <2> SUFFICES ASSUME NEW i \in 0 .. n PROVE SizeAt(i)' = SizeAt(i)
    OBVIOUS
  <2>1. CASE i = 0
    BY <2>1 DEF SizeAt
  <2>2. CASE i # 0
    <3>1. i \in 1 .. n
      BY <2>2
    <3> QED
      BY <1>2, <2>2, <3>1 DEF SizeAt, q, r
  <2> QED
    BY <2>1, <2>2
<1>5. SizeAt(n + 1)' = d.bytes
  <2>1. n + 1 # 0
    OBVIOUS
  <2> QED
    BY <1>2, <2>1 DEF SizeAt, r
<1> QED
  BY <1>2, <1>3, <1>4, <1>5 DEF q, r

\* A client sends a size.
LEMMA SendSizePairs ==
  ASSUME ChatAssumption, TypeInv, PairInv, ~net.mixed, NEW c \in Clients, NEW text \in Texts,
         SendSize(c, text), ~net'.mixed
  PROVE  PairInv'
<1>1. /\ client[c].at = "input" /\ SendTo(c, text, Announces(text)) /\ server' = server
      /\ client' = [client EXCEPT ![c] = [at |-> "sized", typed |-> text, shown |-> <<>>,
                                         entered |-> client[c].entered + 1]]
  BY DEF SendSize, Announces
<1>2. text \in Entered /\ Announces(text) \in Bytes
  <2>1. text \in Entered
    BY DEF Entered
  <2> QED
    BY <2>1, AnnouncesIs
<1>3. /\ net'.replies = net.replies /\ ~Between(c) /\ ~Oversized(text)
      /\ server.at # "down" => net'.inbox = Append(net.inbox, [from |-> c, bytes |-> Announces(text)])
  BY <1>1, <1>2, SendToTypes
<1>4. /\ client'[c].at = "sized" /\ client'[c].typed = text
      /\ \A d \in Clients \ {c} : client'[d] = client[d] /\ client[d].at # "sized"
  BY <1>1, <1>3 DEF TypeInv, Between
<1>5. ASSUME NEW d \in Clients PROVE OwnReply(d)'
  <2>1. OwnReply(d)
    BY DEF PairInv
  <2>2. CASE d = c
    BY <1>1, <1>3, <1>4, <2>1, <2>2 DEF OwnReply, Oversized
  <2>3. CASE d # c
    BY <1>3, <1>4, <2>1, <2>3 DEF OwnReply, Oversized
  <2> QED
    BY <2>2, <2>3
<1>6. ASSUME server.at # "down" PROVE SizeFirst' /\ SizeLast' /\ TextsSent'
  <2> DEFINE new == [from |-> c, bytes |-> Announces(text)]
  <2>1. new \in Datagram /\ new.bytes = Announces(text) /\ net'.inbox = Append(net.inbox, new)
    BY <1>2, <1>3, <1>6 DEF Datagram
  <2> HIDE DEF new
  <2>2. PICK n \in Nat : n = Len(net.inbox)
    BY RowLength
  <2>3. /\ Len(net'.inbox) = n + 1 /\ net'.inbox[n + 1] = new
        /\ \A i \in 1 .. n : net'.inbox[i] = net.inbox[i]
        /\ \A i : IsSize(i)' <=> IsSize(i)
        /\ \A i \in 0 .. n : SizeAt(i)' = SizeAt(i)
        /\ SizeAt(n + 1)' = new.bytes
    BY <1>1, <2>1, <2>2, RowExtended
  <2>4. SizeFirst /\ SizeLast /\ TextsSent
    BY <1>6 DEF PairInv, Row
  <2>5. ~IsSize(n) /\ IsSize(n + 1)
    <3>1. ~IsSize(n)
      BY <1>1, <1>4, <2>2, <2>4 DEF SizeLast
    <3> QED
      BY <3>1, Turns
  <2>6. SizeFirst'
    <3> SUFFICES ASSUME NEW i \in 0 .. n, IsSize(i)' PROVE SizeAt(i)' = Announces(net'.inbox[i + 1].bytes)
      BY <2>3 DEF SizeFirst, Announces
    <3>1. IsSize(i) /\ i # n
      BY <2>3, <2>5
    <3>2. i \in 0 .. n - 1 /\ i + 1 \in 1 .. n
      BY <3>1
    <3>3. SizeAt(i) = Announces(net.inbox[i + 1].bytes)
      BY <2>2, <2>4, <3>1, <3>2 DEF SizeFirst
    <3> QED
      BY <2>3, <3>2, <3>3
  <2>7. SizeLast'
    BY <1>4, <2>1, <2>3, <2>5 DEF SizeLast, Announces
  <2>8. ASSUME NEW i \in 1 .. n + 1, ~IsSize(i)'
        PROVE  i \in 1 .. n /\ ~IsSize(i) /\ net'.inbox[i] = net.inbox[i] /\ TextOf(i) /\ net.inbox[i].from \in Clients
    <3>1. i \in 1 .. n /\ ~IsSize(i)
      BY <2>3, <2>5, <2>8
    <3> QED
      BY <2>2, <2>3, <2>4, <3>1, RowLength DEF TextsSent, Datagram
  <2>9. ASSUME NEW i \in 1 .. n + 1, ~IsSize(i)' PROVE TextOf(i)'
    <3>1. net'.inbox[i] = net.inbox[i] /\ TextOf(i) /\ net.inbox[i].from \in Clients
      BY <2>8, <2>9
    <3>2. net.inbox[i].from # c
      BY <1>1, <3>1 DEF TextOf
    <3> QED
      BY <1>3, <1>4, <3>1, <3>2 DEF TextOf, Oversized
  <2>10. ASSUME NEW i \in 1 .. n + 1, NEW j \in 1 .. n + 1, ~IsSize(i)', ~IsSize(j)',
                net'.inbox[i].from = net'.inbox[j].from, client'[net'.inbox[i].from].at # "gone"
         PROVE  i = j
    <3>1. /\ i \in 1 .. n /\ ~IsSize(i) /\ net'.inbox[i] = net.inbox[i] /\ TextOf(i) /\ net.inbox[i].from \in Clients
          /\ j \in 1 .. n /\ ~IsSize(j) /\ net'.inbox[j] = net.inbox[j]
      BY <2>8, <2>10
    <3>2. client[net.inbox[i].from].at # "gone"
      BY <1>1, <1>4, <2>10, <3>1
    <3> QED
      BY <2>2, <2>4, <2>10, <3>1, <3>2 DEF TextsSent
  <2> QED
    BY <2>3, <2>6, <2>7, <2>9, <2>10 DEF TextsSent
<1> QED
  BY <1>1, <1>5, <1>6 DEF PairInv, Row

\* It sends the text that belongs to it.
LEMMA SendTextPairs ==
  ASSUME ChatAssumption, TypeInv, PairInv, ~net.mixed, NEW c \in Clients, SendText(c), ~net'.mixed
  PROVE  PairInv'
<1> DEFINE text == client[c].typed
<1>1. /\ client[c].at = "sized" /\ SendTo(c, text, text) /\ server' = server /\ ~Oversized(text)
      /\ client' = [client EXCEPT ![c].at = "waiting"]
  BY DEF SendText
<1>2. text \in Entered /\ text \in Bytes
  <2>1. text \in Entered
    BY Fields
  <2> QED
    BY <2>1, AnnouncesIs
<1>3. /\ net'.replies = net.replies /\ ~Between(c)
      /\ server.at # "down" => net'.inbox = Append(net.inbox, [from |-> c, bytes |-> text])
  BY <1>1, <1>2, SendToTypes
<1>4. /\ client'[c].at = "waiting" /\ client'[c].typed = text /\ client'[c].shown = client[c].shown
      /\ \A d \in Clients \ {c} : client'[d] = client[d] /\ client[d].at # "sized"
      /\ net.replies[c] = <<>>
  BY <1>1, <1>3 DEF TypeInv, ClientType, Between, PairInv, OwnReply
<1> HIDE DEF text
<1>5. ASSUME NEW d \in Clients PROVE OwnReply(d)'
  <2>1. OwnReply(d)
    BY DEF PairInv
  <2>2. CASE d = c
    BY <1>3, <1>4, <2>1, <2>2 DEF OwnReply, Oversized
  <2>3. CASE d # c
    BY <1>3, <1>4, <2>1, <2>3 DEF OwnReply, Oversized
  <2> QED
    BY <2>2, <2>3
<1>6. ASSUME server.at # "down" PROVE SizeFirst' /\ SizeLast' /\ TextsSent'
  <2> DEFINE new == [from |-> c, bytes |-> text]
  <2>1. new \in Datagram /\ new.bytes = text /\ new.from = c /\ net'.inbox = Append(net.inbox, new)
    BY <1>2, <1>3, <1>6 DEF Datagram
  <2> HIDE DEF new
  <2>2. PICK n \in Nat : n = Len(net.inbox)
    BY RowLength
  <2>3. /\ Len(net'.inbox) = n + 1 /\ net'.inbox[n + 1] = new
        /\ \A i \in 1 .. n : net'.inbox[i] = net.inbox[i]
        /\ \A i : IsSize(i)' <=> IsSize(i)
        /\ \A i \in 0 .. n : SizeAt(i)' = SizeAt(i)
    BY <1>1, <2>1, <2>2, RowExtended
  <2>4. SizeFirst /\ SizeLast /\ TextsSent
    BY <1>6 DEF PairInv, Row
  <2>5. IsSize(n) /\ SizeAt(n) = Announces(text) /\ ~IsSize(n + 1)
    <3>1. IsSize(n) /\ SizeAt(n) = Announces(text)
      BY <1>1, <2>2, <2>4 DEF SizeLast, text
    <3> QED
      BY <3>1, Turns
  <2>6. SizeFirst'
    <3> SUFFICES ASSUME NEW i \in 0 .. n, IsSize(i)' PROVE SizeAt(i)' = Announces(net'.inbox[i + 1].bytes)
      BY <2>3 DEF SizeFirst, Announces
    <3>1. CASE i = n
      BY <2>1, <2>3, <2>5, <3>1
    <3>2. CASE i # n
      <4>1. i \in 0 .. n - 1 /\ i + 1 \in 1 .. n
        BY <3>2
      <4>2. SizeAt(i) = Announces(net.inbox[i + 1].bytes)
        BY <2>2, <2>3, <2>4, <4>1 DEF SizeFirst
      <4> QED
        BY <2>3, <4>1, <4>2
    <3> QED
      BY <3>1, <3>2
  <2>7. SizeLast'
    BY <1>4, <2>3, <2>5 DEF SizeLast, Announces
  <2>8. ASSUME NEW i \in 1 .. n, ~IsSize(i)'
        PROVE  ~IsSize(i) /\ net'.inbox[i] = net.inbox[i] /\ TextOf(i) /\ net.inbox[i].from \in Clients
               /\ net.inbox[i].from # c
    <3>1. ~IsSize(i) /\ net'.inbox[i] = net.inbox[i] /\ TextOf(i) /\ net.inbox[i].from \in Clients
      BY <2>2, <2>3, <2>4, <2>8, RowLength DEF TextsSent, Datagram
    <3> QED
      BY <1>1, <3>1 DEF TextOf
  <2>9. ASSUME NEW i \in 1 .. n + 1, ~IsSize(i)' PROVE TextOf(i)'
    <3>1. CASE i = n + 1
      BY <1>1, <1>2, <1>3, <1>4, <2>1, <2>3, <3>1 DEF TextOf, Oversized
    <3>2. CASE i # n + 1
      <4>1. i \in 1 .. n
        BY <3>2
      <4>2. net'.inbox[i] = net.inbox[i] /\ TextOf(i) /\ net.inbox[i].from \in Clients \ {c}
        BY <2>8, <2>9, <4>1
      <4> QED
        BY <1>3, <1>4, <4>2 DEF TextOf, Oversized
    <3> QED
      BY <3>1, <3>2
  <2>10. ASSUME NEW i \in 1 .. n + 1, NEW j \in 1 .. n + 1, ~IsSize(i)', ~IsSize(j)',
                net'.inbox[i].from = net'.inbox[j].from, client'[net'.inbox[i].from].at # "gone"
         PROVE  i = j
    <3>1. ASSUME NEW k \in 1 .. n + 1, ~IsSize(k)', net'.inbox[k].from = c PROVE k = n + 1
      <4>1. k \in 1 .. n \/ k = n + 1
        OBVIOUS
      <4> QED
        BY <2>8, <3>1, <4>1
    <3>2. CASE net'.inbox[i].from = c
      BY <2>10, <3>1, <3>2
    <3>3. CASE net'.inbox[i].from # c
      <4>1. i # n + 1 /\ j # n + 1
        BY <2>1, <2>3, <2>10, <3>3
      <4>2. i \in 1 .. n /\ j \in 1 .. n
        BY <4>1
      <4>3. /\ ~IsSize(i) /\ net'.inbox[i] = net.inbox[i] /\ net.inbox[i].from \in Clients \ {c}
            /\ ~IsSize(j) /\ net'.inbox[j] = net.inbox[j]
        BY <2>8, <2>10, <4>2
      <4>4. client[net.inbox[i].from].at # "gone"
        BY <1>4, <2>10, <4>3
      <4> QED
        BY <2>2, <2>4, <2>10, <4>2, <4>3, <4>4 DEF TextsSent
    <3> QED
      BY <3>2, <3>3
  <2> QED
    BY <2>3, <2>6, <2>7, <2>9, <2>10 DEF TextsSent
<1> QED
  BY <1>1, <1>5, <1>6 DEF PairInv, Row

\* A client that ends, and had not announced a text.
LEMMA QuitPairs ==
  ASSUME ChatAssumption, TypeInv, PairInv, ~net.mixed, NEW c \in Clients, Quit(c), client[c].at # "sized",
         server' = server, net'.inbox = net.inbox,
         \A d \in Clients \ {c} : net'.replies[d] = net.replies[d]
  PROVE  PairInv'
<1>1. client'[c].at = "gone" /\ \A d \in Clients \ {c} : client'[d] = client[d]
  BY QuitTypes
<1>2. Row'
  BY <1>1, RowKept DEF PairInv
<1>3. ASSUME NEW d \in Clients PROVE OwnReply(d)'
  <2>1. OwnReply(d)
    BY DEF PairInv
  <2>2. CASE d = c
    BY <1>1, <2>2 DEF OwnReply
  <2>3. CASE d # c
    BY <1>1, <2>1, <2>3 DEF OwnReply, Oversized
  <2> QED
    BY <2>2, <2>3
<1> QED
  BY <1>2, <1>3 DEF PairInv

\* It shows the reply to its text.
LEMMA ShowReplyPairs ==
  ASSUME ChatAssumption, TypeInv, PairInv, ~net.mixed, NEW c \in Clients, ShowReply(c)
  PROVE  PairInv'
<1> DEFINE text == client[c].typed
           reply == Head(net.replies[c])
           response == [i \in DOMAIN text |-> Unknown]
           n == Len(text)
<1>1. /\ client[c].at = "waiting" /\ net.replies[c] # <<>> /\ server' = server
      /\ net' = [net EXCEPT !.replies[c] = Tail(@)]
  BY DEF ShowReply
<1>2. net.replies[c] = <<Swapped(text)>>
  BY <1>1 DEF PairInv, OwnReply
<1>3. reply = Swapped(text) /\ Tail(net.replies[c]) = <<>>
  BY <1>2
<1>4. text \in Seq(Byte) /\ n \in Nat
  <2>1. text \in Entered
    BY Fields
  <2> QED
    BY <2>1, AnnouncesIs DEF Bytes
<1>5. /\ net'.inbox = net.inbox /\ net'.mixed = net.mixed /\ net'.replies[c] = <<>>
      /\ \A d \in Clients \ {c} : net'.replies[d] = net.replies[d]
  <2>1. net' = [net EXCEPT !.replies = [@ EXCEPT ![c] = <<>>]]
    BY <1>1, <1>3, Fields
  <2> QED
    BY <2>1 DEF TypeInv, NetType
<1>6. reply \in Seq(Byte) /\ Len(reply) = n
  <2> HIDE DEF text
  <2> QED
    BY <1>3, <1>4, SwappedIs
<1>7. Len(response) = n /\ Filled(response, reply) = reply
  <2> DEFINE S == Byte \cup {Unknown}
  <2>1. response \in [1 .. n -> S] /\ reply \in Seq(S)
    BY <1>4, <1>6
  <2>2. Len(response) = n
    BY <1>4, <2>1
  <2> HIDE DEF S, response, reply, n
  <2>3. Filled(response, reply) = reply
    BY <1>4, <1>6, <2>1, FilledIs
  <2> QED
    BY <2>2, <2>3
<1>8. ~(Len(reply) > Len(response))
  BY <1>4, <1>6, <1>7
<1>9. client' = [client EXCEPT ![c].at = "asked", ![c].shown = Filled(response, reply)]
  BY <1>8 DEF ShowReply
<1> HIDE DEF reply, response, n
<1>10. /\ client'[c].at = "asked" /\ client'[c].typed = text /\ client'[c].shown = Swapped(text)
       /\ \A d \in Clients \ {c} : client'[d] = client[d]
  BY <1>3, <1>7, <1>9 DEF TypeInv, ClientType
<1>11. Row'
  BY <1>1, <1>5, <1>10, RowKept DEF PairInv
<1>12. ASSUME NEW d \in Clients PROVE OwnReply(d)'
  <2>1. OwnReply(d)
    BY DEF PairInv
  <2>2. CASE d = c
    BY <1>5, <1>10, <2>2 DEF OwnReply
  <2>3. CASE d # c
    BY <1>5, <1>10, <2>1, <2>3 DEF OwnReply, Oversized
  <2> QED
    BY <2>2, <2>3
<1> QED
  BY <1>1, <1>11, <1>12 DEF PairInv

\* It goes back to its input.
LEMMA ContinuePairs ==
  ASSUME ChatAssumption, TypeInv, PairInv, ~net.mixed, NEW c \in Clients, Continue(c)
  PROVE  PairInv'
<1>1. client[c].at = "asked" /\ UNCHANGED <<server, net>>
  BY DEF Continue
<1>2. CASE Quit(c)
  BY <1>1, <1>2, QuitPairs
<1>3. CASE client' = [client EXCEPT ![c].at = "input"]
  <2>1. /\ client'[c].at = "input" /\ client'[c].typed = client[c].typed /\ client'[c].shown = client[c].shown
        /\ \A d \in Clients \ {c} : client'[d] = client[d]
    BY <1>3 DEF TypeInv, ClientType
  <2>2. Row'
    BY <1>1, <2>1, RowKept DEF PairInv
  <2>3. ASSUME NEW d \in Clients PROVE OwnReply(d)'
    <3>1. OwnReply(d)
      BY DEF PairInv
    <3>2. CASE d = c
      BY <1>1, <2>1, <3>1, <3>2 DEF OwnReply
    <3>3. CASE d # c
      BY <1>1, <2>1, <3>1, <3>3 DEF OwnReply, Oversized
    <3> QED
      BY <3>2, <3>3
  <2> QED
    BY <1>1, <2>2, <2>3 DEF PairInv
<1> QED
  BY <1>2, <1>3 DEF Continue

\* It leaves.
LEMMA LeavePairs ==
  ASSUME ChatAssumption, TypeInv, PairInv, ~net.mixed, NEW c \in Clients, Leave(c), ~net'.mixed
  PROVE  PairInv'
<1>1. Quit(c) /\ server' = server
      /\ net' = [net EXCEPT !.mixed = @ \/ client[c].at = "sized", !.replies[c] = <<>>]
  BY DEF Leave
<1>2. /\ net'.inbox = net.inbox /\ net'.mixed = (net.mixed \/ client[c].at = "sized")
      /\ \A d \in Clients \ {c} : net'.replies[d] = net.replies[d]
  BY <1>1 DEF TypeInv, NetType
<1> QED
  BY <1>1, <1>2, QuitPairs

\* A reply is lost.
LEMMA LoseReplyPairs ==
  ASSUME ChatAssumption, TypeInv, PairInv, ~net.mixed, NEW c \in Clients, LoseReply(c)
  PROVE  PairInv'
<1>1. /\ net.replies[c] # <<>> /\ UNCHANGED <<server, client>>
      /\ net' = [net EXCEPT !.replies[c] = Tail(@), !.lost = @ \cup {c}]
  BY DEF LoseReply
<1>2. /\ net'.inbox = net.inbox /\ net'.mixed = net.mixed /\ net'.replies[c] = Tail(net.replies[c])
      /\ \A d \in Clients \ {c} : net'.replies[d] = net.replies[d]
  BY <1>1 DEF TypeInv, NetType
<1>3. client[c].at # "gone" => net'.replies[c] = <<>>
  <2> SUFFICES ASSUME client[c].at # "gone" PROVE net'.replies[c] = <<>>
    OBVIOUS
  <2>1. PICK reply : net.replies[c] = <<reply>>
    BY <1>1 DEF PairInv, OwnReply
  <2> QED
    BY <1>2, <2>1
<1>4. Row'
  BY <1>1, <1>2, RowKept DEF PairInv
<1>5. ASSUME NEW d \in Clients PROVE OwnReply(d)'
  <2>1. OwnReply(d)
    BY DEF PairInv
  <2>2. CASE d = c
    BY <1>1, <1>3, <2>1, <2>2 DEF OwnReply, Oversized
  <2>3. CASE d # c
    BY <1>1, <1>2, <2>1, <2>3 DEF OwnReply, Oversized
  <2> QED
    BY <2>2, <2>3
<1> QED
  BY <1>1, <1>2, <1>4, <1>5 DEF PairInv

\* Pairs that have mixed stay so; only the medium mixes them without a sender.
LEMMA StaysMixed ==
  ASSUME TypeInv, [Next]_vars, ~net'.mixed, ~(Lose \/ Disorder)
  PROVE  ~net.mixed
<1>1. CASE UNCHANGED vars
  BY <1>1 DEF vars
<1>2. CASE ServerStep
  <2>1. net'.mixed = net.mixed
    BY <1>2 DEF ServerStep, ReceiveSize, ReceiveText, TypeInv, NetType
  <2> QED
    BY <2>1
<1>3. CASE AllocationFails \/ ReceiveFails
  BY <1>3 DEF AllocationFails, ReceiveFails
<1>4. ASSUME NEW c \in Clients,
             SendTextFails(c) \/ ShowReply(c) \/ Continue(c) \/ Unreachable(c) \/ Leave(c) \/ LoseReply(c)
      PROVE  ~net.mixed
  BY <1>4 DEF SendTextFails, ShowReply, Continue, Unreachable, Leave, LoseReply, TypeInv, NetType
<1>5. ASSUME NEW c \in Clients, SendText(c) \/ \E text \in Texts : SendSize(c, text) PROVE ~net.mixed
  BY <1>5 DEF SendText, SendSize, SendTo, TypeInv, NetType
<1> QED
  BY <1>1, <1>2, <1>3, <1>4, <1>5 DEF Next, ClientStep

\* Every step keeps the pairs whole.
LEMMA PairStep == ASSUME ChatAssumption PROVE TypeInv /\ PairInv /\ [Next]_vars => PairInv'
<1> SUFFICES ASSUME TypeInv, PairInv, [Next]_vars, ~net'.mixed PROVE PairInv'
  BY DEF PairInv
<1>1. CASE Lose \/ Disorder
  BY <1>1, MediumTypes
<1>2. ASSUME ~(Lose \/ Disorder) PROVE ~net.mixed
  BY <1>2, StaysMixed
<1> SUFFICES ASSUME ~net.mixed PROVE PairInv'
  BY <1>1, <1>2
<1>3. CASE ServerStep
  BY <1>3, ReceiveSizePairs, ReceiveTextPairs DEF ServerStep
<1>4. CASE AllocationFails
  <2>1. announced <= MaxDatagram /\ announced \in Nat /\ MaxDatagram \in Nat
    BY <1>4, AnnouncedText, AnnouncedIs DEF AllocationFails, ChatAssumption
  <2> QED
    BY <1>4, <2>1 DEF AllocationFails
<1>5. CASE ReceiveFails
  <2>1. server.reset /\ server'.at = "down" /\ server'.reset = server.reset /\ UNCHANGED <<net, client>>
    BY <1>5 DEF ReceiveFails, TypeInv, ServerType
  <2> QED
    BY <2>1 DEF PairInv, Row, OwnReply, Oversized
<1>6. ASSUME NEW c \in Clients, ClientStep(c) PROVE PairInv'
  <2>1. CASE SendTextFails(c)
    BY <2>1 DEF SendTextFails, PairInv, OwnReply
  <2> QED
    BY <1>6, <2>1, SendTextPairs, ShowReplyPairs DEF ClientStep
<1>7. ASSUME NEW c \in Clients, Unreachable(c) PROVE PairInv'
  BY <1>7, QuitPairs DEF Unreachable
<1>8. ASSUME NEW c \in Clients, Continue(c) \/ Leave(c) \/ LoseReply(c) PROVE PairInv'
  BY <1>8, ContinuePairs, LeavePairs, LoseReplyPairs
<1>9. ASSUME NEW c \in Clients, NEW text \in Texts, SendSize(c, text) PROVE PairInv'
  BY <1>9, SendSizePairs
<1>10. CASE UNCHANGED vars
  <2>1. UNCHANGED <<server, net, client>>
    BY <1>10 DEF vars
  <2>2. Row'
    BY <2>1, RowKept DEF PairInv
  <2> QED
    BY <2>1, <2>2 DEF PairInv, OwnReply, Oversized
<1> QED
  BY <1>1, <1>3, <1>4, <1>5, <1>6, <1>7, <1>8, <1>9, <1>10 DEF Next

\* As long as the datagrams come in whole pairs, a client is shown its own text,
\* swapped, and the server goes down only after a client that left with a reply to
\* come.
THEOREM OwnTextShown == ASSUME ChatAssumption PROVE Spec => []OwnText
<1>1. TypeInv /\ PairInv => OwnText
  <2> SUFFICES ASSUME TypeInv, PairInv, ~net.mixed PROVE (server.at = "down" => server.reset)
               /\ \A c \in Clients : client[c].at = "asked" => IsSwapped(client[c].typed, client[c].shown)
    BY DEF OwnText
  <2>1. ASSUME NEW c \in Clients, client[c].at = "asked" PROVE IsSwapped(client[c].typed, client[c].shown)
    <3>1. client[c].shown = Swapped(client[c].typed)
      BY <2>1 DEF PairInv, OwnReply
    <3>2. client[c].typed \in Seq(Byte)
      BY Fields, AnnouncesIs DEF Bytes
    <3> QED
      BY <3>1, <3>2, SwappedIs
  <2> QED
    BY <2>1 DEF PairInv
<1> QED
  BY <1>1, TypeInit, TypeStep, PairInit, PairStep, PTL DEF Spec

-----------------------------------------------------------------------------
(* What a client waits for is on its way.                                  *)

\* A step of a client: the inbox is at most extended.
LEMMA ComingKept ==
  ASSUME TypeInv, ComingInv, ~net.mixed, server' = server, NEW n \in Nat, n = Len(net.inbox),
         Len(net'.inbox) \in Nat, n <= Len(net'.inbox), \A i \in 1 .. n : net'.inbox[i] = net.inbox[i],
         NEW one \in Clients, net.lost \subseteq net'.lost,
         \A d \in Clients \ {one} : client'[d] = client[d] /\ net'.replies[d] = net.replies[d],
         client'[one].at = "waiting" /\ one \notin net'.lost /\ server.at # "down" => Coming(one)'
  PROVE  ComingInv'
<1> SUFFICES ASSUME server.at # "down", NEW c \in Clients \ net'.lost, client'[c].at = "waiting"
             PROVE  Coming(c)'
  BY DEF ComingInv, Coming
<1>1. CASE c = one
  BY <1>1
<1>2. CASE c # one
  <2>1. client'[c] = client[c] /\ net'.replies[c] = net.replies[c] /\ Coming(c)
    BY <1>2 DEF ComingInv
  <2>2. CASE net.replies[c] # <<>>
    BY <2>1, <2>2 DEF Coming
  <2>3. CASE net.replies[c] = <<>>
    <3>1. PICK i \in 1 .. n : ~IsSize(i) /\ net.inbox[i] = [from |-> c, bytes |-> client[c].typed]
      BY <2>1, <2>3 DEF Coming
    <3>2. i \in 1 .. Len(net'.inbox) /\ net'.inbox[i] = net.inbox[i] /\ (IsSize(i)' <=> IsSize(i))
      BY DEF IsSize
    <3> QED
      BY <2>1, <3>1, <3>2 DEF Coming
  <2> QED
    BY <2>2, <2>3
<1> QED
  BY <1>1, <1>2

\* A step of the server takes the first datagram.
LEMMA ComingTaken ==
  ASSUME TypeInv, ComingInv, ~net.mixed, net.inbox # <<>>, net'.inbox = Tail(net.inbox), client' = client,
         (server.at = "size" /\ server'.at = "text") \/ (server.at = "text" /\ server'.at = "size"),
         net'.lost = net.lost,
         \A c \in Clients :
           /\ net.replies[c] # <<>> => net'.replies[c] # <<>>
           /\ server.at = "text" /\ net.inbox[1].from = c /\ client[c].at = "waiting" => net'.replies[c] # <<>>
  PROVE  ComingInv'
<1> SUFFICES ASSUME NEW c \in Clients \ net.lost, client[c].at = "waiting" PROVE Coming(c)'
  BY DEF ComingInv, Coming
<1>1. Coming(c)
  BY DEF ComingInv
<1>2. CASE net'.replies[c] # <<>>
  BY <1>2 DEF Coming
<1>3. CASE net'.replies[c] = <<>>
  <2>1. PICK n \in Nat : n = Len(net.inbox)
    BY RowLength
  <2>2. PICK i \in 1 .. n : ~IsSize(i) /\ net.inbox[i] = [from |-> c, bytes |-> client[c].typed]
    BY <1>1, <1>3, <2>1 DEF Coming
  <2>3. i # 1
    <3>1. CASE server.at = "size"
      BY <2>2, <3>1 DEF IsSize
    <3>2. CASE server.at = "text"
      BY <1>3, <2>2, <3>2
    <3> QED
      BY <3>1, <3>2
  <2> DEFINE k == i - 1
  <2>4. k \in 1 .. n - 1 /\ i = k + 1 /\ k \in Nat
    BY <2>3
  <2>5. Len(net'.inbox) = n - 1 /\ net'.inbox[k] = net.inbox[k + 1]
    BY <2>1, <2>4, Heads
  <2> HIDE DEF k
  <2>6. ~IsSize(k)'
    BY <2>2, <2>4 DEF IsSize
  <2> QED
    BY <2>2, <2>4, <2>5, <2>6 DEF Coming
<1> QED
  BY <1>2, <1>3

\* What a client sends is the last of the inbox.
LEMMA SendToInbox ==
  ASSUME TypeInv, NEW c \in Clients, NEW text \in Entered, NEW bytes \in Bytes, SendTo(c, text, bytes),
         NEW n \in Nat, n = Len(net.inbox), server' = server
  PROVE  /\ net'.lost = net.lost /\ net'.replies = net.replies
         /\ Len(net'.inbox) \in Nat /\ n <= Len(net'.inbox) /\ \A i \in 1 .. n : net'.inbox[i] = net.inbox[i]
         /\ server.at # "down" => Len(net'.inbox) = n + 1 /\ net'.inbox[n + 1] = [from |-> c, bytes |-> bytes]
<1>1. net'.lost = net.lost
  BY DEF SendTo, TypeInv, NetType
<1>2. /\ net'.replies = net.replies
      /\ net'.inbox = IF server.at = "down" THEN net.inbox ELSE Append(net.inbox, [from |-> c, bytes |-> bytes])
  BY SendToTypes
<1>3. [from |-> c, bytes |-> bytes] \in Datagram
  BY DEF Datagram
<1>4. CASE server.at = "down"
  BY <1>1, <1>2, <1>4
<1>5. CASE server.at # "down"
  <2> DEFINE new == [from |-> c, bytes |-> bytes]
  <2>1. new \in Datagram /\ net'.inbox = Append(net.inbox, new)
    BY <1>2, <1>3, <1>5
  <2> HIDE DEF new
  <2>2. Len(net'.inbox) = n + 1 /\ net'.inbox[n + 1] = new /\ \A i \in 1 .. n : net'.inbox[i] = net.inbox[i]
    BY <2>1, RowExtended
  <2> QED
    BY <1>1, <1>2, <2>2 DEF new
<1> QED
  BY <1>4, <1>5

\* Each action: the client sends.
LEMMA SendSizeComing ==
  ASSUME ChatAssumption, TypeInv, ComingInv, ~net.mixed, NEW c \in Clients, NEW text \in Texts, SendSize(c, text)
  PROVE  ComingInv'
<1>1. SendTo(c, text, Announces(text)) /\ server' = server /\ text \in Entered /\ Announces(text) \in Bytes
  BY AnnouncesIs DEF SendSize, Announces, Entered
<1>2. client'[c].at = "sized" /\ \A d \in Clients \ {c} : client'[d] = client[d]
  BY DEF SendSize, TypeInv, ClientType
<1>3. PICK n \in Nat : n = Len(net.inbox)
  BY RowLength
<1>4. /\ net'.lost = net.lost /\ net'.replies = net.replies
      /\ Len(net'.inbox) \in Nat /\ n <= Len(net'.inbox) /\ \A i \in 1 .. n : net'.inbox[i] = net.inbox[i]
  BY <1>1, <1>3, SendToInbox
<1> QED
  BY <1>1, <1>2, <1>3, <1>4, ComingKept

LEMMA SendTextComing ==
  ASSUME ChatAssumption, TypeInv, PairInv, ComingInv, ~net.mixed, NEW c \in Clients, SendText(c)
  PROVE  ComingInv'
<1> DEFINE text == client[c].typed
<1>1. /\ SendTo(c, text, text) /\ server' = server /\ client[c].at = "sized"
      /\ text \in Entered /\ text \in Bytes
  BY Fields, AnnouncesIs DEF SendText
<1>2. client'[c].typed = text /\ \A d \in Clients \ {c} : client'[d] = client[d]
  BY DEF SendText, TypeInv, ClientType
<1> HIDE DEF text
<1>3. PICK n \in Nat : n = Len(net.inbox)
  BY RowLength
<1>4. /\ net'.lost = net.lost /\ net'.replies = net.replies
      /\ Len(net'.inbox) \in Nat /\ n <= Len(net'.inbox) /\ \A i \in 1 .. n : net'.inbox[i] = net.inbox[i]
      /\ server.at # "down" => Len(net'.inbox) = n + 1 /\ net'.inbox[n + 1] = [from |-> c, bytes |-> text]
  BY <1>1, <1>3, SendToInbox
<1>5. ASSUME server.at # "down" PROVE Coming(c)'
  <2>1. IsSize(n)
    BY <1>1, <1>3, <1>5 DEF PairInv, Row, SizeLast
  <2>2. ~IsSize(n + 1)'
    <3>1. ~IsSize(n + 1)
      BY <2>1, Turns
    <3> QED
      BY <1>1, <3>1 DEF IsSize
  <2>3. n + 1 \in 1 .. Len(net'.inbox)
    BY <1>4, <1>5
  <2> QED
    BY <1>2, <1>4, <1>5, <2>2, <2>3 DEF Coming
<1> QED
  BY <1>1, <1>2, <1>3, <1>4, <1>5, ComingKept

\* The client no longer waits, or what was on its way to it is lost.
LEMMA SettledComing ==
  ASSUME TypeInv, ComingInv, ~net.mixed, NEW c \in Clients, server' = server, net'.inbox = net.inbox,
         net.lost \subseteq net'.lost, client'[c].at # "waiting" \/ c \in net'.lost,
         \A d \in Clients \ {c} : client'[d] = client[d] /\ net'.replies[d] = net.replies[d]
  PROVE  ComingInv'
<1>1. PICK n \in Nat : n = Len(net.inbox)
  BY RowLength
<1>2. Len(net'.inbox) \in Nat /\ n <= Len(net'.inbox) /\ \A i \in 1 .. n : net'.inbox[i] = net.inbox[i]
  BY <1>1
<1> QED
  BY <1>1, <1>2, ComingKept

\* The client shows its reply, or leaves.
LEMMA ClientComing ==
  ASSUME ChatAssumption, TypeInv, ComingInv, ~net.mixed, NEW c \in Clients,
         SendTextFails(c) \/ ShowReply(c) \/ Continue(c) \/ Unreachable(c) \/ Leave(c) \/ LoseReply(c)
  PROVE  ComingInv'
<1>1. ASSUME Quit(c)
      PROVE  client'[c].at # "waiting" /\ \A d \in Clients \ {c} : client'[d] = client[d]
  BY <1>1, QuitTypes
<1>2. CASE SendTextFails(c) \/ Unreachable(c)
  BY <1>1, <1>2, SettledComing DEF SendTextFails, Unreachable
<1>3. CASE Leave(c)
  <2>1. net'.inbox = net.inbox /\ net'.lost = net.lost /\ \A d \in Clients \ {c} : net'.replies[d] = net.replies[d]
    BY <1>3 DEF Leave, TypeInv, NetType
  <2> QED
    BY <1>1, <1>3, <2>1, SettledComing DEF Leave
<1>4. CASE LoseReply(c)
  <2>1. /\ net'.inbox = net.inbox /\ net'.lost = net.lost \cup {c}
        /\ \A d \in Clients \ {c} : net'.replies[d] = net.replies[d]
    BY <1>4 DEF LoseReply, TypeInv, NetType
  <2> QED
    BY <1>4, <2>1, SettledComing DEF LoseReply
<1>5. CASE ShowReply(c)
  <2>1. /\ net'.inbox = net.inbox /\ net'.lost = net.lost /\ server' = server
        /\ \A d \in Clients \ {c} : net'.replies[d] = net.replies[d]
    BY <1>5 DEF ShowReply, TypeInv, NetType
  <2>2. Quit(c) \/ \E shown : client' = [client EXCEPT ![c].at = "asked", ![c].shown = shown]
    BY <1>5 DEF ShowReply
  <2>3. client'[c].at # "waiting" /\ \A d \in Clients \ {c} : client'[d] = client[d]
    BY <1>1, <2>2 DEF TypeInv, ClientType
  <2> QED
    BY <2>1, <2>3, SettledComing
<1>6. CASE Continue(c)
  <2>1. UNCHANGED <<server, net>> /\ (Quit(c) \/ client' = [client EXCEPT ![c].at = "input"])
    BY <1>6 DEF Continue
  <2>2. client'[c].at # "waiting" /\ \A d \in Clients \ {c} : client'[d] = client[d]
    BY <1>1, <2>1 DEF TypeInv, ClientType
  <2> QED
    BY <2>1, <2>2, SettledComing
<1> QED
  BY <1>2, <1>3, <1>4, <1>5, <1>6

\* The server receives, or goes down.
LEMMA ServerComing ==
  ASSUME ChatAssumption, TypeInv, ComingInv, ~net.mixed, ServerStep \/ AllocationFails \/ ReceiveFails
  PROVE  ComingInv'
<1>1. CASE server'.at = "down"
  BY <1>1 DEF ComingInv
<1>2. CASE AllocationFails \/ ReceiveFails
  <2>1. server'.at = "down"
    BY <1>2 DEF AllocationFails, ReceiveFails, TypeInv, ServerType
  <2> QED
    BY <1>1, <2>1
<1>3. CASE ReceiveSize /\ server'.at # "down"
  <2>1. /\ server.at = "size" /\ net.inbox # <<>> /\ client' = client
        /\ net'.inbox = Tail(net.inbox) /\ net'.lost = net.lost /\ net'.replies = net.replies
    BY <1>3 DEF ReceiveSize, TypeInv, NetType
  <2>2. server'.at = "text"
    BY <1>3 DEF ReceiveSize, TypeInv, ServerType
  <2>3. \A c \in Clients :
          /\ net.replies[c] # <<>> => net'.replies[c] # <<>>
          /\ server.at = "text" /\ net.inbox[1].from = c /\ client[c].at = "waiting" => net'.replies[c] # <<>>
    BY <2>1
  <2> QED
    BY <2>1, <2>2, <2>3, ComingTaken
<1>4. CASE ReceiveText /\ server'.at # "down"
  <2> DEFINE d == Head(net.inbox)
             reply == Swapped(Filled([i \in 1 .. announced |-> Unknown], d.bytes))
             read == [net EXCEPT !.inbox = Tail(@)]
  <2>1. server.at = "text" /\ net.inbox # <<>> /\ client' = client
    BY <1>4 DEF ReceiveText
  <2>2. d = net.inbox[1] /\ d.from \in Clients
    BY <2>1, Heads
  <2>3. CASE client[d.from].at = "gone"
    <3>1. net' = read /\ (server'.at = "down" \/ server'.at = "size")
      BY <1>4, <2>3 DEF ReceiveText, TypeInv, ServerType
    <3>2. net'.inbox = Tail(net.inbox) /\ net'.lost = net.lost /\ net'.replies = net.replies
      BY <3>1 DEF TypeInv, NetType
    <3> QED
      BY <1>4, <2>1, <2>2, <2>3, <3>1, <3>2, ComingTaken
  <2>4. CASE client[d.from].at # "gone"
    <3>1. /\ server' = [server EXCEPT !.at = "size"]
          /\ net' = [read EXCEPT !.replies[d.from] = Append(@, reply)]
      BY <1>4, <2>4 DEF ReceiveText, TypeInv, ServerType
    <3> HIDE DEF reply
    <3>2. /\ server'.at = "size" /\ net'.inbox = Tail(net.inbox) /\ net'.lost = net.lost
          /\ net'.replies = [net.replies EXCEPT ![d.from] = Append(@, reply)]
      BY <3>1 DEF TypeInv, ServerType, NetType
    <3>3. /\ net'.replies[d.from] # <<>>
          /\ \A c \in Clients \ {d.from} : net'.replies[c] = net.replies[c]
      <4>1. net.replies \in [Clients -> Seq(Datagrams)]
        BY Fields
      <4>2. ASSUME NEW q \in Seq(Datagrams) PROVE Append(q, reply) # <<>>
        OBVIOUS
      <4> HIDE DEF d
      <4> DEFINE more == Append(net.replies[d.from], reply)
      <4>3. more # <<>>
        BY <2>2, <4>1, <4>2
      <4>4. net'.replies = [net.replies EXCEPT ![d.from] = more]
        BY <3>2
      <4> HIDE DEF more
      <4> QED
        BY <2>2, <4>1, <4>3, <4>4
    <3> QED
      BY <2>1, <2>2, <3>2, <3>3, ComingTaken
  <2> QED
    BY <2>3, <2>4
<1> QED
  BY <1>1, <1>2, <1>3, <1>4 DEF ServerStep

LEMMA ComingStep ==
  ASSUME ChatAssumption PROVE TypeInv /\ PairInv /\ ComingInv /\ [Next]_vars => ComingInv'
<1> SUFFICES ASSUME TypeInv, PairInv, ComingInv, [Next]_vars, ~net'.mixed PROVE ComingInv'
  BY DEF ComingInv
<1>1. CASE Lose \/ Disorder
  BY <1>1, MediumTypes
<1>2. CASE ~(Lose \/ Disorder)
  <2>1. ~net.mixed
    BY <1>2, StaysMixed
  <2>2. CASE ServerStep \/ AllocationFails \/ ReceiveFails
    BY <2>1, <2>2, ServerComing
  <2>3. ASSUME NEW c \in Clients,
               ClientStep(c) \/ Continue(c) \/ Unreachable(c) \/ Leave(c) \/ LoseReply(c)
        PROVE  ComingInv'
    BY <2>1, <2>3, ClientComing, SendTextComing DEF ClientStep
  <2>4. ASSUME NEW c \in Clients, NEW text \in Texts, SendSize(c, text) PROVE ComingInv'
    BY <2>1, <2>4, SendSizeComing
  <2>5. CASE UNCHANGED vars
    BY <2>5 DEF vars, ComingInv, Coming, IsSize
  <2> QED
    BY <1>2, <2>2, <2>3, <2>4, <2>5 DEF Next
<1> QED
  BY <1>1, <1>2

\* As long as the datagrams come in whole pairs and the server is up, no client waits
\* for nothing, unless a reply to it was lost: its text is on its way, and the server
\* will take it for a text, or its reply is.
THEOREM TextIsUnderway == ASSUME ChatAssumption PROVE Spec => []Underway
<1>1. ASSUME Init PROVE ComingInv
  <2>1. \A c \in Clients : client[c].at = "input"
    BY <1>1 DEF Init, NoText
  <2> QED
    BY <2>1 DEF ComingInv
<1>2. ASSUME TypeInv, ComingInv PROVE Underway
  <2>1. net.inbox \in Seq(Datagram) /\ DOMAIN net.inbox = 1 .. Len(net.inbox)
    BY <1>2, Fields
  <2> QED
    BY <1>2, <2>1 DEF Underway, ComingInv, Coming
<1> QED
  BY <1>1, <1>2, TypeInit, TypeStep, PairInit, PairStep, ComingStep, PTL DEF Spec

=============================================================================
