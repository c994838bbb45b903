------------------------------ MODULE UDPChat -------------------------------
(***************************************************************************)
(* The CN2 UDP server, which swaps neighbouring characters of a text, and  *)
(* its client.  A text is sent as two datagrams, its size and its          *)
(* characters; the server has one socket for all clients and takes the     *)
(* datagrams in turn for a size and for a text.                            *)
(***************************************************************************)
EXTENDS Naturals, Sequences, Bytes

CONSTANTS
  Clients,
  Texts,        \* what users enter, as sequences of characters (bytes)
  MaxTexts,     \* bound: texts a client enters
  IntSize,      \* sizeof(int)
  MaxDatagram,  \* what fits into a datagram
  Leftovers,    \* what the stack slot of messageSize may hold at first
  Unknown,      \* a byte that was never written
  Faults        \* which of "lose", "duplicate", "reorder", "kill" can happen

\* What the constants have to be.
ChatAssumption ==
  /\ \A t \in Texts : t \in Bytes /\ Len(t) \in Ints(IntSize)
  /\ MaxTexts \in Nat /\ IntSize \in 1 .. 4 /\ MaxDatagram \in Nat
  /\ Leftovers \subseteq [1 .. IntSize -> Byte]
  /\ Unknown \notin Byte
  /\ Faults \subseteq {"lose", "duplicate", "reorder", "kill"}

VARIABLES
  server,  \* at: it waits for a "size" or a "text", or is "down"; slot:
           \* messageSize; reset: a reply met a closed port
  net,     \* inbox: datagrams on their way to the server; replies[c]: to client
           \* c; history: mixed: what arrives may be no row of whole pairs; lost:
           \* clients that a reply to has been lost
  client   \* at: where the client is; typed: buf; shown: the reply printed to
           \* that; entered: how many texts

vars == <<server, net, client>>

NoText == [at |-> "input", typed |-> <<>>, shown |-> <<>>, entered |-> 0]

Init ==
  /\ server \in [at : {"size"}, slot : Leftovers, reset : {FALSE}]
  /\ net = [inbox |-> <<>>, replies |-> [c \in Clients |-> <<>>], mixed |-> FALSE, lost |-> {}]
  /\ client = [c \in Clients |-> NoText]

-----------------------------------------------------------------------------
(* The server.                                                             *)

\* messageLengthINT.
announced == Value(server.slot)

\* Mutant: the loop runs over every place, not every second one.
SwappedEvery(text) == IF text = <<>> THEN text ELSE Append(Tail(text), Head(text))

\* The loop that swaps message[i] and message[i + 1] for every second i.
Swapped(text) ==
  [i \in DOMAIN text |->
     IF i % 2 = 0 THEN text[i - 1] ELSE IF i < Len(text) THEN text[i + 1] ELSE text[i]]

\* What recvfrom leaves in a buffer: a shorter datagram leaves the rest alone.
Filled(buffer, bytes) ==
  [i \in DOMAIN buffer |-> IF i \in DOMAIN bytes THEN bytes[i] ELSE buffer[i]]

\* recvfrom of a size fails when the datagram is longer than an int.
ReceiveSize ==
  /\ server.at = "size" /\ net.inbox # <<>>
  /\ net' = [net EXCEPT !.inbox = Tail(@)]
  /\ LET bytes == Head(net.inbox).bytes IN
       server' = IF Len(bytes) > IntSize
                   THEN [server EXCEPT !.at = "down"]
                   ELSE [server EXCEPT !.at = "text", !.slot = Filled(@, bytes)]
  /\ UNCHANGED client

\* new char[messageLengthINT] throws, and nobody catches.
AllocationFails ==
  /\ server.at = "text" /\ announced > MaxDatagram
  /\ server' = [server EXCEPT !.at = "down"]
  /\ UNCHANGED <<net, client>>

\* Mutant: a text in which there is nothing to swap is not answered.
ReceiveTextSingle ==
  /\ server.at = "text" /\ net.inbox # <<>> /\ announced <= MaxDatagram
  /\ LET d == Head(net.inbox)
         message == Filled([i \in 1 .. announced |-> Unknown], d.bytes)
         read == [net EXCEPT !.inbox = Tail(@)] IN
       IF announced = 1
         THEN net' = read
         ELSE net' = [read EXCEPT !.replies[d.from] = Append(@, Swapped(message))]
  /\ server' = [server EXCEPT !.at = "size"]
  /\ UNCHANGED client

\* recvfrom of a text of the announced size, and sendto: the reply goes to the
\* sender of this datagram.  A longer text, and a reply that fits into no
\* datagram, end the server.
ReceiveText ==
  /\ server.at = "text" /\ net.inbox # <<>>
  /\ LET d == Head(net.inbox)
         message == Filled([i \in 1 .. announced |-> Unknown], d.bytes)
         read == [net EXCEPT !.inbox = Tail(@)] IN
       IF announced > MaxDatagram \/ Len(d.bytes) > announced
         THEN server' = [server EXCEPT !.at = "down"] /\ net' = read
         ELSE IF client[d.from].at = "gone"
         THEN server' = [server EXCEPT !.at = "size", !.reset = TRUE] /\ net' = read
         ELSE /\ server' = [server EXCEPT !.at = "size"]
              /\ net' = [read EXCEPT !.replies[d.from] = Append(@, Swapped(message))]
  /\ UNCHANGED client

\* Winsock reports a closed port at the next recvfrom: the server quits.
ReceiveFails ==
  /\ server.at # "down" /\ server.reset
  /\ server' = [server EXCEPT !.at = "down"]
  /\ UNCHANGED <<net, client>>

-----------------------------------------------------------------------------
(* The medium.                                                             *)

Lose ==
  /\ "lose" \in Faults /\ net.inbox # <<>>
  /\ net' = [net EXCEPT !.inbox = Tail(@), !.mixed = TRUE]
  /\ UNCHANGED <<server, client>>

LoseReply(c) ==
  /\ "lose" \in Faults /\ net.replies[c] # <<>>
  /\ net' = [net EXCEPT !.replies[c] = Tail(@), !.lost = @ \cup {c}]
  /\ UNCHANGED <<server, client>>

\* Once: the first datagram arrives twice, or after all others.
Disorder ==
  /\ ~net.mixed /\ net.inbox # <<>>
  /\ \/ "duplicate" \in Faults
        /\ net' = [net EXCEPT !.inbox = <<Head(@)>> \o @, !.mixed = TRUE]
     \/ "reorder" \in Faults
        /\ net' = [net EXCEPT !.inbox = Append(Tail(@), Head(@)), !.mixed = TRUE]
  /\ UNCHANGED <<server, client>>

-----------------------------------------------------------------------------
(* The client.                                                             *)

\* Another client has sent a size and not yet its text.
Between(c) == \E d \in Clients \ {c} : client[d].at = "sized"

\* A text that no datagram holds; its size fits into one.
Oversized(text) == Len(text) > MaxDatagram

\* sendto; nobody receives at the port of a server that is down.
SendTo(c, text, bytes) ==
  net' = [net EXCEPT !.mixed = @ \/ Between(c) \/ Oversized(text),
                     !.inbox = IF server.at = "down" THEN @ ELSE Append(@, [from |-> c, bytes |-> bytes])]

\* A line is read and its size sent.  After an answer to "do u want to continue"
\* it is the rest of that line: mostly empty.
SendSize(c, text) ==
  /\ client[c].at = "input" /\ client[c].entered < MaxTexts
  /\ client' = [client EXCEPT ![c] = [at |-> "sized", typed |-> text, shown |-> <<>>, entered |-> @.entered + 1]]
  /\ SendTo(c, text, IntBytes(Len(text), IntSize))
  /\ UNCHANGED server

SendText(c) ==
  /\ client[c].at = "sized" /\ ~Oversized(client[c].typed)
  /\ client' = [client EXCEPT ![c].at = "waiting"]
  /\ SendTo(c, client[c].typed, client[c].typed)
  /\ UNCHANGED server

\* The process ends.
Quit(c) == client' = [client EXCEPT ![c] = [NoText EXCEPT !.at = "gone"]]

\* sendto fails, and the client quits; the server has the size.
SendTextFails(c) ==
  /\ client[c].at = "sized" /\ Oversized(client[c].typed)
  /\ Quit(c)
  /\ UNCHANGED <<server, net>>

\* recvfrom: a reply longer than the text makes it fail, and the client quits; a
\* shorter one is printed with what the rest of the buffer holds.
ShowReply(c) ==
  /\ client[c].at = "waiting" /\ net.replies[c] # <<>>
  /\ net' = [net EXCEPT !.replies[c] = Tail(@)]
  /\ LET reply == Head(net.replies[c])
         response == [i \in DOMAIN client[c].typed |-> Unknown] IN
       IF Len(reply) > Len(response)
         THEN Quit(c)
         ELSE client' = [client EXCEPT ![c].at = "asked", ![c].shown = Filled(response, reply)]
  /\ UNCHANGED server

\* "do u want to continue(1-yes, else-no)".
Continue(c) ==
  /\ client[c].at = "asked"
  /\ client' = [client EXCEPT ![c].at = "input"] \/ Quit(c)
  /\ UNCHANGED <<server, net>>

\* The server's port is closed: recvfrom may fail, and the client quits.
Unreachable(c) ==
  /\ client[c].at = "waiting" /\ server.at = "down"
  /\ Quit(c)
  /\ UNCHANGED <<server, net>>

\* "quit", or the process is killed.
Leave(c) ==
  /\ \/ client[c].at = "input"
     \/ client[c].at # "gone" /\ "kill" \in Faults
  /\ Quit(c)
  /\ net' = [net EXCEPT !.mixed = @ \/ client[c].at = "sized", !.replies[c] = <<>>]
  /\ UNCHANGED server

-----------------------------------------------------------------------------
ServerStep == ReceiveSize \/ ReceiveText

ClientStep(c) == SendText(c) \/ SendTextFails(c) \/ ShowReply(c)

Next ==
  \/ ServerStep \/ AllocationFails \/ ReceiveFails \/ Lose \/ Disorder
  \/ \E c \in Clients :
       \/ ClientStep(c) \/ Continue(c) \/ Unreachable(c) \/ Leave(c) \/ LoseReply(c)
       \/ \E text \in Texts : SendSize(c, text)

Spec == Init /\ [][Next]_vars

Fairness == WF_vars(ServerStep) /\ \A c \in Clients : WF_vars(ClientStep(c))

-----------------------------------------------------------------------------
Datagrams == Seq(Byte \cup {Unknown})

\* No datagram is longer than a datagram can be, and a reply printed is as long
\* as the text.
TypeOK ==
  /\ server.at \in {"size", "text", "down"} /\ server.slot \in [1 .. IntSize -> Byte]
  /\ \A i \in DOMAIN net.inbox : net.inbox[i].from \in Clients /\ net.inbox[i].bytes \in Bytes
  /\ \A c \in Clients :
       /\ client[c].at \in {"input", "sized", "waiting", "asked", "gone"}
       /\ client[c].typed \in Texts \cup {<<>>} /\ client[c].shown \in Datagrams
       /\ client[c].at = "asked" => Len(client[c].shown) = Len(client[c].typed)
       /\ \A i \in DOMAIN net.replies[c] :
            net.replies[c][i] \in Datagrams /\ Len(net.replies[c][i]) <= MaxDatagram
       /\ client[c].entered \in 0 .. MaxTexts

\* Reference definition: the pairs of places 1-2, 3-4, ... of the two texts hold
\* the same characters crosswise, and a last single one stays.
IsSwapped(text, other) ==
  /\ DOMAIN other = DOMAIN text
  /\ \A i \in 1 .. Len(text) \div 2 :
       other[2 * i - 1] = text[2 * i] /\ other[2 * i] = text[2 * i - 1]
  /\ Len(text) % 2 = 1 => other[Len(text)] = text[Len(text)]

\* As long as what arrives are whole pairs - no datagram to the server is lost,
\* doubled or overtaken, no client sends, or leaves, between the two of a pair, or
\* sends the size of a text that no datagram holds - every client is shown its own
\* text, swapped, and the server goes down only after a client has left it with a
\* reply to send.
OwnText ==
  ~net.mixed =>
    /\ server.at = "down" => server.reset
    /\ \A c \in Clients : client[c].at = "asked" => IsSwapped(client[c].typed, client[c].shown)

\* As long as what arrives are whole pairs and the server is up: while a client waits
\* and no reply to it has been lost, its text or its reply is on its way.
Underway ==
  ~net.mixed /\ server.at # "down" =>
    \A c \in Clients \ net.lost :
      client[c].at = "waiting" =>
        \/ net.replies[c] # <<>>
        \/ \E i \in DOMAIN net.inbox : net.inbox[i] = [from |-> c, bytes |-> client[c].typed]

\* The client has its reply or has left; a datagram or a reply to it was lost, the
\* pairs have mixed, or the server is down.
Answered(c) ==
  client[c].at # "waiting" \/ net.mixed \/ c \in net.lost \/ server.at = "down"

\* The client waits without a timeout, but it gets on unless its reply is lost, the
\* pairs have mixed or the server is down.
EchoArrives == \A c \in Clients : client[c].at = "waiting" ~> Answered(c)

=============================================================================
