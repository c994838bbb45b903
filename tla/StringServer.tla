---------------------------- MODULE StringServer ----------------------------
(***************************************************************************)
(* The LK_3 and YB_3 servers, which tell a client the length of a string   *)
(* and send a second reply for some, and their clients, which decide from  *)
(* the length whether there is one.  LK_3: of a long string, what precedes *)
(* its first blank; YB_3: a string of odd length without its middle        *)
(* character.                                                              *)
(*                                                                         *)
(* A string is sent with the whole buffer that holds it, and received      *)
(* whole: what earlier strings left behind its terminator goes with it.    *)
(***************************************************************************)
EXTENDS Integers, Sequences, SequencesExt, FiniteSetsExt

CONSTANTS
  Program,     \* "LK" or "YB"
  Clients,
  BufSize,     \* sizeof of the buffers: 64
  Long,        \* LK_3: the longest string without a second reply: 15
  Blank, Char, Nul,  \* characters
  Texts,       \* what users enter
  Quit,        \* "!quit"
  Leftovers,   \* what a client's buffer may hold at first
  Garbage,     \* what a thread's buffer may hold at first: anything
  MaxTexts,    \* bound: texts a client enters
  Faults       \* which of "accept", "thread", "kill" can happen

Buffers == [1 .. BufSize -> {Blank, Char, Nul}]

\* What the constants have to be.
StringAssumption ==
  /\ Program \in {"LK", "YB"}
  /\ BufSize \in Nat \ {0} /\ Long \in Nat /\ MaxTexts \in Nat
  /\ Nul \notin {Blank, Char}
  /\ \A t \in Texts \cup {Quit} : t \in Seq({Blank, Char}) /\ Len(t) < BufSize
  /\ Leftovers \subseteq Buffers /\ Garbage \subseteq Buffers
  /\ Faults \subseteq {"accept", "thread", "kill"}

VARIABLES
  server,  \* at: the main thread "accept"s, "sleep"s or has "ended"; thread[c]:
           \* where that of client c is; str[c]: its buffer
  net,     \* c2s[c], s2c[c]: buffers, and lengths, in flight
  client   \* at: where the client is; str: outcomingString; failed: an overlong
           \* line has set cin's failbit; entered: how many texts

vars == <<server, net, client>>

\* A string and its terminator are written into a buffer.
Write(text, buf) ==
  [i \in 1 .. BufSize |-> IF i <= Len(text) THEN text[i] ELSE IF i = Len(text) + 1 THEN Nul ELSE buf[i]]

Empty == [i \in 1 .. BufSize |-> Nul]

Init ==
  /\ server = [at |-> "accept", thread |-> [c \in Clients |-> "none"], str |-> [c \in Clients |-> Empty]]
  /\ net = [c2s |-> [c \in Clients |-> <<>>], s2c |-> [c \in Clients |-> <<>>]]
  /\ client \in [Clients -> [at : {"off"}, str : Leftovers, failed : {FALSE}, entered : {0}]]

\* The places at which a buffer holds a character.
At(ch, buf) == {i \in 1 .. BufSize : buf[i] = ch}

\* checkLength: -1 when there is no terminator.
Length(buf) == IF At(Nul, buf) = {} THEN -1 ELSE Min(At(Nul, buf)) - 1

\* The string a buffer holds, if any; without a terminator strcmp compares what
\* lies behind the buffer too, and does not find "!quit".
String(buf) == SubSeq(buf, 1, Length(buf))

\* Whether there is a second reply, as far as the length can tell.
Announced(length) == IF Program = "LK" THEN length > Long ELSE length % 2 = 1

-----------------------------------------------------------------------------
(* The server.                                                             *)

\* accept and CreateThread, whose buffer is not initialised; without a thread the
\* connection is closed, and the server sleeps for a minute.
Accept(c) ==
  /\ server.at = "accept" /\ server.thread[c] = "backlog"
  /\ \/ \E buf \in Garbage : server' = [server EXCEPT !.thread[c] = "recv", !.str[c] = buf]
     \/ "thread" \in Faults /\ server' = [server EXCEPT !.thread[c] = "closed", !.at = "sleep"]
  /\ UNCHANGED <<net, client>>

WakeUp ==
  /\ server.at = "sleep" /\ server' = [server EXCEPT !.at = "accept"]
  /\ UNCHANGED <<net, client>>

\* accept fails, and main returns: the threads end with the process.
AcceptFails ==
  /\ "accept" \in Faults /\ server.at = "accept"
  /\ server' = [server EXCEPT !.at = "ended", !.thread = [c \in Clients |-> "closed"]]
  /\ UNCHANGED <<net, client>>

\* The frames in flight once thread c has sent this one.
Sent(c, frame) ==
  IF client[c].at = "gone" THEN net ELSE [net EXCEPT !.s2c[c] = Append(@, frame)]

\* Where the thread goes from what its buffer holds.
After(buf) ==
  IF String(buf) = Quit THEN "ended" ELSE IF Announced(Length(buf)) THEN "second" ELSE "recv"

\* recv of a string; "!quit" ends the thread, which leaves the socket open.
Recv(c) ==
  /\ server.thread[c] = "recv" /\ net.c2s[c] # <<>>
  /\ LET buf == Head(net.c2s[c])
         next == After(buf) IN
       /\ server' = [server EXCEPT !.thread[c] = next, !.str[c] = buf]
       /\ net' = [IF next = "ended" THEN net ELSE Sent(c, Length(buf)) EXCEPT !.c2s[c] = Tail(@)]
  /\ UNCHANGED client

\* LK_3: the loop looks for the first blank in the whole buffer.
Prefix(buf) == Write(SubSeq(buf, 1, Min(At(Blank, buf)) - 1), buf)

\* Mutant: the middle of the string and its terminator.
WithoutAfterMiddle(buf) ==
  [i \in 1 .. BufSize |->
     IF i \in (Length(buf) + 1) \div 2 + 1 .. Length(buf) THEN buf[i + 1] ELSE buf[i]]

\* YB_3: the loop moves what follows the middle, the terminator with it.
WithoutMiddle(buf) ==
  [i \in 1 .. BufSize |->
     IF i \in Length(buf) \div 2 + 1 .. Length(buf) THEN buf[i + 1] ELSE buf[i]]

\* Mutant: only the string is searched, not what lies behind its terminator.
HasSecondInString(buf) == Program = "YB" \/ At(Blank, buf) \cap 1 .. Length(buf) # {}

\* LK_3 sends no second reply when the loop finds no blank.
HasSecond(buf) == Program = "YB" \/ At(Blank, buf) # {}

\* The second reply; YB_3 makes it in the buffer itself.
SendSecond(c) ==
  /\ server.thread[c] = "second"
  /\ LET buf == server.str[c]
         reply == IF Program = "YB" THEN WithoutMiddle(buf) ELSE Prefix(buf) IN
       /\ server' = [server EXCEPT !.thread[c] = "recv", !.str[c] = IF Program = "YB" THEN reply ELSE @]
       /\ net' = IF HasSecond(buf) THEN Sent(c, reply) ELSE net
  /\ UNCHANGED client

\* recv fails, which is ignored: the thread carries on with what its buffer holds,
\* the last string or, before the first one, anything; and so for ever.
RecvFails(c) ==
  /\ server.thread[c] = "recv" /\ net.c2s[c] = <<>> /\ client[c].at = "gone"
  /\ server' = [server EXCEPT !.thread[c] = After(server.str[c])]
  /\ UNCHANGED <<net, client>>

-----------------------------------------------------------------------------
(* The client.                                                             *)

Connect(c) ==
  /\ client[c].at = "off" /\ server.at # "ended"
  /\ client' = [client EXCEPT ![c].at = "input"]
  /\ server' = [server EXCEPT !.thread[c] = "backlog"]
  /\ UNCHANGED net

\* getline and send.  A line that does not fit fills the buffer; from then on
\* every getline fails at once and writes an empty string.
Enter(c, text, overlong) ==
  /\ client[c].at = "input" /\ client[c].entered < MaxTexts
  /\ client[c].failed => text = <<>> /\ ~overlong
  /\ LET buf == Write(IF overlong THEN [i \in 1 .. BufSize - 1 |-> Char] ELSE text, client[c].str) IN
       /\ client' = [client EXCEPT ![c] =
            [at |-> IF String(buf) = Quit THEN "gone" ELSE "length",
             str |-> buf, failed |-> @.failed \/ overlong, entered |-> @.entered + 1]]
       /\ net' = IF server.thread[c] = "closed" THEN net ELSE [net EXCEPT !.c2s[c] = Append(@, buf)]
  /\ UNCHANGED server

\* recv of the length.
GotLength(c) ==
  /\ client[c].at = "length" /\ net.s2c[c] # <<>>
  /\ client' = [client EXCEPT ![c].at = IF Announced(Head(net.s2c[c])) THEN "second" ELSE "input"]
  /\ net' = [net EXCEPT !.s2c[c] = Tail(@)]
  /\ UNCHANGED server

\* recv of the second reply; YB_3 receives it into the buffer strings are sent
\* from.
GotSecond(c) ==
  /\ client[c].at = "second" /\ net.s2c[c] # <<>>
  /\ client' = [client EXCEPT ![c].at = "input", ![c].str = IF Program = "YB" THEN Head(net.s2c[c]) ELSE @]
  /\ net' = [net EXCEPT !.s2c[c] = Tail(@)]
  /\ UNCHANGED server

\* The connection has been closed: the client prints a length of 0, or what its
\* buffer held, and goes on.
GotNothing(c) ==
  /\ client[c].at \in {"length", "second"} /\ net.s2c[c] = <<>> /\ server.thread[c] = "closed"
  /\ client' = [client EXCEPT ![c].at = "input"]
  /\ UNCHANGED <<server, net>>

\* The process is killed; what is unread may be lost.
Kill(c) ==
  /\ "kill" \in Faults /\ client[c].at \notin {"off", "gone"}
  /\ client' = [client EXCEPT ![c].at = "gone", ![c].str = Empty]
  /\ \E n \in 0 .. Len(net.c2s[c]) :
       net' = [net EXCEPT !.c2s[c] = SubSeq(@, 1, n), !.s2c[c] = <<>>]
  /\ UNCHANGED server

-----------------------------------------------------------------------------
ThreadStep(c) == Accept(c) \/ Recv(c) \/ SendSecond(c) \/ RecvFails(c)

ClientStep(c) == GotLength(c) \/ GotSecond(c) \/ GotNothing(c)

Next ==
  \/ WakeUp \/ AcceptFails
  \/ \E c \in Clients :
       \/ ThreadStep(c) \/ ClientStep(c) \/ Connect(c) \/ Kill(c)
       \/ \E text \in Texts \cup {Quit} : Enter(c, text, FALSE)
       \/ Enter(c, <<>>, TRUE)

Spec == Init /\ [][Next]_vars

Fairness == WF_vars(WakeUp) /\ \A c \in Clients : WF_vars(ThreadStep(c)) /\ WF_vars(ClientStep(c))

-----------------------------------------------------------------------------
\* Every variable keeps its type, and no connection holds more than two frames; a
\* thread may hold a buffer without a terminator, but none whose client is there
\* makes a second reply of such a one.
TypeOK ==
  /\ server.at \in {"accept", "sleep", "ended"}
  /\ \A c \in Clients :
       /\ server.thread[c] \in {"none", "backlog", "recv", "second", "ended", "closed"}
       /\ server.str[c] \in Buffers
       /\ server.thread[c] = "second" /\ client[c].at # "gone" => At(Nul, server.str[c]) # {}
       /\ client[c].at \in {"off", "input", "length", "second", "gone"}
       /\ client[c].str \in Buffers /\ client[c].failed \in BOOLEAN
       /\ client[c].entered \in 0 .. MaxTexts
       /\ Len(net.c2s[c]) + Len(net.s2c[c]) <= 2

\* Reference definition: the second reply to what this buffer holds.  For LK_3 a
\* blank behind the terminator counts too: the reply is then the text itself.
IsSecond(reply, buf) ==
  LET text == String(buf)
      words == String(reply) IN
  IF Program = "YB"
    THEN words = RemoveAt(text, Len(text) \div 2 + 1)
    ELSE /\ IsPrefix(words, text) /\ Blank \notin ToSet(words)
         /\ words = text \/ text[Len(words) + 1] = Blank

\* A client reads exactly the replies to the string it has sent, in order: its
\* length, and what the program promises of it; at its prompt nothing is left.
RepliesRight ==
  \A c \in Clients :
    LET replies == net.s2c[c]
        str == client[c].str IN
    CASE client[c].at = "input" -> replies = <<>> /\ (net.c2s[c] = <<>> \/ server.thread[c] = "closed")
      [] client[c].at = "length" ->
           replies # <<>> => /\ Head(replies) = Len(String(str))
                             /\ Len(replies) = 2 => IsSecond(replies[2], str)
      [] client[c].at = "second" -> replies # <<>> => IsSecond(Head(replies), str)
      [] OTHER -> TRUE

\* A client of LK_3 that was announced a second reply, while there is no blank in
\* all its buffer.
HangsUp(c) == client[c].at = "second" /\ Program = "LK" /\ At(Blank, client[c].str) = {}

\* On a connection that is open a client never waits for nothing: a reply is in
\* flight, or its own string is on its way to a thread that receives, or its thread
\* is about to send the second reply to that string; a client that hangs up is the
\* only exception.
Underway ==
  \A c \in Clients :
    LET thread == server.thread[c]
        str == client[c].str IN
    client[c].at \in {"length", "second"} /\ thread # "closed" /\ net.s2c[c] = <<>> =>
      \/ client[c].at = "length" /\ thread \in {"backlog", "recv"} /\ net.c2s[c] = <<str>>
      \/ client[c].at = "second" /\ thread = "second" /\ server.str[c] = str
      \/ thread = "recv" /\ HangsUp(c)

Answered(c) == client[c].at \in {"input", "gone"} \/ HangsUp(c)

\* Every string is answered, and its sender gets back to the prompt, unless it
\* hangs up: then it waits for ever.
RepliesArrive == \A c \in Clients : client[c].at = "length" ~> Answered(c)

=============================================================================
