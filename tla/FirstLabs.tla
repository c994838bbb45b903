----------------------------- MODULE FirstLabs ------------------------------
(***************************************************************************)
(* The LK_1 and YB_1 servers and their clients.  LK_1 says whether a       *)
(* number of six digits is a lucky ticket, YB_1 whether two words are      *)
(* equal.  Either accepts one connection and never another; none of its    *)
(* sends or receives is checked.                                           *)
(*                                                                         *)
(* Connections are numbered in the order in which they are made; the first *)
(* is the one that is accepted.  A number or a word is one frame.          *)
(***************************************************************************)
EXTENDS Integers, Sequences

CONSTANTS
  Program,   \* "LK" or "YB"
  Conns,     \* connections made, as numbers
  MaxAsked,  \* bound: questions a client asks
  Numbers,   \* LK_1: the numbers of six digits users enter
  Words,     \* YB_1: the words users enter
  Exit       \* YB_1: "exit"

\* What the constants have to be.
FirstLabsAssumption ==
  /\ Program \in {"LK", "YB"}
  /\ 1 \in Conns /\ Conns \subseteq Nat /\ MaxAsked \in Nat
  /\ Exit \in Words /\ \A n \in Numbers : n \in Nat /\ n < 1000000

VARIABLES
  server,  \* at: in "accept", in "recv", "spins" or has "ended"; received: the
           \* frames of the current question
  net,     \* c2s[k], s2c[k]: frames in flight in the two directions
  client   \* of connection k; at: where it is; question: its last one; verdict:
           \* the answer printed to that, or "none"; asked: how often

vars == <<server, net, client>>

\* What ends the conversation.
QuitFrame == IF Program = "LK" THEN 987654 ELSE Exit

\* What the client sends before it waits: a first word "exit" is the last.
Questions ==
  IF Program = "LK"
    THEN {<<n>> : n \in Numbers \cup {QuitFrame}}
    ELSE {<<Exit>>} \cup {<<a, b>> : a \in Words \ {Exit}, b \in Words}

Init ==
  /\ server = [at |-> "accept", received |-> <<>>]
  /\ net = [c2s |-> [k \in Conns |-> <<>>], s2c |-> [k \in Conns |-> <<>>]]
  /\ client = [k \in Conns |-> [at |-> "input", question |-> <<>>, verdict |-> "none", asked |-> 0]]

-----------------------------------------------------------------------------
\* The sums of the first and of the last three digits.
FirstSum(number) ==
  ((number \div 1000) % 10) + ((number \div 1000) % 100) \div 10 + (number \div 1000) \div 100

SecondSum(number) ==
  (number % 1000) \div 100 + ((number % 1000) % 100) \div 10 + ((number % 1000) % 10)

\* Mutant: the hundreds are not taken off before the tens.
LuckyTens(number) ==
  FirstSum(number) = (number % 1000) \div 100 + (number % 1000) \div 10 + ((number % 1000) % 10)

Lucky(number) == FirstSum(number) = SecondSum(number)

\* The answer to a whole question.
Verdict(frames) ==
  IF \/ Program = "LK" /\ Lucky(frames[1])
     \/ Program = "YB" /\ frames[1] = frames[2]
    THEN "yes" ELSE "no"

\* Whether these frames are a whole question: LK_1 receives one, YB_1 two.
Whole(frames) == Program = "LK" \/ Len(frames) = 2

\* Mutant: the frames of an answered question stay.
PartKept(frames) == frames

\* What the server holds of the next question.
Part(frames) == IF Whole(frames) THEN <<>> ELSE frames

Accept ==
  /\ server.at = "accept" /\ server' = [server EXCEPT !.at = "recv"]
  /\ UNCHANGED <<net, client>>

\* A frame is received: one that quits ends the process, the last of a question
\* is answered.
Recv ==
  /\ server.at = "recv" /\ net.c2s[1] # <<>>
  /\ LET frame == Head(net.c2s[1])
         frames == Append(server.received, frame)
         read == [net EXCEPT !.c2s[1] = Tail(@)] IN
       IF frame = QuitFrame
         THEN server' = [at |-> "ended", received |-> <<>>] /\ net' = read
         ELSE /\ server' = [server EXCEPT !.received = Part(frames)]
              /\ net' = IF Whole(frames) /\ client[1].at # "gone"
                          THEN [read EXCEPT !.s2c[1] = Append(@, Verdict(frames))] ELSE read
  /\ UNCHANGED client

\* The client has gone: the server answers what its buffers hold, for ever.
Spin ==
  /\ server.at = "recv" /\ net.c2s[1] = <<>> /\ client[1].at = "gone"
  /\ server' = [at |-> "spins", received |-> <<>>]
  /\ UNCHANGED <<net, client>>

-----------------------------------------------------------------------------
\* Other input than six digits is asked for again.  A client that quits sends and
\* leaves.
Ask(k, frames) ==
  /\ client[k].at = "input" /\ client[k].asked < MaxAsked
  /\ client' = [client EXCEPT ![k] =
       [at |-> IF frames[Len(frames)] = QuitFrame THEN "gone" ELSE "waiting",
        question |-> frames, verdict |-> "none", asked |-> @.asked + 1]]
  /\ net' = IF server.at = "ended" THEN net ELSE [net EXCEPT !.c2s[k] = @ \o frames]
  /\ UNCHANGED server

ShowVerdict(k) ==
  /\ client[k].at = "waiting" /\ net.s2c[k] # <<>>
  /\ client' = [client EXCEPT ![k].at = "input", ![k].verdict = Head(net.s2c[k])]
  /\ net' = [net EXCEPT !.s2c[k] = Tail(@)]
  /\ UNCHANGED server

\* recv fails: what the buffer holds is printed, whatever it is.
ShowAnything(k) ==
  /\ client[k].at = "waiting" /\ net.s2c[k] = <<>> /\ server.at = "ended"
  /\ client' = [client EXCEPT ![k].at = "input"]
  /\ UNCHANGED <<server, net>>

\* The client's process is killed; what is unread may be lost.
Kill(k) ==
  /\ client[k].at # "gone" /\ client' = [client EXCEPT ![k].at = "gone"]
  /\ \E n \in 0 .. Len(net.c2s[k]) :
       net' = [net EXCEPT !.c2s[k] = SubSeq(@, 1, n), !.s2c[k] = <<>>]
  /\ UNCHANGED server

-----------------------------------------------------------------------------
ServerStep == Accept \/ Recv \/ Spin

ClientStep(k) == ShowVerdict(k) \/ ShowAnything(k)

Next ==
  \/ ServerStep
  \/ \E k \in Conns : ClientStep(k) \/ Kill(k) \/ \E frames \in Questions : Ask(k, frames)

Spec == Init /\ [][Next]_vars

Fairness == WF_vars(ServerStep) /\ \A k \in Conns : WF_vars(ClientStep(k))

-----------------------------------------------------------------------------
\* Only YB_1 holds part of a question, and a client has one answer to come.
TypeOK ==
  /\ server.at \in {"accept", "recv", "spins", "ended"}
  /\ server.received # <<>> => Program = "YB" /\ Len(server.received) = 1
  /\ \A k \in Conns :
       /\ client[k].at \in {"input", "waiting", "gone"} /\ client[k].asked \in 0 .. MaxAsked
       /\ client[k].question \in Questions \cup {<<>>}
       /\ client[k].verdict \in {"none", "yes", "no"}
       /\ Len(net.s2c[k]) <= IF client[k].at = "waiting" /\ k = 1 THEN 1 ELSE 0

\* Reference definition: the digits of a number, first to last, and the answer.
Digit(number, i) == (number \div <<100000, 10000, 1000, 100, 10, 1>>[i]) % 10

IsRight(answer, frames) ==
  /\ answer \in {"yes", "no"}
  /\ answer = "yes" <=>
       IF Program = "LK"
         THEN LET d(i) == Digit(frames[1], i) IN d(1) + d(2) + d(3) = d(4) + d(5) + d(6)
         ELSE frames[1] = frames[2]

\* A verdict that is printed is right about the question it is printed for,
\* although questions arrive in pieces and nobody checks what was received; only
\* the first client ever gets one.
VerdictsRight ==
  \A k \in Conns :
    client[k].verdict # "none" => k = 1 /\ IsRight(client[k].verdict, client[k].question)

\* While the first client waits the server has not ended, and its question is whole,
\* in what is received and what is in flight, or the verdict is on its way.
Underway ==
  client[1].at = "waiting" =>
    /\ server.at \in {"accept", "recv"}
    /\ net.s2c[1] # <<>> \/ server.received \o net.c2s[1] = client[1].question

Asks(frames) == client[1].at = "waiting" /\ client[1].question = frames

Settled(frames) ==
  \/ client[1].at = "gone"
  \/ client[1].question = frames /\ IsRight(client[1].verdict, frames)

\* The first client is told of every number whether it is lucky, of every two
\* words whether they are equal, although nobody checks what was received.
VerdictArrives == \A frames \in Questions : Asks(frames) ~> Settled(frames)

=============================================================================
