---------------------------- MODULE TravelServer ----------------------------
(***************************************************************************)
(* The CN3 travel agency: a client sends the cost it has in mind, a thread *)
(* of the server reads travelOffers.txt again into the global vector v,    *)
(* which no lock guards, and answers with the offers that cost at least as *)
(* much.                                                                   *)
(*                                                                         *)
(* An offer is its cost.  A request and an answer (its size and its text)  *)
(* are one frame each.                                                     *)
(***************************************************************************)
EXTENDS Naturals, Sequences, SequencesExt

CONSTANTS
  Clients,      \* connection slots: a client process and its ThreadProc
  Costs,        \* the costs users enter
  NoNumber,     \* the cost of an offer that stod cannot convert
  Documents,    \* what travelOffers.txt may contain: [offers, whole]
  MaxWait,      \* handles WaitForMultipleObjects accepts
  MaxThreads,   \* bound: threads created
  Faults        \* which of "accept", "thread" can happen

ASSUME TravelAssumption ==
  /\ Costs \subseteq Nat /\ NoNumber \notin Nat
  /\ \A d \in Documents : d.offers \in Seq(Nat \cup {NoNumber}) /\ d.whole \in BOOLEAN
  /\ MaxWait \in Nat \ {0} /\ MaxThreads \in Nat
  /\ Faults \subseteq {"accept", "thread"}

VARIABLES
  doc,          \* travelOffers.txt, edited by somebody else
  v,            \* the server's global vector
  main,         \* the main thread: "accept", "wait" for the threads, "pause" with
                \* the sockets gone, or the process has "ended"
  created,      \* size of hThreadArray
  pc,           \* pc[c]: where the thread of connection c is
  cost,         \* cost[c]: costRecv
  temp,         \* temp[c]: the offers the current answer is to be made of
  next,         \* next[c]: the loop's i
  response,     \* response[c]
  raced,        \* history: two threads used v at once and one of them changed it
  c2s, s2c,     \* c2s[c], s2c[c]: frames in flight in the two directions
  cli           \* cli[c]: where the client is

mainVars == <<main, created>>
threadVars == <<cost, temp, next, response>>
vars == <<doc, v, mainVars, pc, threadVars, raced, c2s, s2c, cli>>

ThreadPCs == {"none", "backlog", "recv", "read", "clear", "assign", "check", "at", "send", "spin"}
Changing == {"clear", "assign"}
Using == Changing \cup {"check", "at"}

\* readDataFromDocument: a document that is not whole leaves the vector alone.
Loaded(old) == IF doc.whole THEN doc.offers ELSE old

Init ==
  /\ doc \in Documents
  /\ v = Loaded(<<>>)
  /\ main = "accept" /\ created = 0
  /\ pc = [c \in Clients |-> "none"]
  /\ cost = [c \in Clients |-> 0]
  /\ temp = [c \in Clients |-> <<>>]
  /\ next = [c \in Clients |-> 1]
  /\ response = [c \in Clients |-> <<>>]
  /\ raced = FALSE
  /\ c2s = [c \in Clients |-> <<>>]
  /\ s2c = [c \in Clients |-> <<>>]
  /\ cli = [c \in Clients |-> "off"]

Goto(c, from, to) == pc[c] = from /\ pc' = [pc EXCEPT ![c] = to]

\* The file is edited by hand.
Edit ==
  /\ doc' \in Documents
  /\ UNCHANGED <<v, mainVars, pc, threadVars, raced, c2s, s2c, cli>>

-----------------------------------------------------------------------------
(* The main thread.                                                        *)

\* accept and CreateThread.
Accept(c) ==
  /\ main = "accept" /\ created < MaxThreads
  /\ Goto(c, "backlog", "recv")
  /\ created' = created + 1
  /\ UNCHANGED <<doc, v, main, threadVars, raced, c2s, s2c, cli>>

\* CreateThread fails: the connection is closed, the accept loop is left.
ThreadFails(c) ==
  /\ "thread" \in Faults /\ main = "accept"
  /\ Goto(c, "backlog", "none")
  /\ main' = "wait"
  /\ c2s' = [c2s EXCEPT ![c] = <<>>]
  /\ UNCHANGED <<doc, v, created, threadVars, raced, s2c, cli>>

\* accept fails: the accept loop is left.
AcceptFails ==
  /\ "accept" \in Faults /\ main = "accept"
  /\ main' = "wait"
  /\ UNCHANGED <<doc, v, created, pc, threadVars, raced, c2s, s2c, cli>>

\* The process ends, and all its threads and connections with it.
EndProcess ==
  /\ main' = "ended"
  /\ pc' = [c \in Clients |-> "none"]
  /\ c2s' = [c \in Clients |-> <<>>]
  /\ UNCHANGED <<doc, v, created, threadVars, raced, s2c, cli>>

\* WaitForMultipleObjects waits for all threads; with more handles than it
\* accepts it fails at once.  Then the listening socket is closed, and WSACleanup
\* resets every connection of the process, whether a thread serves it or not.
WaitForThreads ==
  /\ main = "wait" /\ created > 0
  /\ created > MaxWait \/ \A c \in Clients : pc[c] \in {"none", "backlog"}
  /\ main' = "pause"
  /\ pc' = [c \in Clients |-> IF pc[c] = "backlog" THEN "none" ELSE pc[c]]
  /\ c2s' = [c \in Clients |-> <<>>]
  /\ UNCHANGED <<doc, v, created, threadVars, raced, s2c, cli>>

\* Without any thread, at(0) throws.
WaitForNone == main = "wait" /\ created = 0 /\ EndProcess

\* system("pause") returns when a key is pressed, and main with it.
PressKey == main = "pause" /\ EndProcess

-----------------------------------------------------------------------------
(* ThreadProc.                                                             *)

\* recv of a cost.
RecvCost(c) ==
  /\ Goto(c, "recv", "read")
  /\ c2s[c] # <<>>
  /\ cost' = [cost EXCEPT ![c] = Head(c2s[c])]
  /\ c2s' = [c2s EXCEPT ![c] = Tail(@)]
  /\ response' = [response EXCEPT ![c] = <<>>]
  /\ UNCHANGED <<doc, v, mainVars, temp, next, raced, s2c, cli>>

\* The client closed the connection: recv returns 0, which the loop takes for
\* progress; it never ends.
RecvZero(c) ==
  /\ Goto(c, "recv", "spin")
  /\ c2s[c] = <<>> /\ cli[c] = "off" /\ main # "pause"
  /\ UNCHANGED <<doc, v, mainVars, threadVars, raced, c2s, s2c, cli>>

\* The client was killed, or WSACleanup was called: recv or send fails and the
\* thread ends.
ConnectionFails(c) ==
  /\ \/ pc[c] \in {"recv", "send"} /\ cli[c] = "killed"
     \/ pc[c] \in {"recv", "send", "spin"} /\ main = "pause"
  /\ pc' = [pc EXCEPT ![c] = "none"]
  /\ c2s' = [c2s EXCEPT ![c] = <<>>]
  /\ UNCHANGED <<doc, v, mainVars, threadVars, raced, s2c, cli>>

Others(c, pcs) == \E d \in Clients \ {c} : pc[d] \in pcs

\* Mutant of ReadDocument: what was read of a document that is not whole is used.
ReadDocumentAnyway(c) ==
  /\ Goto(c, "read", "clear")
  /\ temp' = [temp EXCEPT ![c] = doc.offers]
  /\ next' = [next EXCEPT ![c] = 1]
  /\ raced' = (raced \/ Others(c, Using))
  /\ UNCHANGED <<doc, v, mainVars, cost, response, c2s, s2c, cli>>

\* readDataFromDocument up to the end of the file.
ReadDocument(c) ==
  /\ Goto(c, "read", IF doc.whole THEN "clear" ELSE "check")
  /\ temp' = [temp EXCEPT ![c] = Loaded(v)]
  /\ next' = [next EXCEPT ![c] = 1]
  /\ raced' = (raced \/ Others(c, IF doc.whole THEN Using ELSE Changing))
  /\ UNCHANGED <<doc, v, mainVars, cost, response, c2s, s2c, cli>>

\* v.clear().
Clear(c) ==
  /\ Goto(c, "clear", "assign")
  /\ v' = <<>>
  /\ UNCHANGED <<doc, mainVars, threadVars, raced, c2s, s2c, cli>>

\* v = temp.
Assign(c) ==
  /\ Goto(c, "assign", "check")
  /\ v' = temp[c]
  /\ UNCHANGED <<doc, mainVars, threadVars, raced, c2s, s2c, cli>>

\* Mutant of Check: i <= v.size().
CheckBeyond(c) ==
  /\ Goto(c, "check", IF next[c] <= Len(v) + 1 THEN "at" ELSE "send")
  /\ UNCHANGED <<doc, v, mainVars, threadVars, raced, c2s, s2c, cli>>

\* i < v.size().
Check(c) ==
  /\ Goto(c, "check", IF next[c] <= Len(v) THEN "at" ELSE "send")
  /\ UNCHANGED <<doc, v, mainVars, threadVars, raced, c2s, s2c, cli>>

\* at and stod succeed.
Readable(i) == i <= Len(v) /\ v[i] # NoNumber

\* Mutant of At: an offer that costs exactly the amount is left out.
AtStrict(c) ==
  /\ Goto(c, "at", "check")
  /\ Readable(next[c])
  /\ response' = [response EXCEPT ![c] = IF cost[c] < v[next[c]] THEN Append(@, v[next[c]]) ELSE @]
  /\ next' = [next EXCEPT ![c] = @ + 1]
  /\ UNCHANGED <<doc, v, mainVars, cost, temp, raced, c2s, s2c, cli>>

\* One round of the loop over v.
At(c) ==
  /\ Goto(c, "at", "check")
  /\ Readable(next[c])
  /\ response' = [response EXCEPT ![c] = IF cost[c] <= v[next[c]] THEN Append(@, v[next[c]]) ELSE @]
  /\ next' = [next EXCEPT ![c] = @ + 1]
  /\ UNCHANGED <<doc, v, mainVars, cost, temp, raced, c2s, s2c, cli>>

\* at or stod throws; nothing catches the exception.
Throw(c) ==
  /\ pc[c] = "at" /\ ~Readable(next[c])
  /\ EndProcess

\* Two threads use v and one of them changes it: the behaviour is undefined,
\* and may be the end of the process.
Corrupt(c) ==
  /\ pc[c] \in Changing /\ Others(c, Using)
  /\ EndProcess

\* Mutant of Send: an empty answer is not replaced by "Nothing to suggest!".
SendSomething(c) ==
  /\ Goto(c, "send", "recv") /\ main # "pause"
  /\ s2c' = IF cli[c] = "killed" \/ response[c] = <<>> THEN s2c
                                                      ELSE [s2c EXCEPT ![c] = Append(@, response[c])]
  /\ UNCHANGED <<doc, v, mainVars, threadVars, raced, c2s, cli>>

\* Mutant of Send: the answer is sent twice.
SendTwice(c) ==
  /\ Goto(c, "send", "recv") /\ main # "pause"
  /\ s2c' = IF cli[c] = "killed" THEN s2c ELSE [s2c EXCEPT ![c] = @ \o <<response[c], response[c]>>]
  /\ UNCHANGED <<doc, v, mainVars, threadVars, raced, c2s, cli>>

\* send of the answer's size and of the answer; an empty answer is a text too.
Send(c) ==
  /\ Goto(c, "send", "recv") /\ main # "pause"
  /\ s2c' = IF cli[c] = "killed" THEN s2c ELSE [s2c EXCEPT ![c] = Append(@, response[c])]
  /\ UNCHANGED <<doc, v, mainVars, threadVars, raced, c2s, cli>>

-----------------------------------------------------------------------------
(* The client program.                                                     *)

\* The server's sockets are gone.
Down == main \in {"pause", "ended"}

\* connect: the connection waits in the backlog, also after the accept loop.
Connect(c) ==
  /\ cli[c] \in {"off", "killed"} /\ ~Down
  /\ Goto(c, "none", "backlog")
  /\ cli' = [cli EXCEPT ![c] = "menu"]
  /\ s2c' = [s2c EXCEPT ![c] = <<>>]
  /\ UNCHANGED <<doc, v, mainVars, threadVars, raced, c2s>>

\* A cost is entered and sent.
AskCost(c, amount) ==
  /\ cli[c] = "menu"
  /\ cli' = [cli EXCEPT ![c] = "wait"]
  /\ c2s' = IF pc[c] = "none" \/ Down THEN c2s ELSE [c2s EXCEPT ![c] = Append(@, amount)]
  /\ UNCHANGED <<doc, v, mainVars, pc, threadVars, raced, s2c>>

\* The answer is received and printed.
Receive(c) ==
  /\ cli[c] = "wait" /\ s2c[c] # <<>>
  /\ cli' = [cli EXCEPT ![c] = "menu"]
  /\ s2c' = [s2c EXCEPT ![c] = Tail(@)]
  /\ UNCHANGED <<doc, v, mainVars, pc, threadVars, raced, c2s>>

\* The connection is broken: recv fails and the client says so; an answer under
\* way may be lost.  When the server's process has ended in an orderly way recv may
\* return 0 instead, which the client takes for progress; it never stops.
ReceiveFails(c) ==
  /\ cli[c] = "wait"
  /\ Down \/ (s2c[c] = <<>> /\ pc[c] = "none")
  /\ \E to \in {"off"} \cup (IF main = "ended" THEN {"spin"} ELSE {}) :
       cli' = [cli EXCEPT ![c] = to]
  /\ s2c' = [s2c EXCEPT ![c] = <<>>]
  /\ UNCHANGED <<doc, v, mainVars, pc, threadVars, raced, c2s>>

\* The user does not want to continue: the connection is closed.
Leave(c) ==
  /\ cli[c] = "menu"
  /\ cli' = [cli EXCEPT ![c] = "off"]
  /\ s2c' = [s2c EXCEPT ![c] = <<>>]
  /\ UNCHANGED <<doc, v, mainVars, pc, threadVars, raced, c2s>>

\* The client's process is killed and its connection reset.
Kill(c) ==
  /\ cli[c] \notin {"off", "killed"}
  /\ cli' = [cli EXCEPT ![c] = "killed"]
  /\ s2c' = [s2c EXCEPT ![c] = <<>>]
  /\ UNCHANGED <<doc, v, mainVars, pc, threadVars, raced, c2s>>

-----------------------------------------------------------------------------
ThreadStep(c) ==
  \/ RecvCost(c) \/ RecvZero(c) \/ ConnectionFails(c)
  \/ ReadDocument(c) \/ Clear(c) \/ Assign(c) \/ Check(c) \/ At(c) \/ Throw(c) \/ Send(c)

ClientStep(c) ==
  \/ Connect(c) \/ (\E amount \in Costs : AskCost(c, amount))
  \/ Receive(c) \/ ReceiveFails(c) \/ Leave(c) \/ Kill(c)

Next ==
  \/ Edit \/ AcceptFails \/ WaitForThreads \/ WaitForNone \/ PressKey
  \/ \E c \in Clients : Accept(c) \/ ThreadFails(c) \/ ThreadStep(c) \/ Corrupt(c) \/ ClientStep(c)

Spec == Init /\ [][Next]_vars

\* Threads run, and a client that waits for an answer reads it.
Fairness == \A c \in Clients : WF_vars(ThreadStep(c)) /\ WF_vars(Receive(c) \/ ReceiveFails(c))

FairSpec == Spec /\ Fairness

-----------------------------------------------------------------------------
(* Properties.                                                             *)

Vectors == Seq(Nat \cup {NoNumber})

\* Every variable keeps its type, and a connection never holds more than the
\* one request or answer the two sides take turns with.
TypeOK ==
  /\ doc \in Documents /\ v \in Vectors
  /\ main \in {"accept", "wait", "pause", "ended"} /\ created \in 0 .. MaxThreads
  /\ raced \in BOOLEAN
  /\ pc \in [Clients -> ThreadPCs]
  /\ cost \in [Clients -> Costs \cup {0}]
  /\ temp \in [Clients -> Vectors] /\ next \in [Clients -> Nat \ {0}]
  /\ response \in [Clients -> Seq(Nat)]
  /\ cli \in [Clients -> {"off", "menu", "wait", "spin", "killed"}]
  /\ \A c \in Clients : Len(c2s[c]) + Len(s2c[c]) <= 1

\* The answer consists of the offers at the chosen positions, in their order.
Lists(answer, offers, chosen) ==
  \E f \in [1 .. Len(answer) -> chosen] :
    /\ \A k, l \in 1 .. Len(answer) : k < l => f[k] < f[l]
    /\ \A k \in 1 .. Len(answer) : answer[k] = offers[f[k]]
    /\ \A i \in chosen : \E k \in 1 .. Len(answer) : f[k] = i

\* The positions of the offers among the first n that cost at least the amount.
Suitable(c, n) == {i \in 1 .. n : cost[c] <= temp[c][i]}

\* Until two threads meet over v, an answer consists of exactly the offers of
\* the document that cost at least the amount, in their order.
AnswerRight ==
  \A c \in Clients : pc[c] = "send" /\ ~raced =>
    Lists(response[c], temp[c], Suitable(c, Len(temp[c])))

\* The offers of the documents that can be read to their end.
Good == {d.offers : d \in {d \in Documents : d.whole}}

\* Once v holds such offers it goes on to, as long as the process lives and but
\* for the moments at which a thread replaces them: until two threads meet over
\* v, a document that is being edited neither gets into it nor empties it.
KeepsLastGood ==
  [](v \in Good =>
       [](v \in Good \/ raced \/ main = "ended" \/ \E c \in Clients : pc[c] = "assign"))

\* A thread serves a client.
Serving == \E c \in Clients : pc[c] \notin {"none", "backlog"}
BadCost == \E d \in Documents : d.whole /\ NoNumber \in ToSet(d.offers)

\* The server takes its sockets or its process away from a thread that serves a
\* client only after a race over v, because of a cost that is no number, or when
\* main has more threads to wait for than it can.
DiesOnlyRacing ==
  [][main' # main /\ Down' /\ Serving =>
       raced \/ BadCost \/ (created > MaxWait /\ "pause" \in {main, main'})]_vars

\* A client whose connection was accepted gets its answer, or is told that the
\* connection is broken; only when the server's process has ended may it be left
\* to spin.
Answered ==
  \A c \in Clients :
    cli[c] = "wait" ~> \/ cli[c] \notin {"wait", "spin"}
                       \/ pc[c] = "backlog"
                       \/ cli[c] = "spin" /\ main = "ended"
=============================================================================
