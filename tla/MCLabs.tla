------------------------------- MODULE MCLabs -------------------------------
(***************************************************************************)
(* Instances of the programs that are small enough to be checked together: *)
(* lab is the one that runs.  They share nothing, and as CN1 and CN5,      *)
(* LK_3 and YB_3, LK_1 and YB_1 use the same ports, they do not run side   *)
(* by side.                                                                *)
(*                                                                         *)
(* The mail server runs with one connection and the true sizes of an int,  *)
(* a token and a message; MCMailServer has an instance with two.           *)
(***************************************************************************)
EXTENDS Integers, Sequences

CONSTANTS c1, c2, Blank, Char, Nul, Unknown

VARIABLES
  lab,                    \* the program that runs
  server, net, client,    \* its variables, unless it is the mail server
  main, accepted, pc, on, buf, cmd, lgSize, pwSize, c2s, s2c,
  connected, cli, typed, job, left, size, shown, given

Credential(l, p) == [lg |-> l, pw |-> p]

Mail == INSTANCE MailServer WITH
  MaxConns <- 1, MaxCommands <- 1, IntSize <- 4, TokenSize <- 10, TextSize <- 11,
  Credentials <- {Credential(1, 1), Credential(0, 1), Credential(1, 2), Credential(2, 1)},
  Leftovers <- {<<49, 49, 49, 49>>, <<1, 0, 0, 0>>}, Faults <- {"accept", "memory", "kill"}

Quadrants == INSTANCE QuadrantServer WITH
  MaxConns <- 3, MaxPoints <- 1, Coords <- {0, 1}, Backlog <- 1, Faults <- {"accept", "kill"}

Chat == INSTANCE UDPChat WITH
  Clients <- {c1, c2}, Texts <- {<<5>>, <<5, 6, 7>>, <<5, 6, 7, 8>>}, MaxTexts <- 2,
  IntSize <- 2, MaxDatagram <- 3, Leftovers <- {<<1, 1>>},
  Faults <- {"lose", "duplicate", "reorder", "kill"}

MCTexts == {<<Char>>, <<Char, Blank, Char>>, <<Char, Char, Char>>}
\* No terminator, the command to quit, and a string of three.
MCGarbage == {<<Char, Char, Char, Char, Char>>, <<Blank, Blank, Nul, Nul, Nul>>, <<Char, Char, Blank, Nul, Char>>}
MCMoreTexts == MCTexts \cup {<<>>, <<Blank>>, <<Char, Char>>}

LKStrings == INSTANCE StringServer WITH
  Program <- "LK", Clients <- {c1, c2}, BufSize <- 5, Long <- 1, Texts <- MCTexts,
  Quit <- <<Blank, Blank>>, Leftovers <- {<<Nul, Nul, Nul, Nul, Nul>>, <<Nul, Nul, Nul, Nul, Blank>>},
  Garbage <- {<<Char, Char, Char, Char, Char>>},
  MaxTexts <- 1, Faults <- {"accept", "thread", "kill"}

YBStrings == INSTANCE StringServer WITH
  Program <- "YB", Clients <- {c1}, BufSize <- 5, Long <- 1, Texts <- MCMoreTexts,
  Quit <- <<Blank, Blank>>, Leftovers <- {<<Nul, Nul, Nul, Nul, Nul>>}, Garbage <- MCGarbage,
  MaxTexts <- 3, Faults <- {"accept", "thread", "kill"}

LKFirst == INSTANCE FirstLabs WITH
  Program <- "LK", Conns <- {1, 2}, MaxAsked <- 2,
  Numbers <- {123006, 123321, 100020}, Words <- {"exit"}, Exit <- "exit"

YBFirst == INSTANCE FirstLabs WITH
  Program <- "YB", Conns <- {1, 2}, MaxAsked <- 2,
  Numbers <- {}, Words <- {"exit", "a", "b"}, Exit <- "exit"

ASSUME LabsAssumption ==
  /\ Quadrants!QuadrantAssumption /\ Chat!ChatAssumption
  /\ LKStrings!StringAssumption /\ YBStrings!StringAssumption
  /\ LKFirst!FirstLabsAssumption /\ YBFirst!FirstLabsAssumption

smallVars == <<server, net, client>>
mailVars == <<main, accepted, pc, on, buf, cmd, lgSize, pwSize, c2s, s2c,
              connected, cli, typed, job, left, size, shown, given>>
vars == <<lab, smallVars, mailVars>>

\* The variables of the mail server while another program runs, and the others.
NoMail == Mail!Init /\ cmd = [k \in 1 .. 1 |-> Mail!AsInt(1)]
NoServer == server = 0 /\ net = 0 /\ client = 0

Init ==
  \/ lab = "mail" /\ Mail!Init /\ NoServer
  \/ /\ NoMail
     /\ \/ lab = "quadrants" /\ Quadrants!Init
        \/ lab = "chat" /\ Chat!Init
        \/ lab = "lkStrings" /\ LKStrings!Init
        \/ lab = "ybStrings" /\ YBStrings!Init
        \/ lab = "lkFirst" /\ LKFirst!Init
        \/ lab = "ybFirst" /\ YBFirst!Init

-----------------------------------------------------------------------------
\* The program of this name runs, and no other.
Runs(name) == lab = name /\ UNCHANGED <<lab, mailVars>>
RunsMail(name) == lab = name /\ UNCHANGED <<lab, smallVars>>

Next ==
  \/ RunsMail("mail") /\ Mail!Next
  \/ Runs("quadrants") /\ Quadrants!Next
  \/ Runs("chat") /\ Chat!Next
  \/ Runs("lkStrings") /\ LKStrings!Next
  \/ Runs("ybStrings") /\ YBStrings!Next
  \/ Runs("lkFirst") /\ LKFirst!Next
  \/ Runs("ybFirst") /\ YBFirst!Next

\* The steps the fairness of the programs is about.  As lab never changes, a
\* disjunction over the programs is fair just when the step of the one that runs
\* is.
ServerStep ==
  \/ RunsMail("mail") /\ Mail!Accept
  \/ Runs("quadrants") /\ Quadrants!ServerStep
  \/ Runs("chat") /\ Chat!ServerStep
  \/ Runs("lkStrings") /\ LKStrings!WakeUp
  \/ Runs("ybStrings") /\ YBStrings!WakeUp
  \/ Runs("lkFirst") /\ LKFirst!ServerStep
  \/ Runs("ybFirst") /\ YBFirst!ServerStep

\* The clients, and the connections, have numbers in some programs, names in others.
Name == <<c1, c2>>

ThreadStep(k) ==
  \/ k = 1 /\ RunsMail("mail") /\ Mail!ThreadStep(k)
  \/ Runs("lkStrings") /\ LKStrings!ThreadStep(Name[k])
  \/ k = 1 /\ Runs("ybStrings") /\ YBStrings!ThreadStep(Name[k])

ClientStep(k) ==
  \/ k = 1 /\ RunsMail("mail") /\ Mail!ClientStep(k)
  \/ Runs("quadrants") /\ Quadrants!ClientStep(k)
  \/ k < 3 /\ Runs("chat") /\ Chat!ClientStep(Name[k])
  \/ k < 3 /\ Runs("lkStrings") /\ LKStrings!ClientStep(Name[k])
  \/ k = 1 /\ Runs("ybStrings") /\ YBStrings!ClientStep(Name[k])
  \/ k < 3 /\ Runs("lkFirst") /\ LKFirst!ClientStep(k)
  \/ k < 3 /\ Runs("ybFirst") /\ YBFirst!ClientStep(k)

Fairness ==
  /\ WF_vars(ServerStep)
  /\ \A k \in 1 .. 2 : WF_vars(ThreadStep(k))
  /\ \A k \in 1 .. 3 : WF_vars(ClientStep(k))

Spec == Init /\ [][Next]_vars

FairSpec == Spec /\ Fairness

-----------------------------------------------------------------------------
\* The variables of the program that runs keep their types, and no more is in flight
\* than its client waits for.
TypeOK ==
  /\ lab = "mail" => Mail!TypeOK
  /\ lab = "quadrants" => Quadrants!TypeOK
  /\ lab = "chat" => Chat!TypeOK
  /\ lab = "lkStrings" => LKStrings!TypeOK
  /\ lab = "ybStrings" => YBStrings!TypeOK
  /\ lab = "lkFirst" => LKFirst!TypeOK
  /\ lab = "ybFirst" => YBFirst!TypeOK

\* Mail server: thread and client agree on where every part of a command begins,
\* whatever pieces the stream arrives in.  The others: what a client waits for is
\* under way.
InStep ==
  /\ lab = "mail" => Mail!InStep
  /\ lab = "quadrants" => Quadrants!Underway
  /\ lab = "chat" => Chat!Underway
  /\ lab = "lkStrings" => LKStrings!Underway
  /\ lab = "ybStrings" => YBStrings!Underway
  /\ lab = "lkFirst" => LKFirst!Underway
  /\ lab = "ybFirst" => YBFirst!Underway

\* Mail server: the only client is signed in if its password is as long as its
\* login, or longer.
SignedIn ==
  lab = "mail" /\ Mail!AloneInSignIn(1) ~> lab = "mail" /\ (cli[1] # "token" \/ main # "accept")

\* Mail server: the thread of a client that has gone ends.
ThreadEnds == lab = "mail" /\ Mail!LeftAlone(1) ~> lab = "mail" /\ pc[1] = "ended"

\* Quadrants: the inner accept loop serves every client in its turn, and tells it
\* the quadrant of its point.
Served ==
  \A k \in 2 .. 3, a, b \in {0, 1} :
    lab = "quadrants" /\ Quadrants!Turn(k, a, b)
      ~> lab = "quadrants" /\ Quadrants!Settled(k, a, b)

\* UDP chat: a client is shown its own text, as long as datagrams come in pairs.
OwnText == lab = "chat" => Chat!OwnText

\* UDP chat: a client that waits gets on, unless a datagram is lost or the pairs
\* have mixed.
EchoArrives ==
  \A c \in {c1, c2} :
    lab = "chat" /\ client[c].at = "waiting" ~> lab = "chat" /\ Chat!Answered(c)

\* LK_3, YB_3: a client reads the replies to the string it has sent, and they are
\* what the program promises.
RepliesRight ==
  /\ lab = "lkStrings" => LKStrings!RepliesRight
  /\ lab = "ybStrings" => YBStrings!RepliesRight

\* A client has sent a string; its answer has come, or never will.
StringSent(k) ==
  \/ lab = "lkStrings" /\ client[Name[k]].at = "length"
  \/ k = 1 /\ lab = "ybStrings" /\ client[c1].at = "length"

StringAnswered(k) ==
  \/ lab = "lkStrings" /\ LKStrings!Answered(Name[k])
  \/ k = 1 /\ lab = "ybStrings" /\ YBStrings!Answered(c1)

\* LK_3, YB_3: every string is answered, unless the client waits for a second reply
\* that the server never sends.
RepliesArrive == \A k \in 1 .. 2 : StringSent(k) ~> StringAnswered(k)

\* Quadrants, LK_1, YB_1: what is printed is right about what its client has asked,
\* and clients that are not served are told nothing.
AnswersRight ==
  /\ lab = "quadrants" => Quadrants!AnswersRight
  /\ lab = "lkFirst" => LKFirst!VerdictsRight
  /\ lab = "ybFirst" => YBFirst!VerdictsRight

\* LK_1, YB_1: the first client is told the truth about every number and every two
\* words.
VerdictArrives ==
  /\ \A frames \in LKFirst!Questions \ {<<LKFirst!QuitFrame>>} :
       lab = "lkFirst" /\ LKFirst!Asks(frames) ~> lab = "lkFirst" /\ LKFirst!Settled(frames)
  /\ \A frames \in {"a", "b"} \X {"a", "b"} :
       lab = "ybFirst" /\ YBFirst!Asks(frames) ~> lab = "ybFirst" /\ YBFirst!Settled(frames)

=============================================================================
