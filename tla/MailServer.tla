----------------------------- MODULE MailServer -----------------------------
(***************************************************************************)
(* The CN5 mail server, which reads commands from streams of bytes, and    *)
(* its QML client.  Every thread of the server uses the socket through a   *)
(* reference to acceptSocket, the variable the accept loop assigns to.     *)
(*                                                                         *)
(* Connections are numbered in the order in which they are accepted.       *)
(* Letters of logins, passwords, tokens and messages are all alike; no     *)
(* part of the server looks at them, unless it takes them for something    *)
(* else.  Nothing is stored: the database is not connected.                *)
(***************************************************************************)
EXTENDS Naturals, Sequences, Bytes

CONSTANTS
  MaxConns,     \* bound: connections made
  MaxCommands,  \* bound: commands users give after signing in, and failures of
                \* accept, together
  IntSize,      \* sizeof(int)
  TokenSize,    \* bytes of a token
  TextSize,     \* bytes of "hello world"
  Credentials,  \* lengths of the logins and passwords users enter
  Leftovers,    \* what the stack slot of bufCommand may hold at first
  Faults        \* which of "accept", "memory", "kill" can happen

Conns == 1 .. MaxConns

ASSUME MailAssumption ==
  /\ MaxConns \in Nat /\ MaxCommands \in Nat
  /\ IntSize \in 1 .. 4 /\ TokenSize \in Nat \ {0} /\ TextSize \in Nat \ {0}
  /\ TextSize + 1 \in Ints(IntSize)
  /\ Credentials \subseteq [lg : Ints(IntSize), pw : Ints(IntSize)]
  /\ Leftovers \subseteq [1 .. IntSize -> Byte]
  /\ Faults \subseteq {"accept", "memory", "kill"}

VARIABLES
  main,         \* the main thread: "accept", "join", or the process has "ended"
  accepted,     \* connections accepted
  pc,           \* pc[k]: where the thread created for connection k is
  on,           \* on[k]: the connection of its pending recv, 0 if it is in none
  buf,          \* buf[k]: bytes its current recvAll has received
  cmd,          \* cmd[k]: bufCommand
  lgSize,       \* lgSize[k], pwSize[k]: as in signIn
  pwSize,
  c2s, s2c,     \* c2s[k], s2c[k]: bytes in flight in the two directions
  connected,    \* connections made
  cli,          \* cli[k]: what the client of connection k waits for
  typed,        \* typed[k]: lengths of the login and the password entered
  job,          \* job[k]: the command the client has given
  left,         \* left[k]: messages checkForMessages has still to get
  size,         \* size[k]: msgSize in getMessage
  shown,        \* shown[k]: the client's list has an entry
  given         \* how many of these commands and failures there were

mainVars == <<main, accepted>>
threadVars == <<pc, on, buf, cmd, lgSize, pwSize>>
clientVars == <<connected, cli, typed, job, left, size, shown, given>>
vars == <<mainVars, threadVars, c2s, s2c, clientVars>>

\* enum class commands.
SIGNIN == 0
CHECKINCOMINGMESSAGES == 1
DELETEINCOMINGMESSAGE == 2
SIGNOUT == 3

Receiving == {"command", "lgSize", "pwSize", "login", "password", "token", "number"}
Sending == {"signedIn", "answer", "count", "size", "text"}
ThreadPCs == {"none", "ended"} \cup Receiving \cup Sending

\* The client waits for one of these.
Waiting == {"token", "answer", "count", "size", "text"}
ClientPCs == {"off", "menu", "abandoned", "gone"} \cup Waiting

\* An int on the wire.
AsInt(n) == IntBytes(n, IntSize)

NoCredential == [lg |-> 0, pw |-> 0]

Init ==
  /\ main = "accept" /\ accepted = 0
  /\ pc = [k \in Conns |-> "none"] /\ on = [k \in Conns |-> 0]
  /\ buf = [k \in Conns |-> <<>>]
  /\ cmd \in [Conns -> Leftovers]
  /\ lgSize = [k \in Conns |-> 0] /\ pwSize = [k \in Conns |-> 0]
  /\ c2s = [k \in Conns |-> <<>>] /\ s2c = [k \in Conns |-> <<>>]
  /\ connected = 0 /\ given = 0
  /\ cli = [k \in Conns |-> "off"]
  /\ typed = [k \in Conns |-> NoCredential]
  /\ job = [k \in Conns |-> SIGNIN]
  /\ left = [k \in Conns |-> 0] /\ size = [k \in Conns |-> 0]
  /\ shown = [k \in Conns |-> FALSE]

-----------------------------------------------------------------------------
(* The main thread.                                                        *)

\* Mutant: the thread has a socket of its own.
OwnSocket(k) == IF main = "accept" THEN k ELSE 0

\* What serv, the reference thread k was given, refers to: what acceptSocket
\* holds by now; 0 is INVALID_SOCKET.
serv(k) == IF main = "accept" THEN accepted ELSE 0

\* accept, and a thread with a reference to acceptSocket.
Accept ==
  /\ main = "accept" /\ accepted < connected
  /\ accepted' = accepted + 1
  /\ pc' = [pc EXCEPT ![accepted + 1] = "command"]
  /\ UNCHANGED <<main, on, buf, cmd, lgSize, pwSize, c2s, s2c, clientVars>>

\* accept fails: acceptSocket becomes INVALID_SOCKET, the threads are joined.
AcceptFails ==
  /\ "accept" \in Faults /\ given < MaxCommands
  /\ main = "accept" /\ main' = "join"
  /\ given' = given + 1
  /\ UNCHANGED <<accepted, threadVars, c2s, s2c, connected, cli, typed, job, left, size, shown>>

\* The process ends, its threads with it; its connections are closed.
EndProcess ==
  /\ main' = "ended"
  /\ pc' = [k \in Conns |-> "ended"] /\ on' = [k \in Conns |-> 0]
  /\ buf' = [k \in Conns |-> <<>>] /\ cmd' = [k \in Conns |-> AsInt(0)]
  /\ lgSize' = [k \in Conns |-> 0] /\ pwSize' = [k \in Conns |-> 0]
  /\ c2s' = [k \in Conns |-> <<>>]
  /\ UNCHANGED <<accepted, s2c, clientVars>>

\* All threads are joined.
Join ==
  /\ main = "join"
  /\ \A k \in 1 .. accepted : pc[k] = "ended"
  /\ EndProcess

-----------------------------------------------------------------------------
(* procClient.                                                             *)

\* Mutant: a password is received with the terminator it is sent without.
NeedTerminator(k) ==
  CASE pc[k] = "token" -> TokenSize
    [] pc[k] = "login" -> lgSize[k]
    [] pc[k] = "password" -> pwSize[k] + 1
    [] OTHER -> IntSize

\* The length of the recvAll the thread is in; the password is received with
\* the length of the login.
Need(k) ==
  CASE pc[k] = "token" -> TokenSize
    [] pc[k] \in {"login", "password"} -> lgSize[k]
    [] OTHER -> IntSize

\* recv is called, with the socket serv refers to by now.
Call(k) ==
  /\ pc[k] \in Receiving /\ Need(k) > 0
  /\ on[k] = 0 /\ serv(k) # 0
  /\ on' = [on EXCEPT ![k] = serv(k)]
  /\ UNCHANGED <<mainVars, pc, buf, cmd, lgSize, pwSize, c2s, s2c, clientVars>>

\* The switch: other values than the four commands are passed over.
Switch(command) ==
  CASE command = SIGNIN -> "lgSize"
    [] command \in {CHECKINCOMINGMESSAGES, DELETEINCOMINGMESSAGE, SIGNOUT} -> "token"
    [] OTHER -> "command"

\* procClient returns; nobody closes the socket.
End(k) ==
  /\ pc' = [pc EXCEPT ![k] = "ended"]
  /\ buf' = [buf EXCEPT ![k] = <<>>] /\ cmd' = [cmd EXCEPT ![k] = AsInt(0)]
  /\ lgSize' = [lgSize EXCEPT ![k] = 0] /\ pwSize' = [pwSize EXCEPT ![k] = 0]

\* What follows a recvAll that has received these bytes.
Proceed(k, bytes) ==
  /\ pc' = [pc EXCEPT ![k] = CASE @ = "command" -> Switch(Value(bytes))
                               [] @ = "lgSize" -> "pwSize"
                               [] @ = "pwSize" -> "login"
                               [] @ = "login" -> "password"
                               [] @ = "password" -> "signedIn"
                               [] @ = "token" -> "answer"
                               [] @ = "number" -> "command"]
  /\ buf' = [buf EXCEPT ![k] = <<>>]
  /\ cmd' = IF pc[k] = "command" THEN [cmd EXCEPT ![k] = bytes] ELSE cmd
  /\ lgSize' = [lgSize EXCEPT ![k] = CASE pc[k] = "lgSize" -> Value(bytes) [] pc[k] = "password" -> 0 [] OTHER -> @]
  /\ pwSize' = [pwSize EXCEPT ![k] = CASE pc[k] = "pwSize" -> Value(bytes) [] pc[k] = "password" -> 0 [] OTHER -> @]

\* The bytes thread k has when recv has returned n more.
Got(k, n) == buf[k] \o SubSeq(c2s[on[k]], 1, n)

\* Mutant: recv instead of recvAll.
ReceiveOnce(k) ==
  /\ on[k] # 0 /\ on' = [on EXCEPT ![k] = 0]
  /\ \E n \in 1 .. Len(c2s[on[k]]) :
       /\ n <= Need(k) /\ Proceed(k, Got(k, n))
       /\ c2s' = [c2s EXCEPT ![on[k]] = SubSeq(@, n + 1, Len(@))]
  /\ UNCHANGED <<mainVars, s2c, clientVars>>

\* Mutant: every recv of recvAll is given the whole length.
ReceiveWhole(k) ==
  /\ on[k] # 0 /\ on' = [on EXCEPT ![k] = 0]
  /\ \E n \in 1 .. Len(c2s[on[k]]) :
       /\ n <= Need(k)
       /\ c2s' = [c2s EXCEPT ![on[k]] = SubSeq(@, n + 1, Len(@))]
       /\ buf' = [buf EXCEPT ![k] = Got(k, n)]
  /\ UNCHANGED <<mainVars, pc, cmd, lgSize, pwSize, s2c, clientVars>>

\* recv returns a piece of what is there; recvAll goes on until it has all.
Receive(k) ==
  /\ on[k] # 0 /\ on' = [on EXCEPT ![k] = 0]
  /\ \E n \in 1 .. Len(c2s[on[k]]) :
       /\ Len(Got(k, n)) <= Need(k)
       /\ c2s' = [c2s EXCEPT ![on[k]] = SubSeq(@, n + 1, Len(@))]
       /\ IF Len(Got(k, n)) = Need(k)
            THEN Proceed(k, Got(k, n))
            ELSE buf' = [buf EXCEPT ![k] = Got(k, n)] /\ UNCHANGED <<pc, cmd, lgSize, pwSize>>
  /\ UNCHANGED <<mainVars, s2c, clientVars>>

\* recvAll of length 0 returns what its n held.
ReceiveNothing(k) ==
  /\ pc[k] \in Receiving /\ Need(k) = 0
  /\ \/ Proceed(k, <<>>)
     \/ End(k)
  /\ UNCHANGED <<mainVars, on, c2s, s2c, clientVars>>

\* recv fails: serv refers to no socket, or the client has gone.
Broken(k) == IF on[k] = 0 THEN serv(k) = 0 ELSE c2s[on[k]] = <<>> /\ cli[on[k]] = "gone"

\* What bufCommand holds when the receive of a command fails.
Stale(k) == buf[k] \o SubSeq(cmd[k], Len(buf[k]) + 1, IntSize)

\* Mutant: a token that is not received ends nothing either.
ReceiveFailsUnnoticed(k) ==
  /\ pc[k] \in Receiving /\ Need(k) > 0 /\ Broken(k)
  /\ on' = [on EXCEPT ![k] = 0]
  /\ CASE pc[k] = "command" -> Proceed(k, Stale(k))
       [] pc[k] = "token" -> Proceed(k, Letters(TokenSize))
       [] OTHER -> End(k)
  /\ UNCHANGED <<mainVars, c2s, s2c, clientVars>>

\* Nobody asks whether it was for a command: what bufCommand holds is carried
\* out.  Otherwise the thread ends, and leaves the socket open.
ReceiveFails(k) ==
  /\ pc[k] \in Receiving /\ Need(k) > 0 /\ Broken(k)
  /\ on' = [on EXCEPT ![k] = 0]
  /\ IF pc[k] = "command" THEN Proceed(k, Stale(k)) ELSE End(k)
  /\ UNCHANGED <<mainVars, c2s, s2c, clientVars>>

\* Mutant: the announced size is that of what is sent.
ReplyExact(k) ==
  CASE pc[k] = "signedIn" -> Letters(TokenSize)
    [] pc[k] = "answer" -> <<1>>
    [] pc[k] = "count" -> AsInt(1)
    [] pc[k] = "size" -> AsInt(TextSize)
    [] pc[k] = "text" -> Letters(TextSize)

\* What the thread sends; the size of the message counts its terminator.
Reply(k) ==
  CASE pc[k] = "signedIn" -> Letters(TokenSize)
    [] pc[k] = "answer" -> <<1>>
    [] pc[k] = "count" -> AsInt(1)
    [] pc[k] = "size" -> AsInt(TextSize + 1)
    [] pc[k] = "text" -> Letters(TextSize)

\* Where the thread is when it has sent that.
Sent(k) ==
  CASE pc[k] = "answer" -> (CASE Value(cmd[k]) = CHECKINCOMINGMESSAGES -> "count"
                              [] Value(cmd[k]) = DELETEINCOMINGMESSAGE -> "number"
                              [] OTHER -> "command")
    [] pc[k] = "count" -> "size"
    [] pc[k] = "size" -> "text"
    [] OTHER -> "command"

\* sendAll, to the connection serv refers to by now.
Send(k) ==
  /\ pc[k] \in Sending /\ serv(k) # 0
  /\ pc' = [pc EXCEPT ![k] = Sent(k)]
  /\ s2c' = IF cli[serv(k)] \in {"abandoned", "gone"} THEN s2c
                                                    ELSE [s2c EXCEPT ![serv(k)] = @ \o Reply(k)]
  /\ UNCHANGED <<mainVars, on, buf, cmd, lgSize, pwSize, c2s, clientVars>>

\* sendAll fails.
SendFails(k) ==
  /\ pc[k] \in Sending
  /\ serv(k) # 0 => cli[serv(k)] = "gone"
  /\ End(k)
  /\ UNCHANGED <<mainVars, on, c2s, s2c, clientVars>>

\* A login or password too large for the memory, a password written beyond the
\* end of its buffer, or a login or password without a terminator that is read
\* beyond its end, can end the process.
MemoryFails(k) ==
  /\ "memory" \in Faults
  /\ \/ pc[k] = "login" /\ {lgSize[k], pwSize[k]} \cap Byte # {lgSize[k], pwSize[k]}
     \/ pc[k] = "password" /\ Len(buf[k]) > pwSize[k]
     \/ pc[k] = "signedIn"
  /\ EndProcess

-----------------------------------------------------------------------------
(* The client: a click runs until the last byte it waits for is there.     *)

\* The client sends and starts to wait.
Ask(k, bytes, for) ==
  /\ c2s' = IF main = "ended" THEN c2s ELSE [c2s EXCEPT ![k] = @ \o bytes]
  /\ cli' = [cli EXCEPT ![k] = for]

\* The dialog's OK: connectToServer and the sends of signIn.  A sendAll of
\* length 0 returns what its n held, maybe -1; the socket is then abandoned.
SignIn(credential) ==
  LET k == connected + 1
      header == AsInt(SIGNIN) \o AsInt(credential.lg) \o AsInt(credential.pw)
      login == header \o Letters(credential.lg)
  IN
  /\ main # "ended" /\ connected < MaxConns
  /\ connected' = k
  /\ typed' = [typed EXCEPT ![k] = credential]
  /\ \/ Ask(k, login \o Letters(credential.pw), "token")
     \/ credential.lg = 0 /\ Ask(k, header, "abandoned")
     \/ credential.pw = 0 /\ Ask(k, login, "abandoned")
  /\ UNCHANGED <<mainVars, threadVars, s2c, job, left, size, shown, given>>

\* A command and the token, of which only the length is certain: the memory it
\* is sent from has been freed.
AskFor(k, command) ==
  /\ Ask(k, AsInt(command) \o Letters(TokenSize), "answer")
  /\ job' = [job EXCEPT ![k] = command]

\* The three buttons; Delete needs a message to be selected.
Click(k, command) ==
  /\ cli[k] = "menu" /\ given < MaxCommands
  /\ command = DELETEINCOMINGMESSAGE => shown[k]
  /\ AskFor(k, command)
  /\ given' = given + 1
  /\ UNCHANGED <<mainVars, threadVars, s2c, connected, typed, left, size, shown>>

\* The length of the recvAll the client is in.
ClientNeed(k) ==
  CASE cli[k] = "token" -> TokenSize
    [] cli[k] = "answer" -> 1
    [] cli[k] = "text" -> size[k]
    [] OTHER -> IntSize

\* The client has received all it waits for.
Take(k) ==
  /\ cli[k] \in Waiting /\ Len(s2c[k]) >= ClientNeed(k)
  /\ s2c' = [s2c EXCEPT ![k] = SubSeq(@, ClientNeed(k) + 1, Len(@))]
  /\ UNCHANGED <<mainVars, threadVars, connected, typed, given>>

\* The token: the client is signed in and checks for messages.
GotToken(k) ==
  /\ cli[k] = "token" /\ Take(k)
  /\ AskFor(k, CHECKINCOMINGMESSAGES)
  /\ UNCHANGED <<left, size, shown>>

\* The answer to the token.  After a delete, the list is checked again; after a
\* sign-out the socket stays open.
GotAnswer(k) ==
  /\ cli[k] = "answer" /\ Take(k)
  /\ \/ /\ job[k] = CHECKINCOMINGMESSAGES
        /\ cli' = [cli EXCEPT ![k] = "count"]
        /\ UNCHANGED <<c2s, job, shown>>
     \/ /\ job[k] = DELETEINCOMINGMESSAGE
        /\ Ask(k, AsInt(0) \o AsInt(CHECKINCOMINGMESSAGES) \o Letters(TokenSize), "answer")
        /\ job' = [job EXCEPT ![k] = CHECKINCOMINGMESSAGES]
        /\ UNCHANGED shown
     \/ /\ job[k] = SIGNOUT
        /\ cli' = [cli EXCEPT ![k] = "abandoned"]
        /\ shown' = [shown EXCEPT ![k] = FALSE]
        /\ UNCHANGED <<c2s, job>>
  /\ UNCHANGED <<left, size>>

\* The number of messages: the list is cleared.
GotCount(k) ==
  /\ cli[k] = "count" /\ Take(k)
  /\ LET count == Value(SubSeq(s2c[k], 1, IntSize)) IN
       /\ left' = [left EXCEPT ![k] = count]
       /\ cli' = [cli EXCEPT ![k] = IF count > 0 THEN "size" ELSE "menu"]
  /\ shown' = [shown EXCEPT ![k] = FALSE]
  /\ UNCHANGED <<c2s, job, size>>

\* The size of a message.
GotSize(k) ==
  /\ cli[k] = "size" /\ Take(k)
  /\ size' = [size EXCEPT ![k] = Value(SubSeq(s2c[k], 1, IntSize))]
  /\ cli' = [cli EXCEPT ![k] = "text"]
  /\ UNCHANGED <<c2s, job, left, shown>>

\* A message.  It is read after its memory has been freed: it may also be empty,
\* which ends the loop.
GotText(k) ==
  /\ cli[k] = "text" /\ Take(k)
  /\ \/ /\ cli' = [cli EXCEPT ![k] = IF left[k] > 1 THEN "size" ELSE "menu"]
        /\ shown' = [shown EXCEPT ![k] = TRUE]
     \/ cli' = [cli EXCEPT ![k] = "menu"] /\ UNCHANGED shown
  /\ left' = [left EXCEPT ![k] = @ - 1]
  /\ UNCHANGED <<c2s, job, size>>

\* The server has gone.  In the loop over the messages that reads as an empty
\* message, and the buttons stay; else the window asks to sign in again.
GotNothing(k) ==
  /\ cli[k] \in Waiting /\ main = "ended" /\ Len(s2c[k]) < ClientNeed(k)
  /\ s2c' = [s2c EXCEPT ![k] = <<>>]
  /\ cli' = [cli EXCEPT ![k] = IF @ \in {"size", "text"} THEN "menu" ELSE "abandoned"]
  /\ shown' = [shown EXCEPT ![k] = @ /\ cli[k] \in {"size", "text"}]
  /\ UNCHANGED <<mainVars, threadVars, c2s, connected, typed, job, left, size, given>>

\* The client's process ends: the connection is closed, or reset, and what has
\* not been read by then is lost.
Kill(k) ==
  /\ "kill" \in Faults
  /\ cli[k] \notin {"off", "gone"}
  /\ cli' = [cli EXCEPT ![k] = "gone"]
  /\ c2s' \in {c2s, [c2s EXCEPT ![k] = <<>>]}
  /\ s2c' = [s2c EXCEPT ![k] = <<>>]
  /\ typed' = [typed EXCEPT ![k] = NoCredential]
  /\ job' = [job EXCEPT ![k] = SIGNIN] /\ shown' = [shown EXCEPT ![k] = FALSE]
  /\ left' = [left EXCEPT ![k] = 0] /\ size' = [size EXCEPT ![k] = 0]
  /\ UNCHANGED <<mainVars, threadVars, connected, given>>

-----------------------------------------------------------------------------
ThreadStep(k) ==
  Call(k) \/ Receive(k) \/ ReceiveNothing(k) \/ ReceiveFails(k) \/ Send(k) \/ SendFails(k)

ClientStep(k) ==
  GotToken(k) \/ GotAnswer(k) \/ GotCount(k) \/ GotSize(k) \/ GotText(k) \/ GotNothing(k)

Next ==
  \/ Accept \/ AcceptFails \/ Join
  \/ \E credential \in Credentials : SignIn(credential)
  \/ \E k \in Conns :
       \/ ThreadStep(k) \/ MemoryFails(k) \/ ClientStep(k) \/ Kill(k)
       \/ \E command \in CHECKINCOMINGMESSAGES .. SIGNOUT : Click(k, command)

Spec == Init /\ [][Next]_vars

\* Threads run, and a client reads what it waits for.
Fairness == WF_vars(Accept) /\ \A k \in Conns : WF_vars(ThreadStep(k)) /\ WF_vars(ClientStep(k))

FairSpec == Spec /\ Fairness

-----------------------------------------------------------------------------
(* Properties.                                                             *)

\* Every variable keeps its type, no recvAll receives more than it was asked
\* for, and a pending recv is one of a connection that was accepted.
TypeOK ==
  /\ main \in {"accept", "join", "ended"} /\ accepted \in 0 .. connected
  /\ pc \in [Conns -> ThreadPCs] /\ on \in [Conns -> 0 .. accepted]
  /\ buf \in [Conns -> Bytes] /\ cmd \in [Conns -> [1 .. IntSize -> Byte]]
  /\ \A k \in Conns : pc[k] \in Receiving => Len(buf[k]) <= Need(k)
  /\ \A k \in Conns : on[k] # 0 => pc[k] \in Receiving
  /\ lgSize \in [Conns -> Nat] /\ pwSize \in [Conns -> Nat]
  /\ c2s \in [Conns -> Bytes] /\ s2c \in [Conns -> Bytes]
  /\ connected \in 0 .. MaxConns /\ given \in 0 .. MaxCommands
  /\ cli \in [Conns -> ClientPCs]
  /\ typed \in [Conns -> Credentials \cup {NoCredential}]
  /\ job \in [Conns -> SIGNIN .. SIGNOUT]
  /\ left \in [Conns -> Nat] /\ size \in [Conns -> Nat]
  /\ shown \in [Conns -> BOOLEAN]

\* What a thread still reads and still sends of the current command.
Reads(k) ==
  LET lg == typed[k].lg IN
  CASE pc[k] = "command" -> IntSize + (IF cli[k] = "token" THEN 2 * IntSize + 2 * lg ELSE TokenSize)
    [] pc[k] = "lgSize" -> 2 * IntSize + 2 * lg
    [] pc[k] = "pwSize" -> IntSize + 2 * lg
    [] pc[k] = "login" -> 2 * lg
    [] pc[k] = "password" -> lg
    [] pc[k] = "token" -> TokenSize
    [] OTHER -> 0

Sends(k) ==
  IF cli[k] = "token"
    THEN TokenSize
    ELSE CASE pc[k] = "count" -> 2 * IntSize + TextSize
           [] pc[k] = "size" -> IntSize + TextSize
           [] pc[k] = "text" -> TextSize
           [] OTHER -> 1 + 2 * IntSize + TextSize

\* What the client still waits for.
Expects(k) ==
  CASE cli[k] = "token" -> TokenSize
    [] cli[k] = "answer" -> 2 + 2 * IntSize + TextSize
    [] cli[k] = "count" -> 1 + 2 * IntSize + TextSize
    [] cli[k] = "size" -> 1 + IntSize + TextSize
    [] cli[k] = "text" -> size[k]

\* In whatever pieces the stream arrives: as long as a connection is the only
\* one, and its login is as long as its password, thread and client agree on
\* where every part of a command begins, and the thread sends exactly what the
\* client waits for, except for the last byte of a message.
InStep ==
  accepted = 1 /\ main = "accept" /\ cli[1] \in Waiting /\ typed[1].lg = typed[1].pw /\ typed[1].lg > 0 =>
    LET unread == Len(buf[1]) + Len(c2s[1])
        short == IF cli[1] = "token" THEN 0 ELSE 1 IN
    IF pc[1] = "command" /\ unread = 0
      THEN Len(s2c[1]) + short = Expects(1)
      ELSE unread = Reads(1) /\ Len(s2c[1]) + Sends(1) + short = Expects(1)

\* A client that is the only one to connect is never shown a message: it waits
\* for the terminator, which the size counts and the server does not send.
NothingShown == accepted <= 1 => \A k \in Conns : ~shown[k]

Starved(k) == k < accepted /\ cli[k] \in Waiting /\ ~(Len(s2c[k]) >= ClientNeed(k))

\* All threads answer the connection accepted last: a client that does not have
\* its answer when the next one is accepted will never get it.
StaysStarved ==
  [][\A k \in Conns : Starved(k) /\ main' # "ended" => Starved(k)' \/ cli'[k] = "gone"]_vars

\* With a password at least as long as the login, a client is signed in unless
\* another is accepted, or threads of earlier ones are left to take its bytes.
AloneInSignIn(k) ==
  /\ cli[k] = "token" /\ typed[k].lg \in 1 .. typed[k].pw
  /\ accepted = k - 1 /\ \A j \in 1 .. accepted : pc[j] = "ended"

SignedIn ==
  \A k \in Conns : AloneInSignIn(k) ~> cli[k] # "token" \/ accepted > k \/ main # "accept"

\* A thread whose client has gone ends, although it carries out a command that
\* nobody sent; not if its buffer holds something else.
LeftAlone(k) ==
  /\ cli[k] = "gone" /\ accepted = k /\ c2s[k] = <<>>
  /\ pc[k] = "command" => buf[k] = <<>>
  /\ Value(cmd[k]) \in SIGNIN .. SIGNOUT

ThreadEnds ==
  \A k \in Conns : LeftAlone(k) ~> pc[k] = "ended" \/ accepted > k
=============================================================================
