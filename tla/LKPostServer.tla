---------------------------- MODULE LKPostServer ----------------------------
(***************************************************************************)
(* The LK_4 post server and its console client: one Payload thread for     *)
(* each connection, all working on messages.txt under the mutex fMutex.    *)
(* "view" lists the mail addressed to the caller; "purge" lists the mail   *)
(* the caller wrote, then rewrites the file without it.                    *)
(*                                                                         *)
(* The server never adds mail, so the file is the set of the records that  *)
(* are left of the initial ones; records are numbered in file order.  A    *)
(* frame stands for what one send call (two, for a record: its phone and   *)
(* its text) puts into the stream, and is received whole.                  *)
(***************************************************************************)
EXTENDS Naturals, Sequences

CONSTANTS
  Clients,      \* connection slots: a client process and its Payload thread
  Phones,       \* phone numbers
  NoPhone,      \* what cTel holds when no phone was received
  Messages,     \* the records of messages.txt at the start, by line number
  To, From,     \* To[m], From[m]: the first two fields of record m
  Malformed,    \* records whose text is longer than the buffer it is read into
  SockBuf,      \* frames a connection buffers before send blocks
  NoThread,     \* "fMutex is not owned"
  End,          \* the frame "!end"
  Fill,         \* what the debug build fills a new stack frame with
  Faults        \* which of "crash", "open", "rewrite", "thread" can happen

ASSUME LKAssumption ==
  /\ Messages \subseteq Nat
  /\ Malformed \subseteq Messages
  /\ To \in [Messages -> Phones] /\ From \in [Messages -> Phones]
  /\ NoPhone \notin Phones /\ NoThread \notin Clients
  /\ End \notin Messages /\ Fill \notin Messages \cup {End}
  /\ SockBuf \in Nat \ {0}
  /\ Faults \subseteq {"crash", "open", "rewrite", "thread"}

VARIABLES
  file,         \* messages.txt
  owner,        \* the thread that owns fMutex
  pc,           \* pc[c]: where the Payload thread of connection c is
  cTel,         \* cTel[c]: the phone the thread works for
  cmd,          \* cmd[c]: the stack slot of "int cmd"
  left,         \* left[c]: records the thread's ifstream has not read yet
  msgs,         \* msgs[c]: collected records not yet written back
  sent,         \* sent[c]: records sent since the current command began
  refused,      \* history: threads whose last command could not open the file
                \* for the rewrite
  c2s, s2c,     \* c2s[c], s2c[c]: frames in flight in the two directions
  cli,          \* cli[c]: where the client program is
  shown,        \* shown[c]: records the client printed for its last command
  buf           \* buf[c]: what the receive buffers of view and purge hold

serverVars == <<owner, pc, cTel, cmd, left, msgs, sent, refused>>
clientVars == <<cli, shown, buf>>
vars == <<file, serverVars, c2s, s2c, clientVars>>

Commands  == {"view", "purge", "quit", "other"}
ThreadPCs == {"none", "tel", "cmd", "wait", "scan", "trunc", "write", "unlock"}
Critical  == {"scan", "trunc", "write", "unlock"}
Receiving == {"view", "purge"}
ClientPCs == {"off", "menu", "wedged"} \cup Receiving

Init ==
  /\ file = Messages
  /\ owner = NoThread
  /\ pc = [c \in Clients |-> "none"]
  /\ cTel = [c \in Clients |-> NoPhone]
  /\ cmd = [c \in Clients |-> "other"]
  /\ left = [c \in Clients |-> {}]
  /\ msgs = [c \in Clients |-> {}]
  /\ sent = [c \in Clients |-> {}]
  /\ refused = {}
  /\ c2s = [c \in Clients |-> <<>>]
  /\ s2c = [c \in Clients |-> <<>>]
  /\ cli = [c \in Clients |-> "off"]
  /\ shown = [c \in Clients |-> {}]
  /\ buf = [c \in Clients |-> [command \in Receiving |-> Fill]]

Goto(c, from, to) == pc[c] = from /\ pc' = [pc EXCEPT ![c] = to]

\* Mutant of Send: it never blocks.
SendUnbounded(c, frame) ==
  s2c' = IF cli[c] = "off" THEN s2c ELSE [s2c EXCEPT ![c] = Append(@, frame)]

\* send: blocks while the peer is there and its buffer is full; the result is
\* ignored, so a frame for a peer that has gone is silently lost.
Send(c, frame) ==
  IF cli[c] = "off"
    THEN UNCHANGED s2c
    ELSE /\ Len(s2c[c]) < SockBuf
         /\ s2c' = [s2c EXCEPT ![c] = Append(@, frame)]

\* Mutant of Selects: purge compares the caller with the addressee.
SelectsTo(c, m) == To[m] = cTel[c]

\* What the command of thread c selects: mail for the caller, or by the caller.
Selects(c, m) == IF cmd[c] = "view" THEN To[m] = cTel[c] ELSE From[m] = cTel[c]

First(m, S) == m \in S /\ \A k \in S : m <= k

\* The client process of c starts: nothing printed, nothing received.
StartClient(c) ==
  /\ cli[c] = "off" /\ pc[c] = "none"
  /\ cli' = [cli EXCEPT ![c] = "menu"]
  /\ s2c' = [s2c EXCEPT ![c] = <<>>]
  /\ shown' = [shown EXCEPT ![c] = {}]
  /\ buf' = [buf EXCEPT ![c] = [command \in Receiving |-> Fill]]

-----------------------------------------------------------------------------
(* The server's accept loop and the Payload threads.                       *)

\* connect, accept and CreateThread; the client then sends the phone it was
\* given.  The slot of cmd holds the debug build's fill pattern: no command.
Connect(c, p) ==
  /\ StartClient(c)
  /\ Goto(c, "none", "tel")
  /\ c2s' = [c2s EXCEPT ![c] = <<p>>]
  /\ cTel' = [cTel EXCEPT ![c] = NoPhone]
  /\ cmd' = [cmd EXCEPT ![c] = "other"]
  /\ sent' = [sent EXCEPT ![c] = {}]
  /\ UNCHANGED <<file, owner, left, msgs, refused>>

\* CreateThread fails: the server closes the socket it has just accepted.
Refuse(c) ==
  /\ "thread" \in Faults
  /\ StartClient(c)
  /\ UNCHANGED <<file, serverVars, c2s>>

\* recv of the phone; it fails when the client hung up without sending it.
RecvTel(c) ==
  /\ Goto(c, "tel", "cmd")
  /\ \/ /\ c2s[c] # <<>>
        /\ cTel' = [cTel EXCEPT ![c] = Head(c2s[c])]
        /\ c2s' = [c2s EXCEPT ![c] = Tail(@)]
     \/ /\ c2s[c] = <<>> /\ cli[c] = "off"
        /\ UNCHANGED <<cTel, c2s>>
  /\ UNCHANGED <<file, owner, cmd, left, msgs, sent, refused, s2c, clientVars>>

\* The switch over cmd: view and purge wait for the mutex, anything else
\* closes the socket and ends the thread.
Dispatch(c, command) ==
  Goto(c, "cmd", IF command \in {"view", "purge"} THEN "wait" ELSE "none")

\* recv of a command.
RecvCmd(c) ==
  /\ c2s[c] # <<>>
  /\ Dispatch(c, Head(c2s[c]))
  /\ cmd' = [cmd EXCEPT ![c] = Head(c2s[c])]
  /\ c2s' = [c2s EXCEPT ![c] = Tail(@)]
  /\ UNCHANGED <<file, owner, cTel, left, msgs, sent, refused, s2c, clientVars>>

\* recv fails on a connection whose client has gone.  The result is ignored:
\* cmd keeps what its stack slot held, and the last command runs again.
RecvCmdFails(c) ==
  /\ c2s[c] = <<>> /\ cli[c] = "off"
  /\ Dispatch(c, cmd[c])
  /\ UNCHANGED <<file, owner, cTel, cmd, left, msgs, sent, refused, c2s, s2c, clientVars>>

\* Mutant of Acquire: the mutex is not waited for.
AcquireUnlocked(c) ==
  /\ Goto(c, "wait", "scan")
  /\ owner' = c
  /\ left' = [left EXCEPT ![c] = file]
  /\ msgs' = [msgs EXCEPT ![c] = {}]
  /\ sent' = [sent EXCEPT ![c] = {}]
  /\ refused' = refused \ {c}
  /\ UNCHANGED <<file, cTel, cmd, c2s, s2c, clientVars>>

\* WaitForSingleObject returns WAIT_OBJECT_0 and messages.txt opens.
Acquire(c) ==
  /\ owner = NoThread
  /\ Goto(c, "wait", "scan")
  /\ owner' = c
  /\ left' = [left EXCEPT ![c] = file]
  /\ msgs' = [msgs EXCEPT ![c] = {}]
  /\ sent' = [sent EXCEPT ![c] = {}]
  /\ refused' = refused \ {c}
  /\ UNCHANGED <<file, cTel, cmd, c2s, s2c, clientVars>>

AfterScan(c) == IF cmd[c] = "view" THEN "unlock" ELSE "trunc"

\* The ifstream does not open: only "!end" is sent, but a purge goes on to
\* rewrite the file with the nothing it has collected.
OpenFails(c) ==
  /\ "open" \in Faults
  /\ Goto(c, "scan", AfterScan(c))
  /\ left[c] = file /\ sent[c] = {} /\ msgs[c] = {}
  /\ Send(c, End)
  /\ UNCHANGED <<file, owner, cTel, cmd, left, msgs, sent, refused, c2s, clientVars>>

\* One round of the read loop: the next record is sent to the caller or, when
\* a purge does not select it, collected.
ReadRecord(c) ==
  /\ pc[c] = "scan"
  /\ \E m \in left[c] \ Malformed :
       /\ First(m, left[c])
       /\ left' = [left EXCEPT ![c] = @ \ {m}]
       /\ IF Selects(c, m)
            THEN /\ Send(c, m)
                 /\ sent' = [sent EXCEPT ![c] = @ \cup {m}]
                 /\ UNCHANGED msgs
            ELSE /\ msgs' = [msgs EXCEPT ![c] = IF cmd[c] = "purge" THEN @ \cup {m} ELSE @]
                 /\ UNCHANGED <<sent, s2c>>
  /\ UNCHANGED <<file, owner, pc, cTel, cmd, refused, c2s, clientVars>>

AtEnd(c) == left[c] = {} \/ \E m \in Malformed : First(m, left[c])

\* Mutant of EndOfFile: without the flag quit, "!end" is sent a second time.
EndOfFileTwice(c) ==
  /\ Goto(c, "scan", AfterScan(c))
  /\ AtEnd(c)
  /\ s2c' = IF cli[c] = "off" THEN s2c ELSE [s2c EXCEPT ![c] = @ \o <<End, End>>]
  /\ UNCHANGED <<file, owner, cTel, cmd, left, msgs, sent, refused, c2s, clientVars>>

\* Mutant of EndOfFile: the mutex is released before the rewrite.
EndOfFileUnlocks(c) ==
  /\ Goto(c, "scan", AfterScan(c))
  /\ AtEnd(c)
  /\ Send(c, End)
  /\ owner' = IF cmd[c] = "purge" THEN NoThread ELSE owner
  /\ UNCHANGED <<file, cTel, cmd, left, msgs, sent, refused, c2s, clientVars>>

\* Mutant of EndOfFile: no "!end" after an empty answer.
EndOfFileSilent(c) ==
  /\ Goto(c, "scan", AfterScan(c))
  /\ AtEnd(c)
  /\ IF sent[c] # {} THEN Send(c, End) ELSE UNCHANGED s2c
  /\ UNCHANGED <<file, owner, cTel, cmd, left, msgs, sent, refused, c2s, clientVars>>

\* The end of the file, or a getline that fails on a field too long for its
\* buffer: either way "!end" is sent once and the loop is left.
EndOfFile(c) ==
  /\ Goto(c, "scan", AfterScan(c))
  /\ AtEnd(c)
  /\ Send(c, End)
  /\ UNCHANGED <<file, owner, cTel, cmd, left, msgs, sent, refused, c2s, clientVars>>

\* ofstream os("messages.txt", ios::trunc).
Truncate(c) ==
  /\ Goto(c, "trunc", "write")
  /\ file' = {}
  /\ UNCHANGED <<owner, cTel, cmd, left, msgs, sent, refused, c2s, s2c, clientVars>>

\* That ofstream does not open, which nobody checks: the file stays as it is
\* and every record written to the failed stream is dropped.
TruncateFails(c) ==
  /\ "rewrite" \in Faults
  /\ Goto(c, "trunc", "unlock")
  /\ refused' = refused \cup {c}
  /\ UNCHANGED <<file, owner, cTel, cmd, left, msgs, sent, c2s, s2c, clientVars>>

\* One more collected record reaches the file.
WriteRecord(c) ==
  /\ pc[c] = "write"
  /\ \E m \in msgs[c] :
       /\ First(m, msgs[c])
       /\ file' = file \cup {m}
       /\ msgs' = [msgs EXCEPT ![c] = @ \ {m}]
  /\ UNCHANGED <<owner, pc, cTel, cmd, left, sent, refused, c2s, s2c, clientVars>>

\* is.close() or os.close(), then ReleaseMutex; msgs and is go out of scope.
Unlock(c) ==
  /\ \/ pc[c] = "unlock"
     \/ pc[c] = "write" /\ msgs[c] = {}
  /\ pc' = [pc EXCEPT ![c] = "cmd"]
  /\ owner' = NoThread
  /\ left' = [left EXCEPT ![c] = {}]
  /\ msgs' = [msgs EXCEPT ![c] = {}]
  /\ UNCHANGED <<file, cTel, cmd, sent, refused, c2s, s2c, clientVars>>

\* The server process ends (its console is closed, or accept fails and main
\* returns) and is started again: the threads are gone, the file stays.  What
\* a client had not read by then may be lost with the connection.
Crash ==
  /\ "crash" \in Faults
  /\ \E c \in Clients : pc[c] # "none"
  /\ \E lost \in SUBSET Clients : s2c' = [c \in Clients |-> IF c \in lost THEN <<>> ELSE s2c[c]]
  /\ pc' = [c \in Clients |-> "none"]
  /\ owner' = NoThread
  /\ left' = [c \in Clients |-> {}] /\ msgs' = [c \in Clients |-> {}]
  /\ c2s' = [c \in Clients |-> <<>>]
  /\ UNCHANGED <<file, cTel, cmd, sent, refused, clientVars>>

-----------------------------------------------------------------------------
(* The client program.                                                     *)

\* send: fails without effect when the server has closed the connection.
Put(c, command) ==
  c2s' = IF pc[c] = "none" THEN c2s ELSE [c2s EXCEPT ![c] = Append(@, command)]

\* Menu choices 1 and 2: send the command, then receive until "!end".
Choose(c, command) ==
  /\ cli[c] = "menu"
  /\ cli' = [cli EXCEPT ![c] = command]
  /\ shown' = [shown EXCEPT ![c] = {}]
  /\ Put(c, command)
  /\ UNCHANGED <<file, serverVars, s2c, buf>>

\* Menu choice 0, or a number that is no choice: send it and close.
Leave(c, command) ==
  /\ cli[c] = "menu"
  /\ cli' = [cli EXCEPT ![c] = "off"]
  /\ Put(c, command)
  /\ s2c' = [s2c EXCEPT ![c] = <<>>]
  /\ UNCHANGED <<file, serverVars, shown, buf>>

\* The user types something that is no number: cin fails, is never cleared,
\* and the menu loop spins without sending anything.
Mistype(c) ==
  /\ cli[c] = "menu"
  /\ cli' = [cli EXCEPT ![c] = "wedged"]
  /\ UNCHANGED <<file, serverVars, c2s, s2c, shown, buf>>

\* One round of the receive loop: "!end" leads back to the menu.
Receive(c) ==
  /\ cli[c] \in Receiving /\ s2c[c] # <<>>
  /\ LET frame == Head(s2c[c]) IN
       /\ buf' = [buf EXCEPT ![c][cli[c]] = frame]
       /\ cli' = [cli EXCEPT ![c] = IF frame = End THEN "menu" ELSE @]
       /\ shown' = [shown EXCEPT ![c] = IF frame = End THEN @ ELSE @ \cup {frame}]
  /\ s2c' = [s2c EXCEPT ![c] = Tail(@)]
  /\ UNCHANGED <<file, serverVars, c2s>>

\* recv fails, the server has gone.  The result is ignored and the buffer
\* keeps what the last recv into it left: an old "!end" ends the loop (any
\* other content is printed again, for ever).
ReceiveFails(c) ==
  /\ cli[c] \in Receiving /\ s2c[c] = <<>> /\ pc[c] = "none"
  /\ buf[c][cli[c]] = End
  /\ cli' = [cli EXCEPT ![c] = "menu"]
  /\ UNCHANGED <<file, serverVars, c2s, s2c, shown, buf>>

\* The client process is killed; what the server has not read may be lost.
Kill(c) ==
  /\ cli[c] # "off"
  /\ cli' = [cli EXCEPT ![c] = "off"]
  /\ \E n \in 0 .. Len(c2s[c]) : c2s' = [c2s EXCEPT ![c] = SubSeq(@, 1, n)]
  /\ s2c' = [s2c EXCEPT ![c] = <<>>]
  /\ UNCHANGED <<file, serverVars, shown, buf>>

-----------------------------------------------------------------------------
\* What the thread of c does without waiting for the mutex.
ThreadStep(c) ==
  \/ RecvTel(c) \/ RecvCmd(c) \/ RecvCmdFails(c)
  \/ OpenFails(c) \/ ReadRecord(c) \/ EndOfFile(c)
  \/ Truncate(c) \/ TruncateFails(c) \/ WriteRecord(c) \/ Unlock(c)

ClientStep(c) ==
  \/ \E p \in Phones : Connect(c, p)
  \/ Refuse(c)
  \/ \E command \in {"view", "purge"} : Choose(c, command)
  \/ \E command \in {"quit", "other"} : Leave(c, command)
  \/ Mistype(c) \/ Receive(c) \/ ReceiveFails(c) \/ Kill(c)

Next == Crash \/ \E c \in Clients : Acquire(c) \/ ThreadStep(c) \/ ClientStep(c)

Spec == Init /\ [][Next]_vars

\* Threads run, clients that wait for an answer read it, and the kernel does
\* not pass over a thread that waits for the mutex for ever.
Fairness ==
  \A c \in Clients :
    /\ WF_vars(ThreadStep(c))
    /\ SF_vars(Acquire(c))
    /\ WF_vars(Receive(c))

FairSpec == Spec /\ Fairness

-----------------------------------------------------------------------------
(* Properties.                                                             *)

\* Every variable keeps its type; above all, no thread ever has more frames
\* under way than the connection buffers.
TypeOK ==
  /\ file \subseteq Messages
  /\ owner \in Clients \cup {NoThread}
  /\ pc \in [Clients -> ThreadPCs]
  /\ cTel \in [Clients -> Phones \cup {NoPhone}]
  /\ cmd \in [Clients -> Commands]
  /\ left \in [Clients -> SUBSET Messages]
  /\ msgs \in [Clients -> SUBSET Messages]
  /\ sent \in [Clients -> SUBSET Messages]
  /\ refused \subseteq Clients
  /\ c2s \in [Clients -> Seq(Phones \cup Commands)]
  /\ s2c \in [Clients -> Seq(Messages \cup {End})]
  /\ cli \in [Clients -> ClientPCs]
  /\ shown \in [Clients -> SUBSET Messages]
  /\ buf \in [Clients -> [Receiving -> Messages \cup {End, Fill}]]
  /\ \A c \in Clients : Len(s2c[c]) <= SockBuf

\* messages.txt is only touched by the thread that owns fMutex, and no thread
\* ends while it owns it: WaitForSingleObject never returns WAIT_ABANDONED.
MutexHeld == \A c \in Clients : pc[c] \in Critical <=> owner = c

\* A client back at its menu has read every frame of the answer, and printed
\* exactly the records that were sent: the next command starts in step.
InSync ==
  \A c \in Clients :
    cli[c] = "menu" /\ pc[c] # "none" => s2c[c] = <<>> /\ shown[c] = sent[c]

\* The mail the server is answerable for: during a rewrite, what has been
\* written and what is still to be written.
Rewritten == UNION {msgs[c] : c \in {d \in Clients : pc[d] = "write"}}
Box == file \cup Rewritten

\* The command that has not taken effect yet, and the answer to the last one
\* that has.
Working == {"wait", "scan", "trunc"}
Asking == [c \in Clients |-> IF pc[c] \in Working THEN cmd[c] ELSE "none"]
Answer == [c \in Clients |-> IF pc[c] \in Working THEN {} ELSE sent[c]]

IsTo(m, p) == To[m] = p
IsBy(m, p) == From[m] = p

Store == INSTANCE Mailbox
  WITH Records <- Messages, IsFor <- IsTo, IsFrom <- IsBy,
       box <- Box, who <- cTel, asked <- Asking, answer <- Answer

\* Every thread's scan and rewrite of the file is one atomic operation of the
\* mail store: no view sees half a purge, and a purge deletes what it lists.
Atomic == Store!MailSpec

\* No record that was deleted ever comes back, not even when the server dies
\* or the file cannot be read while other threads hold stale copies.
NoResurrection == [][Box' \subseteq Box]_vars

\* A record only disappears when a purge of the phone that wrote it runs
\* (client menu: "delete all sended messages").
OthersMailSurvives ==
  [][\A m \in Box \ Box' : \E c \in Clients : cmd[c] = "purge" /\ From[m] = cTel[c]]_vars

\* A client of a live server prints "all sended messages has been deleted!".
ToldDeleted(c) == cli[c] = "purge" /\ cli'[c] = "menu" /\ pc[c] # "none"

AllGone(c) == \A m \in Box' : From[m] # cTel[c]

\* When a client is told that its mail is deleted, the mail its phone wrote is
\* gone, or "!end" has overtaken the rewrite: the thread still has the mutex
\* and nobody can look, or the file did not open for the rewrite.
PurgeSettled ==
  [][\A c \in Clients : ToldDeleted(c) => owner' = c \/ AllGone(c) \/ c \in refused']_vars

\* A client that waits for an answer gets it to the end, whatever the others
\* do: hang up in the middle, mistype, or wait for the same file.
AnswerArrives ==
  \A c \in Clients : cli[c] \in Receiving ~> cli[c] \notin Receiving
=============================================================================
