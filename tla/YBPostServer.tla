---------------------------- MODULE YBPostServer ----------------------------
(***************************************************************************)
(* The YB_4 post server and its console client: "send" appends a record to *)
(* messages.txt, "view" lists the mail addressed to the caller; each       *)
(* connection has a Payload thread, and fMutex guards the file.            *)
(*                                                                         *)
(* Every text is typed once, so that a record tells which message it came  *)
(* from; the exception is End, the text "!end".  A frame is what one send  *)
(* call puts into the stream, and is received whole.                       *)
(***************************************************************************)
EXTENDS Naturals, Sequences, FiniteSets

CONSTANTS
  Clients,      \* connection slots: a client process and its Payload thread
  Phones,       \* phone numbers
  NoPhone,      \* what cTel holds when no phone was received
  Texts,        \* the texts of messages
  NoThread,     \* "fMutex is not owned"
  End,          \* the text and the frame "!end"
  Fill,         \* what a stack slot holds that nothing was received into
  EndTyped,     \* whether users also send the text "!end"
  SockBuf,      \* frames a connection buffers before send blocks
  MaxPosts,     \* bound: messages the users of one slot type
  MaxRepeats,   \* bound: repetitions of a message by the thread of a client that
                \* has gone whose records are kept; the thread repeats for ever
  Faults        \* which of "drop", "open", "thread" can happen

ASSUME YBAssumption ==
  /\ NoPhone \notin Phones /\ NoThread \notin Clients
  /\ Fill \notin Phones /\ {End, Fill} \cap Texts = {} /\ End # Fill
  /\ EndTyped \in BOOLEAN
  /\ SockBuf \in Nat \ {0} /\ MaxPosts \in Nat /\ MaxRepeats \in Nat
  /\ Faults \subseteq {"drop", "open", "thread"}

VARIABLES
  file,         \* messages.txt
  owner,        \* the thread that owns fMutex
  pc,           \* pc[c]: where the Payload thread of connection c is
  cTel,         \* cTel[c]: the phone the thread works for
  slot,         \* slot[c]: the stack slots of cmd, tel and message
  isOpen,       \* isOpen[c]: os.is_open() or is.is_open()
  pos,          \* pos[c]: the record the thread's ifstream reads next
  sent,         \* sent[c]: positions of the records sent for the last view
  repeats,      \* repeats[c]: how often c's thread posted its last message again,
                \* counted up to MaxRepeats + 1
  failed,       \* history: slots where a receive of the thread failed
  c2s, s2c,     \* c2s[c], s2c[c]: frames in flight in the two directions
  cli,          \* cli[c]: where the client program is
  shown,        \* shown[c]: texts the client printed for its last view
  typed         \* typed[c]: the messages the users of slot c made up

serverVars == <<owner, pc, cTel, slot, isOpen, pos, sent, repeats, failed>>
clientVars == <<cli, shown, typed>>
vars == <<file, serverVars, c2s, s2c, clientVars>>

Messages == [tel : Phones, text : Texts \cup {End}]
Records  == [tel : Phones \cup {Fill}, text : Texts \cup {End, Fill}]
Commands == {"post", "view", "quit"}  \* "quit" is every int but 1 and 2
ThreadPCs == {"none", "hello", "cmd", "tel", "text", "wait", "append", "scan", "unlock"}
Critical == {"append", "scan", "unlock"}
ClientPCs == {"off", "menu", "tel", "text", "view", "wedged"}

FreshSlot == [cmd |-> "quit", tel |-> Fill, text |-> Fill]

Init ==
  /\ file = <<>>
  /\ owner = NoThread
  /\ pc = [c \in Clients |-> "none"]
  /\ cTel = [c \in Clients |-> NoPhone]
  /\ slot = [c \in Clients |-> FreshSlot]
  /\ isOpen = [c \in Clients |-> FALSE]
  /\ pos = [c \in Clients |-> 1]
  /\ sent = [c \in Clients |-> {}]
  /\ repeats = [c \in Clients |-> 0]
  /\ failed = {}
  /\ c2s = [c \in Clients |-> <<>>]
  /\ s2c = [c \in Clients |-> <<>>]
  /\ cli = [c \in Clients |-> "off"]
  /\ shown = [c \in Clients |-> <<>>]
  /\ typed = [c \in Clients |-> <<>>]

Goto(c, from, to) == pc[c] = from /\ pc' = [pc EXCEPT ![c] = to]

\* Mutant of Send: it never blocks.
SendUnbounded(c, frame) ==
  s2c' = IF cli[c] = "off" THEN s2c ELSE [s2c EXCEPT ![c] = Append(@, frame)]

\* send: blocks while the peer is there and its buffer is full; the result is
\* ignored, so a frame for a peer that has gone is silently lost.
Send(c, frame) ==
  IF cli[c] = "off"
    THEN UNCHANGED s2c
    ELSE /\ Len(s2c[c]) < SockBuf
         /\ s2c' = [s2c EXCEPT ![c] = Append(@, frame)]

\* recv into a slot: the next frame, or, when the client has gone, nothing; the
\* result is ignored, and the slot then keeps what it held.
Received(c) ==
  /\ c2s[c] # <<>>
  /\ c2s' = [c2s EXCEPT ![c] = Tail(@)]
  /\ UNCHANGED failed
NotReceived(c) ==
  /\ c2s[c] = <<>> /\ cli[c] = "off"
  /\ failed' = failed \cup {c}
  /\ UNCHANGED c2s

\* The client process of c starts; nothing was printed yet.
StartClient(c) ==
  /\ cli[c] = "off" /\ pc[c] = "none"
  /\ cli' = [cli EXCEPT ![c] = "menu"]
  /\ s2c' = [s2c EXCEPT ![c] = <<>>]
  /\ shown' = [shown EXCEPT ![c] = <<>>]

-----------------------------------------------------------------------------
(* The server's accept loop and the Payload threads.                       *)

\* connect, accept and CreateThread; the client sends the phone it was given.
Connect(c, p) ==
  /\ StartClient(c)
  /\ Goto(c, "none", "hello")
  /\ c2s' = [c2s EXCEPT ![c] = <<p>>]
  /\ cTel' = [cTel EXCEPT ![c] = NoPhone]
  /\ slot' = [slot EXCEPT ![c] = FreshSlot]
  /\ sent' = [sent EXCEPT ![c] = {}]
  /\ UNCHANGED <<file, owner, isOpen, pos, repeats, failed, typed>>

\* CreateThread fails: the server closes the socket it has just accepted.
Refuse(c) ==
  /\ "thread" \in Faults
  /\ StartClient(c)
  /\ UNCHANGED <<file, serverVars, c2s, typed>>

\* recv of the caller's phone.
Hello(c) ==
  /\ Goto(c, "hello", "cmd")
  /\ \/ Received(c) /\ cTel' = [cTel EXCEPT ![c] = Head(c2s[c])]
     \/ NotReceived(c) /\ UNCHANGED cTel
  /\ UNCHANGED <<file, owner, slot, isOpen, pos, sent, repeats, s2c, clientVars>>

\* Where the switch over cmd leads.
Case(command) ==
  CASE command = "post" -> "tel"
    [] command = "view" -> "wait"
    [] OTHER -> "none"

\* The thread repeats a message more often than the bound keeps apart.
Tired(c) == repeats[c] > MaxRepeats

\* recv of a command; when it fails, the last command is executed again, and
\* again, for ever.  The slots are gone when the thread ends.
RecvCmd(c) ==
  /\ \E command \in Commands :
       /\ \/ Received(c) /\ command = Head(c2s[c]) /\ UNCHANGED repeats
          \/ /\ NotReceived(c) /\ command = slot[c].cmd
             /\ repeats' = [repeats EXCEPT ![c] = IF command = "post" /\ ~Tired(c) THEN @ + 1 ELSE @]
       /\ Goto(c, "cmd", Case(command))
       /\ slot' = [slot EXCEPT ![c] = IF Case(command) = "none" THEN FreshSlot
                                                              ELSE [@ EXCEPT !.cmd = command]]
  /\ UNCHANGED <<file, owner, cTel, isOpen, pos, sent, s2c, clientVars>>

\* Mutant of RecvTel: the message is delivered to the caller itself.
RecvTelOwn(c) ==
  /\ Goto(c, "tel", "text")
  /\ Received(c) \/ NotReceived(c)
  /\ slot' = [slot EXCEPT ![c].tel = cTel[c]]
  /\ UNCHANGED <<file, owner, cTel, isOpen, pos, sent, repeats, s2c, clientVars>>

\* recv of the addressee of a message.
RecvTel(c) ==
  /\ Goto(c, "tel", "text")
  /\ \/ Received(c) /\ slot' = [slot EXCEPT ![c].tel = Head(c2s[c])]
     \/ NotReceived(c) /\ UNCHANGED slot
  /\ UNCHANGED <<file, owner, cTel, isOpen, pos, sent, repeats, s2c, clientVars>>

\* recv of the text of a message.
RecvText(c) ==
  /\ Goto(c, "text", "wait")
  /\ \/ Received(c) /\ slot' = [slot EXCEPT ![c].text = Head(c2s[c])]
     \/ NotReceived(c) /\ UNCHANGED slot
  /\ UNCHANGED <<file, owner, cTel, isOpen, pos, sent, repeats, s2c, clientVars>>

\* Mutant of Acquire: the mutex is not waited for.
AcquireUnlocked(c) ==
  /\ Goto(c, "wait", IF slot[c].cmd = "post" THEN "append" ELSE "scan")
  /\ owner' = c
  /\ isOpen' = [isOpen EXCEPT ![c] = TRUE]
  /\ pos' = [pos EXCEPT ![c] = 1]
  /\ sent' = [sent EXCEPT ![c] = IF slot[c].cmd = "view" THEN {} ELSE @]
  /\ UNCHANGED <<file, cTel, slot, repeats, failed, c2s, s2c, clientVars>>

\* WaitForSingleObject returns WAIT_OBJECT_0; messages.txt is opened.
Acquire(c) ==
  /\ owner = NoThread
  /\ Goto(c, "wait", IF slot[c].cmd = "post" THEN "append" ELSE "scan")
  /\ owner' = c
  /\ \E opens \in {TRUE} \cup (IF "open" \in Faults THEN {FALSE} ELSE {}) :
       isOpen' = [isOpen EXCEPT ![c] = opens]
  /\ pos' = [pos EXCEPT ![c] = 1]
  /\ sent' = [sent EXCEPT ![c] = IF slot[c].cmd = "view" THEN {} ELSE @]
  /\ UNCHANGED <<file, cTel, slot, repeats, failed, c2s, s2c, clientVars>>

\* os << tel << ' ' << message << '\n', when the file is open; the record of a
\* repetition beyond the bound is left out.
AppendRecord(c) ==
  /\ Goto(c, "append", "unlock")
  /\ file' = IF isOpen[c] /\ ~Tired(c)
               THEN Append(file, [tel |-> slot[c].tel, text |-> slot[c].text])
               ELSE file
  /\ UNCHANGED <<owner, cTel, slot, isOpen, pos, sent, repeats, failed, c2s, s2c, clientVars>>

\* A record that was written from an unterminated slot is too long for inMsg.
Unreadable(r) == r.text = Fill

\* Mutant of ReadRecord: every record is sent, whoever it is for.
ReadRecordAll(c) ==
  /\ pc[c] = "scan" /\ isOpen[c]
  /\ pos[c] <= Len(file) /\ ~Unreadable(file[pos[c]])
  /\ pos' = [pos EXCEPT ![c] = @ + 1]
  /\ sent' = [sent EXCEPT ![c] = @ \cup {pos[c]}]
  /\ Send(c, file[pos[c]].text)
  /\ UNCHANGED <<file, owner, pc, cTel, slot, isOpen, repeats, failed, c2s, clientVars>>

\* One round of the read loop: the text goes out when tel == cTel.
ReadRecord(c) ==
  /\ pc[c] = "scan" /\ isOpen[c]
  /\ pos[c] <= Len(file) /\ ~Unreadable(file[pos[c]])
  /\ pos' = [pos EXCEPT ![c] = @ + 1]
  /\ IF file[pos[c]].tel = cTel[c]
       THEN /\ Send(c, file[pos[c]].text)
            /\ sent' = [sent EXCEPT ![c] = @ \cup {pos[c]}]
       ELSE UNCHANGED <<s2c, sent>>
  /\ UNCHANGED <<file, owner, pc, cTel, slot, isOpen, repeats, failed, c2s, clientVars>>

AtEnd(c) == isOpen[c] /\ pos[c] <= Len(file) => Unreadable(file[pos[c]])

\* Mutant of EndOfFile: without the flag quit, "!end" is sent a second time.
EndOfFileTwice(c) ==
  /\ Goto(c, "scan", "unlock")
  /\ AtEnd(c)
  /\ s2c' = IF cli[c] = "off" THEN s2c ELSE [s2c EXCEPT ![c] = @ \o <<End, End>>]
  /\ UNCHANGED <<file, owner, cTel, slot, isOpen, pos, sent, repeats, failed, c2s, clientVars>>

\* Mutant of EndOfFile: no "!end" after an empty answer.
EndOfFileSilent(c) ==
  /\ Goto(c, "scan", "unlock")
  /\ AtEnd(c)
  /\ IF sent[c] # {} THEN Send(c, End) ELSE UNCHANGED s2c
  /\ UNCHANGED <<file, owner, cTel, slot, isOpen, pos, sent, repeats, failed, c2s, clientVars>>

\* The end of the file, a record that cannot be read or a file that is not
\* open: "!end" is sent.
EndOfFile(c) ==
  /\ Goto(c, "scan", "unlock")
  /\ AtEnd(c)
  /\ Send(c, End)
  /\ UNCHANGED <<file, owner, cTel, slot, isOpen, pos, sent, repeats, failed, c2s, clientVars>>

\* Mutant of Unlock: the branch of a post leaves without ReleaseMutex.
UnlockViewing(c) ==
  /\ Goto(c, "unlock", "cmd")
  /\ owner' = IF slot[c].cmd = "view" THEN NoThread ELSE owner
  /\ isOpen' = [isOpen EXCEPT ![c] = FALSE]
  /\ pos' = [pos EXCEPT ![c] = 1]
  /\ UNCHANGED <<file, cTel, slot, sent, repeats, failed, c2s, s2c, clientVars>>

\* close and ReleaseMutex; is and os go out of scope.
Unlock(c) ==
  /\ Goto(c, "unlock", "cmd")
  /\ owner' = NoThread
  /\ isOpen' = [isOpen EXCEPT ![c] = FALSE]
  /\ pos' = [pos EXCEPT ![c] = 1]
  /\ UNCHANGED <<file, cTel, slot, sent, repeats, failed, c2s, s2c, clientVars>>

-----------------------------------------------------------------------------
(* The client program.                                                     *)

\* send: fails without effect when the server has closed the connection.
Put(c, frame) ==
  c2s' = IF pc[c] = "none" THEN c2s ELSE [c2s EXCEPT ![c] = Append(@, frame)]

\* Menu choice 1; the user has a message in mind.
ChoosePost(c, p, t) ==
  /\ cli[c] = "menu"
  /\ Len(typed[c]) < MaxPosts
  /\ cli' = [cli EXCEPT ![c] = "tel"]
  /\ typed' = [typed EXCEPT ![c] = Append(@, [tel |-> p, text |-> t])]
  /\ Put(c, "post")
  /\ UNCHANGED <<file, serverVars, s2c, shown>>

Composed(c) == typed[c][Len(typed[c])]

\* The addressee is typed and sent.
TypeTel(c) ==
  /\ cli[c] = "tel"
  /\ cli' = [cli EXCEPT ![c] = "text"]
  /\ Put(c, Composed(c).tel)
  /\ UNCHANGED <<file, serverVars, s2c, shown, typed>>

\* The text is typed and sent.
TypeText(c) ==
  /\ cli[c] = "text"
  /\ cli' = [cli EXCEPT ![c] = "menu"]
  /\ Put(c, Composed(c).text)
  /\ UNCHANGED <<file, serverVars, s2c, shown, typed>>

\* Menu choice 2: send the command, then receive until "!end".
ChooseView(c) ==
  /\ cli[c] = "menu"
  /\ cli' = [cli EXCEPT ![c] = "view"]
  /\ shown' = [shown EXCEPT ![c] = <<>>]
  /\ Put(c, "view")
  /\ UNCHANGED <<file, serverVars, s2c, typed>>

\* Menu choice 0, or a number that is no choice: send it and close.
Leave(c) ==
  /\ cli[c] = "menu"
  /\ cli' = [cli EXCEPT ![c] = "off"]
  /\ Put(c, "quit")
  /\ s2c' = [s2c EXCEPT ![c] = <<>>]
  /\ UNCHANGED <<file, serverVars, shown, typed>>

\* What is typed is no number: cin fails, is never cleared, the menu spins.
Mistype(c) ==
  /\ cli[c] = "menu"
  /\ cli' = [cli EXCEPT ![c] = "wedged"]
  /\ UNCHANGED <<file, serverVars, c2s, s2c, shown, typed>>

\* One round of the receive loop: a frame that reads "!end" leads back to the
\* menu, any other is printed.
Receive(c) ==
  /\ cli[c] = "view" /\ s2c[c] # <<>>
  /\ s2c' = [s2c EXCEPT ![c] = Tail(@)]
  /\ IF Head(s2c[c]) = End
       THEN cli' = [cli EXCEPT ![c] = "menu"] /\ UNCHANGED shown
       ELSE shown' = [shown EXCEPT ![c] = Append(@, Head(s2c[c]))] /\ UNCHANGED cli
  /\ UNCHANGED <<file, serverVars, c2s, typed>>

\* The client process is closed without "quit": between two messages, or, when
\* the connection is dropped, anywhere and with the loss of unread frames.
Kill(c) ==
  /\ cli[c] # "off"
  /\ cli' = [cli EXCEPT ![c] = "off"]
  /\ \/ cli[c] \notin {"tel", "text"} /\ UNCHANGED c2s
     \/ /\ "drop" \in Faults
        /\ \E n \in 0 .. Len(c2s[c]) : c2s' = [c2s EXCEPT ![c] = SubSeq(@, 1, n)]
  /\ s2c' = [s2c EXCEPT ![c] = <<>>]
  /\ UNCHANGED <<file, serverVars, shown, typed>>

-----------------------------------------------------------------------------
\* What the thread of c does without waiting for the mutex.
ThreadStep(c) ==
  \/ Hello(c) \/ RecvCmd(c) \/ RecvTel(c) \/ RecvText(c)
  \/ AppendRecord(c) \/ ReadRecord(c) \/ EndOfFile(c) \/ Unlock(c)

\* The texts a user may type next: one that was never typed, or "!end".
Used(t) == \E c \in Clients : \E k \in 1 .. Len(typed[c]) : typed[c][k].text = t
NextTexts == {t \in Texts : ~Used(t)} \cup (IF EndTyped THEN {End} ELSE {})

ClientStep(c) ==
  \/ \E p \in Phones : Connect(c, p)
  \/ Refuse(c)
  \/ \E p \in Phones : \E t \in NextTexts : ChoosePost(c, p, t)
  \/ TypeTel(c) \/ TypeText(c) \/ ChooseView(c)
  \/ Leave(c) \/ Mistype(c) \/ Receive(c) \/ Kill(c)

Next == \E c \in Clients : Acquire(c) \/ ThreadStep(c) \/ ClientStep(c)

Spec == Init /\ [][Next]_vars

\* Threads run, users finish the message they are typing, clients that wait for
\* an answer read it, and the kernel does not pass over a thread that waits
\* for the mutex for ever.
Fairness ==
  \A c \in Clients :
    /\ WF_vars(ThreadStep(c))
    /\ SF_vars(Acquire(c))
    /\ WF_vars(TypeTel(c) \/ TypeText(c))
    /\ WF_vars(Receive(c))

FairSpec == Spec /\ Fairness

-----------------------------------------------------------------------------
(* Properties.                                                             *)

\* Every variable keeps its type; above all, no thread ever has more frames
\* under way than the connection buffers.
TypeOK ==
  /\ file \in Seq(Records)
  /\ owner \in Clients \cup {NoThread}
  /\ pc \in [Clients -> ThreadPCs]
  /\ cTel \in [Clients -> Phones \cup {NoPhone}]
  /\ slot \in [Clients -> [cmd : Commands, tel : Phones \cup {Fill}, text : Texts \cup {End, Fill}]]
  /\ isOpen \in [Clients -> BOOLEAN]
  /\ pos \in [Clients -> Nat]
  /\ sent \in [Clients -> SUBSET Nat]
  /\ repeats \in [Clients -> 0 .. MaxRepeats + 1]
  /\ failed \subseteq Clients
  /\ c2s \in [Clients -> Seq(Phones \cup Commands \cup Texts \cup {End})]
  /\ s2c \in [Clients -> Seq(Texts \cup {End})]
  /\ cli \in [Clients -> ClientPCs]
  /\ shown \in [Clients -> Seq(Texts \cup {End})]
  /\ typed \in [Clients -> Seq(Messages)]
  /\ \A c \in Clients : Len(s2c[c]) <= SockBuf

\* messages.txt is only touched by the thread that owns fMutex, and no thread
\* ends while it owns it: WaitForSingleObject never returns WAIT_ABANDONED.
MutexHeld == \A c \in Clients : pc[c] \in Critical <=> owner = c

\* A client back at its menu has read every frame of the last answer and
\* printed the texts of exactly the records that were sent, in file order: the
\* next view starts in step.
InSync ==
  \A c \in Clients :
    cli[c] \in {"menu", "tel", "text"} /\ pc[c] # "none" =>
      /\ s2c[c] = <<>>
      /\ Len(shown[c]) = Cardinality(sent[c])
      /\ \A i \in sent[c] : shown[c][Cardinality({j \in sent[c] : j <= i})] = file[i].text

\* When a client prints "no incoming messages!", it was sent none.
NothingIncoming ==
  [][\A c \in Clients :
       cli[c] = "view" /\ cli'[c] = "menu" /\ shown'[c] = <<>> => sent[c] = {}]_vars

\* Record i of the file is number k of the messages typed at slot c.
IsPost(i, c, k) == k <= Len(typed[c]) /\ file[i].text = typed[c][k].text

\* As long as no receive of its thread fails, the messages of a client are in
\* the file at most once, in the order they were typed, each for its addressee.
\* (Once the client has gone, its thread appends the last one again and again.)
PostedOnce ==
  \A c \in Clients \ failed :
    /\ \A i, j \in 1 .. Len(file), k, l \in 1 .. MaxPosts :
         IsPost(i, c, k) /\ IsPost(j, c, l) /\ i < j => k < l
    /\ \A i \in 1 .. Len(file), k \in 1 .. MaxPosts :
         IsPost(i, c, k) => file[i] = typed[c][k]

\* A view in which the file could be opened answers with all the mail for the
\* caller that precedes the first record that cannot be read.
ViewComplete ==
  \A c \in Clients : pc[c] = "unlock" /\ slot[c].cmd = "view" /\ isOpen[c] =>
    sent[c] = {i \in 1 .. Len(file) : /\ file[i].tel = cTel[c]
                                      /\ \A j \in 1 .. i : ~Unreadable(file[j])}

\* The mail store: records under their position in the file.  A thread has a
\* command to carry out unless it repeats a message beyond the bound.
Box == {<<i, file[i]>> : i \in 1 .. Len(file)}
Working == {"tel", "text", "wait", "append", "scan"}
Busy(c) == pc[c] \in Working /\ ~Tired(c)
Asking == [c \in Clients |-> IF Busy(c) THEN slot[c].cmd ELSE "none"]
Answer == [c \in Clients |-> IF Busy(c) \/ slot[c].cmd # "view"
                               THEN {} ELSE {<<i, file[i]>> : i \in sent[c]}]
IsTo(r, p) == r[2].tel = p

Store == INSTANCE Mailbox
  WITH Records <- Nat \X Records, IsFor <- IsTo, IsFrom <- IsTo,
       box <- Box, who <- cTel, asked <- Asking, answer <- Answer

\* Posts and views of any number of threads are atomic operations of one mail
\* store: a view lists all the mail for its caller, whole.
Atomic == Store!MailSpec

\* A client that waits for its mail gets all of it, whatever the others do.
AnswerArrives == \A c \in Clients : cli[c] = "view" ~> cli[c] # "view"

Typed(c, k) == Len(typed[c]) = k /\ pc[c] # "none" /\ cli[c] \notin {"tel", "text"}
Stored(c, k) == Len(typed[c]) >= k /\ \E i \in 1 .. Len(file) : file[i] = typed[c][k]

\* Every message a user has finished typing gets into the file.
Delivered ==
  \A c \in Clients : \A k \in 1 .. MaxPosts : Typed(c, k) ~> Stored(c, k)
=============================================================================
