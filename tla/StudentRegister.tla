--------------------------- MODULE StudentRegister ---------------------------
(***************************************************************************)
(* The CN4 student register: a server that forks a child for each          *)
(* connection, all children sharing the file "info" without any lock, and  *)
(* a Qt window that views, adds and deletes students.                      *)
(*                                                                         *)
(* All rows of the file take the same number of bytes, each is typed once. *)
(* The fields of one add travel as one frame: between them the child does  *)
(* nothing but receive.  A frame is received whole.                        *)
(***************************************************************************)
EXTENDS Naturals, Sequences, SequencesExt

CONSTANTS
  Clients,      \* connection slots: a window and the child that serves it
  NoClient,     \* the parent has no connection in hand
  Rows,         \* the students users type
  Info,         \* the students in the file when the server starts
  Empty,        \* the fields of an add with an empty name or surname
  EmptyTyped,   \* whether users leave a name or a surname empty
  SockBuf,      \* frames a connection buffers before a window's send blocks
  MaxNumber,    \* bound: the largest number a user asks to delete
  MaxDeletes,   \* bound: delete commands sent
  Faults        \* which of "fork", "accept", "open", "child", "window" can happen

ASSUME RegisterAssumption ==
  /\ NoClient \notin Clients
  /\ Info \in Seq(ToSet(Info))
  /\ Empty \notin Rows \cup ToSet(Info)
  /\ EmptyTyped \in BOOLEAN
  /\ SockBuf \in Nat /\ MaxDeletes \in Nat /\ MaxNumber \in Nat
  /\ Faults \subseteq {"fork", "accept", "open", "child", "window"}

VARIABLES
  file,         \* the rows of the file "info"
  parent,       \* where the main loop of the parent is; "dead" when it has ended
  taken,        \* the connection in the parent's clientSocket
  pending,      \* SIGCHLD is pending
  reaping,      \* the parent is inside reaper
  pc,           \* pc[c]: where the child of connection c is
  vec,          \* vec[c]: the child's rows
  c2s, s2c,     \* c2s[c], s2c[c]: frames in flight in the two directions
  gui,          \* gui[c]: "locked": not connected; "ready"; "viewing": in viewStudents
  added,        \* rows reported as "successfully added"
  deletes,      \* delete commands sent
  disturbed     \* history: two children used the file at once, or something failed

parentVars == <<parent, taken>>
signalVars == <<pending, reaping>>
guiVars == <<gui, added, deletes>>
vars == <<file, parentVars, signalVars, pc, vec, c2s, s2c, guiVars, disturbed>>

ChildPCs == {"none", "backlog", "orphan", "command", "fields", "number", "open", "flush", "zombie"}
\* The commands: "enum {DISCONNECT, VIEW, ADD, DELETE}".
DISCONNECT == 0
VIEW == 1
ADD == 2
DELETE == 3

Running == {"command", "fields", "number", "open", "flush"}
Writing == {"open", "flush"}

Init ==
  /\ file = Info
  /\ parent = "accept" /\ taken = NoClient
  /\ pending = FALSE /\ reaping = FALSE
  /\ pc = [c \in Clients |-> "none"]
  /\ vec = [c \in Clients |-> <<>>]
  /\ c2s = [c \in Clients |-> <<>>]
  /\ s2c = [c \in Clients |-> <<>>]
  /\ gui = [c \in Clients |-> "locked"]
  /\ added = {} /\ deletes = 0
  /\ disturbed = FALSE

Goto(c, from, to) == pc[c] = from /\ pc' = [pc EXCEPT ![c] = to]

-----------------------------------------------------------------------------
(* The parent process.                                                     *)

\* accept returns a connection of the backlog.
Accept(c) ==
  /\ parent = "accept" /\ ~reaping
  /\ pc[c] = "backlog"
  /\ parent' = "fork" /\ taken' = c
  /\ UNCHANGED <<file, signalVars, pc, vec, c2s, s2c, guiVars, disturbed>>

\* fork: the child starts with the parent's vec, which is always empty.
Fork(c) ==
  /\ parent = "fork" /\ ~reaping /\ taken = c
  /\ Goto(c, "backlog", "command")
  /\ vec' = [vec EXCEPT ![c] = <<>>]
  /\ parent' = "close"
  /\ UNCHANGED <<file, taken, signalVars, c2s, s2c, guiVars, disturbed>>

\* fork returns -1: the connection is neither served nor closed.
ForkFails(c) ==
  /\ "fork" \in Faults
  /\ parent = "fork" /\ ~reaping /\ taken = c
  /\ Goto(c, "backlog", "orphan")
  /\ parent' = "accept" /\ taken' = NoClient
  /\ UNCHANGED <<file, signalVars, vec, c2s, s2c, guiVars, disturbed>>

\* Mutant of CloseInParent: the parent keeps its copy of the socket.
CloseInParentNever ==
  /\ parent = "close" /\ ~reaping
  /\ parent' = "accept" /\ taken' = taken
  /\ UNCHANGED <<file, signalVars, pc, vec, c2s, s2c, guiVars, disturbed>>

\* The parent closes its copy of the connected socket.
CloseInParent ==
  /\ parent = "close" /\ ~reaping
  /\ parent' = "accept" /\ taken' = NoClient
  /\ UNCHANGED <<file, signalVars, pc, vec, c2s, s2c, guiVars, disturbed>>

Disturb(condition) == disturbed' = (disturbed \/ condition)

\* accept fails and the parent exits: connections without a child are reset,
\* and children that have ended or will end are reaped by the system.
AcceptFails ==
  /\ "accept" \in Faults
  /\ parent = "accept" /\ ~reaping
  /\ parent' = "dead"
  /\ pending' = FALSE
  /\ pc' = [c \in Clients |-> IF pc[c] \in Running THEN pc[c] ELSE "none"]
  /\ c2s' = [c \in Clients |-> IF pc[c] \in Running THEN c2s[c] ELSE <<>>]
  /\ Disturb(TRUE)
  /\ UNCHANGED <<file, taken, reaping, vec, s2c, guiVars>>

\* SIGCHLD is delivered, between any two steps of the main loop.
SigChld ==
  /\ pending /\ ~reaping
  /\ pending' = FALSE /\ reaping' = TRUE
  /\ UNCHANGED <<file, parentVars, pc, vec, c2s, s2c, guiVars, disturbed>>

\* Mutant of Reap: waitpid is called once (if for while).
ReapOnce(c) ==
  /\ reaping /\ reaping' = FALSE
  /\ Goto(c, "zombie", "none")
  /\ UNCHANGED <<file, parentVars, pending, vec, c2s, s2c, guiVars, disturbed>>

\* waitpid returns an ended child.
Reap(c) ==
  /\ reaping
  /\ Goto(c, "zombie", "none")
  /\ UNCHANGED <<file, parentVars, signalVars, vec, c2s, s2c, guiVars, disturbed>>

\* waitpid finds no ended child.
ReaperReturns ==
  /\ reaping
  /\ \A c \in Clients : pc[c] # "zombie"
  /\ reaping' = FALSE
  /\ UNCHANGED <<file, parentVars, pending, pc, vec, c2s, s2c, guiVars, disturbed>>

-----------------------------------------------------------------------------
(* The children.                                                           *)

\* procClient returns or the child is killed: its socket is closed, and the
\* parent is told.  Signals of one kind do not queue.
Exit(c) ==
  /\ pc' = [pc EXCEPT ![c] = IF parent = "dead" THEN "none" ELSE "zombie"]
  /\ pending' = (parent # "dead")
  /\ c2s' = [c2s EXCEPT ![c] = <<>>]
  /\ UNCHANGED <<file, parentVars, reaping, vec, guiVars>>

Others(c, pcs) == \E d \in Clients \ {c} : pc[d] \in pcs

\* readDataFromFile: what is read, or, when the file does not open, what was
\* there before.
ReadData(c) == {file} \cup (IF "open" \in Faults THEN {vec[c]} ELSE {})

Received(c, frame) ==
  /\ c2s[c] # <<>> /\ frame = Head(c2s[c])
  /\ c2s' = [c2s EXCEPT ![c] = Tail(@)]

\* Mutant of View: the reply is sent twice.
ViewTwice(c) ==
  /\ Goto(c, "command", "command")
  /\ Received(c, VIEW)
  /\ vec' = [vec EXCEPT ![c] = file]
  /\ Disturb(Others(c, Writing))
  /\ s2c' = [s2c EXCEPT ![c] = IF gui[c] = "viewing" THEN @ \o <<file, file>> ELSE @]
  /\ UNCHANGED <<file, parentVars, signalVars, guiVars>>

\* case 1: read the file and send all rows.  To a window that has gone they
\* are lost.
View(c) ==
  /\ Goto(c, "command", "command")
  /\ Received(c, VIEW)
  /\ \E rows \in ReadData(c) :
       /\ vec' = [vec EXCEPT ![c] = rows]
       /\ Disturb(rows # file \/ Others(c, Writing))
       /\ s2c' = [s2c EXCEPT ![c] = IF gui[c] = "viewing" THEN Append(@, rows) ELSE @]
  /\ UNCHANGED <<file, parentVars, signalVars, guiVars>>

\* case 1, when the window has gone: the second send fails or raises SIGPIPE.
ViewFails(c) ==
  /\ pc[c] = "command" /\ gui[c] # "viewing"
  /\ c2s[c] # <<>> /\ Head(c2s[c]) = VIEW
  /\ Exit(c)
  /\ UNCHANGED <<s2c, disturbed>>

\* case 2: the command of an add.
RecvAdd(c) ==
  /\ Goto(c, "command", "fields")
  /\ Received(c, ADD)
  /\ UNCHANGED <<file, parentVars, signalVars, vec, s2c, guiVars, disturbed>>

\* Mutant of AddStudent: the child adds to the rows it has in memory.
AddStudentStale(c) ==
  /\ Goto(c, "fields", "open")
  /\ \E row \in Rows :
       /\ Received(c, row)
       /\ vec' = [vec EXCEPT ![c] = Append(@, row)]
       /\ Disturb(Others(c, Writing \cup {"number"}))
  /\ UNCHANGED <<file, parentVars, signalVars, s2c, guiVars>>

\* Mutant of AddStudent: the row is pushed before the file is read.
AddStudentEarly(c) ==
  /\ Goto(c, "fields", "open")
  /\ \E row \in Rows : Received(c, row)
  /\ vec' = [vec EXCEPT ![c] = file]
  /\ Disturb(Others(c, Writing \cup {"number"}))
  /\ UNCHANGED <<file, parentVars, signalVars, s2c, guiVars>>

\* case 2: the fields arrive; the file is read and the row pushed back.
AddStudent(c) ==
  /\ Goto(c, "fields", "open")
  /\ \E row \in Rows, rows \in ReadData(c) :
       /\ Received(c, row)
       /\ vec' = [vec EXCEPT ![c] = Append(rows, row)]
       /\ Disturb(rows # file \/ Others(c, Writing \cup {"number"}))
  /\ UNCHANGED <<file, parentVars, signalVars, s2c, guiVars>>

\* case 2: a field of length 0 reads as a client that has gone.
EmptyField(c) ==
  /\ pc[c] = "fields"
  /\ c2s[c] # <<>> /\ Head(c2s[c]) = Empty
  /\ Exit(c)
  /\ UNCHANGED <<s2c, disturbed>>

\* case 3: the file is read before the number is received.
RecvDelete(c) ==
  /\ Goto(c, "command", "number")
  /\ Received(c, DELETE)
  /\ \E rows \in ReadData(c) :
       /\ vec' = [vec EXCEPT ![c] = rows]
       /\ Disturb(rows # file \/ Others(c, Writing))
  /\ UNCHANGED <<file, parentVars, signalVars, s2c, guiVars>>

\* case 3: the number is received; a row with that number is erased.
DeleteStudent(c) ==
  /\ pc[c] = "number"
  /\ \E number \in 1 .. MaxNumber :
       /\ Received(c, number)
       /\ IF number \in DOMAIN vec[c]
            THEN /\ vec' = [vec EXCEPT ![c] = RemoveAt(@, number)]
                 /\ pc' = [pc EXCEPT ![c] = "open"]
                 /\ Disturb(Others(c, Writing \cup {"number"}))
            ELSE /\ pc' = [pc EXCEPT ![c] = "command"]
                 /\ UNCHANGED <<vec, disturbed>>
  /\ UNCHANGED <<file, parentVars, signalVars, s2c, guiVars>>

\* default: the command of a disconnect ends the child.
Disconnected(c) ==
  /\ pc[c] = "command"
  /\ c2s[c] # <<>> /\ Head(c2s[c]) = DISCONNECT
  /\ Exit(c)
  /\ UNCHANGED <<s2c, disturbed>>

\* recvall returns 0: the window has gone.
HangUp(c) ==
  /\ pc[c] \in {"command", "fields", "number"}
  /\ c2s[c] = <<>> /\ gui[c] = "locked"
  /\ Exit(c)
  /\ UNCHANGED <<s2c, disturbed>>

\* writeDataToFile: opening the file for writing empties it; when it cannot be
\* opened nothing is written.
OpenFile(c) ==
  /\ \/ Goto(c, "open", "flush") /\ file' = <<>> /\ UNCHANGED disturbed
     \/ "open" \in Faults /\ Goto(c, "open", "command") /\ Disturb(TRUE) /\ UNCHANGED file
  /\ UNCHANGED <<parentVars, signalVars, vec, c2s, s2c, guiVars>>

\* close writes the rows from the start of the file; what another child has
\* written beyond their end stays.
FlushFile(c) ==
  /\ Goto(c, "flush", "command")
  /\ file' = vec[c] \o SubSeq(file, Len(vec[c]) + 1, Len(file))
  /\ UNCHANGED <<parentVars, signalVars, vec, c2s, s2c, guiVars, disturbed>>

\* A child dies, wherever it is.
ChildDies(c) ==
  /\ "child" \in Faults
  /\ pc[c] \in Running
  /\ Exit(c)
  /\ Disturb(TRUE)
  /\ UNCHANGED s2c

-----------------------------------------------------------------------------
(* The windows.                                                            *)

\* Every copy of the server's end of the connection is closed.
Gone(c) == pc[c] \in {"none", "zombie"} /\ taken # c

\* Mutant of Put: it never blocks.
PutUnbounded(c, frames) ==
  c2s' = IF pc[c] \in {"none", "zombie"} THEN c2s ELSE [c2s EXCEPT ![c] = @ \o frames]

\* sendAll: blocks when the connection is full; what is sent to a child that
\* has ended is lost.
Put(c, frames) ==
  IF pc[c] \in {"none", "zombie"}
    THEN UNCHANGED c2s
    ELSE /\ Len(c2s[c]) + Len(frames) <= SockBuf
         /\ c2s' = [c2s EXCEPT ![c] = @ \o frames]

\* The connect button of a window that is not connected.
Connect(c) ==
  /\ gui[c] = "locked" /\ parent # "dead"
  /\ Goto(c, "none", "backlog") /\ Gone(c)
  /\ gui' = [gui EXCEPT ![c] = "ready"]
  /\ UNCHANGED <<file, parentVars, signalVars, vec, c2s, s2c, added, deletes, disturbed>>

\* The view button: the command is sent; the window waits.
ViewStudents(c) ==
  /\ gui[c] = "ready"
  /\ gui' = [gui EXCEPT ![c] = "viewing"]
  /\ Put(c, <<VIEW>>)
  /\ UNCHANGED <<file, parentVars, signalVars, pc, vec, s2c, added, deletes, disturbed>>

\* The add button: command and fields are sent, and the window reports
\* "Student successfully added!" without waiting for an answer.
AddStudents(c, row) ==
  /\ gui[c] = "ready"
  /\ Put(c, <<ADD, row>>)
  /\ added' = added \cup {row}
  /\ UNCHANGED <<file, parentVars, signalVars, pc, vec, s2c, gui, deletes, disturbed>>

\* An empty name or surname: sendAll of length 0 returns what its n held, which
\* may read as an error.
AddEmpty(c) ==
  /\ EmptyTyped
  /\ gui[c] = "ready"
  /\ \/ Put(c, <<ADD, Empty>>) /\ UNCHANGED gui
     \/ Put(c, <<ADD, Empty, DISCONNECT>>) /\ gui' = [gui EXCEPT ![c] = "locked"]
  /\ UNCHANGED <<file, parentVars, signalVars, pc, vec, s2c, added, deletes, disturbed>>

\* The delete button.
DeleteStudents(c, number) ==
  /\ gui[c] = "ready"
  /\ deletes < MaxDeletes
  /\ Put(c, <<DELETE, number>>)
  /\ deletes' = deletes + 1
  /\ UNCHANGED <<file, parentVars, signalVars, pc, vec, s2c, gui, added, disturbed>>

\* The reply to a view is received and shown.
ReceiveReply(c) ==
  /\ gui[c] = "viewing" /\ s2c[c] # <<>>
  /\ s2c' = [s2c EXCEPT ![c] = Tail(@)]
  /\ gui' = [gui EXCEPT ![c] = "ready"]
  /\ UNCHANGED <<file, parentVars, signalVars, pc, vec, c2s, added, deletes, disturbed>>

\* The window closes its end: what it has not read is lost.
CloseSocket(c) ==
  /\ gui' = [gui EXCEPT ![c] = "locked"]
  /\ s2c' = [s2c EXCEPT ![c] = <<>>]
  /\ UNCHANGED <<file, parentVars, signalVars, pc, vec, added, deletes, disturbed>>

\* The disconnect button, or the destructor of a connected window.
DisconnectFromServer(c) ==
  /\ gui[c] = "ready"
  /\ Put(c, <<DISCONNECT>>)
  /\ CloseSocket(c)

\* The server's end is closed: recvAll returns 0 and viewStudents disconnects.
ReceiveFails(c) ==
  /\ gui[c] = "viewing" /\ s2c[c] = <<>>
  /\ Gone(c)
  /\ CloseSocket(c)
  /\ UNCHANGED c2s

\* A second send to a connection the server has closed ends the process.
SigPipe(c) ==
  /\ gui[c] = "ready" /\ Gone(c)
  /\ CloseSocket(c)
  /\ UNCHANGED c2s

\* The window's process is killed, perhaps between two sends of one command.
KillWindow(c) ==
  /\ "window" \in Faults
  /\ gui[c] # "locked"
  /\ CloseSocket(c)
  /\ \/ UNCHANGED c2s
     \/ gui[c] = "ready" /\ \E command \in {ADD, DELETE} : Put(c, <<command>>)

-----------------------------------------------------------------------------
ParentStep == CloseInParent \/ \E c \in Clients : Fork(c) \/ ForkFails(c)

ReaperStep == SigChld \/ ReaperReturns \/ \E c \in Clients : Reap(c)

ChildStep(c) ==
  \/ View(c) \/ ViewFails(c) \/ RecvAdd(c) \/ AddStudent(c) \/ EmptyField(c)
  \/ RecvDelete(c) \/ DeleteStudent(c) \/ Disconnected(c) \/ HangUp(c)
  \/ OpenFile(c) \/ FlushFile(c)

WindowStep(c) ==
  \/ Connect(c) \/ ViewStudents(c) \/ AddEmpty(c)
  \/ \E row \in Rows \ added : AddStudents(c, row)
  \/ \E number \in 1 .. MaxNumber : DeleteStudents(c, number)
  \/ ReceiveReply(c) \/ ReceiveFails(c) \/ DisconnectFromServer(c)
  \/ SigPipe(c) \/ KillWindow(c)

Next ==
  \/ ParentStep \/ ReaperStep \/ AcceptFails
  \/ \E c \in Clients : Accept(c) \/ ChildStep(c) \/ ChildDies(c) \/ WindowStep(c)

Spec == Init /\ [][Next]_vars

\* Processes run; signals may interrupt the parent's loop again and again, but
\* not for ever, and its backlog is a queue; a window that waits for a reply
\* reads it.
Fairness ==
  /\ SF_vars(ParentStep) /\ WF_vars(ReaperStep)
  /\ \A c \in Clients :
       /\ SF_vars(Accept(c))
       /\ WF_vars(ChildStep(c))
       /\ WF_vars(ReceiveReply(c) \/ ReceiveFails(c))

FairSpec == Spec /\ Fairness

-----------------------------------------------------------------------------
(* Properties.                                                             *)

Lists == Seq(Rows \cup ToSet(Info))

\* Every variable keeps its type, and no connection holds more than it buffers.
TypeOK ==
  /\ file \in Lists
  /\ parent \in {"accept", "fork", "close", "dead"} /\ taken \in Clients \cup {NoClient}
  /\ pending \in BOOLEAN /\ reaping \in BOOLEAN
  /\ pc \in [Clients -> ChildPCs]
  /\ vec \in [Clients -> Lists]
  /\ \A c \in Clients : Len(c2s[c]) <= SockBuf
  /\ s2c \in [Clients -> Seq(Lists)]
  /\ gui \in [Clients -> {"locked", "ready", "viewing"}]
  /\ added \subseteq Rows /\ deletes \in 0 .. MaxDeletes
  /\ disturbed \in BOOLEAN

\* A window that waits for a reply has exactly one view under way, as the last
\* thing it sent; one that does not wait has no reply to come: whatever went
\* wrong before, the next view shows the answer to itself.
InStep ==
  \A c \in Clients :
    /\ gui[c] # "viewing" => s2c[c] = <<>>
    /\ gui[c] = "viewing" /\ pc[c] \in Running =>
         IF c2s[c] = <<>> THEN Len(s2c[c]) = 1
                          ELSE Last(c2s[c]) = VIEW /\ s2c[c] = <<>>

\* The rows of the register: from the moment a child has decided what to write,
\* the child's.
Current ==
  IF \E c \in Clients : pc[c] \in Writing
    THEN vec[CHOOSE c \in Clients : pc[c] \in Writing] ELSE file

\* A request is under way until its last frame is received.
Requests ==
  [c \in Clients |->
    CASE pc[c] = "fields" -> <<ADD>> \o c2s[c]
      [] pc[c] = "number" -> <<DELETE>> \o c2s[c]
      [] OTHER -> c2s[c]]

Register ==
  INSTANCE Register WITH
    Rows <- Rows \cup ToSet(Info), rows <- Current, requests <- Requests, replies <- s2c

\* Until two children use the file at once, the file is one register: the
\* requests of every window take effect whole, in order, on its latest rows.
Atomic == Register!RegisterSpec

\* Ended children are all reaped, although SIGCHLDs that arrive together are
\* delivered as one.
AllReaped == \A c \in Clients : pc[c] = "zombie" ~> pc[c] # "zombie"

\* A view is answered, or reported as failed; only a fork that fails leaves its
\* window waiting.
Answered ==
  \A c \in Clients : gui[c] = "viewing" ~> gui[c] # "viewing" \/ pc[c] = "orphan"

\* A row on its way to a child gets into the file while nothing disturbs the
\* register, even if the window is closed at once; the exception is an add
\* with an empty field, at which the child ends.
Stored ==
  \A c \in Clients, row \in Rows :
    row \in ToSet(c2s[c]) /\ Empty \notin ToSet(c2s[c]) /\ pc[c] \in Running
      ~> row \in ToSet(file) \/ disturbed

Quiet == \A c \in Clients : c2s[c] = <<>> /\ pc[c] \notin {"fields", "number"} \cup Writing

\* As long as nothing is deleted, every student reported as "successfully
\* added" is in the file once the children are idle.
AddedStays == Quiet /\ deletes = 0 => added \subseteq ToSet(file)
=============================================================================
