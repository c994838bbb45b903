# Specifications of CPPNetworking

CPPNetworking is a collection of small client/server programs in C++: console programs on
Winsock, two Qt clients and one forking server for Linux. This directory holds TLA+ models of all of
them (two of the clients and some error paths in part, see "Not modelled"), TLC instances of the
models, and TLAPS proofs about each.

To check a run, `tlc -config <cfg> <module>`; to check the proofs, `tlapm <module>`.
`PROJECT.json` lists the runs, the lines of source every definition stands for, the hazards of
the code and the mutants that show that each property can fail.

## The system

| part | where | state | operations | what is hard about it |
|---|---|---|---|---|
| LK_4 post server and client | `LK_YB_C++_Network_labs/LK_4_...` | messages.txt, fMutex, one Payload thread per connection; the client's receive buffers | view own mail, delete own sent mail, quit | a purge reads, collects, truncates and rewrites the file; results of send and recv are ignored; answers end with "!end" |
| YB_4 post server and client | `LK_YB_C++_Network_labs/YB_4_...` | the same, and the stack slots messages are received into | send a message, view own mail, quit | three receives of a message can fail separately, the mutex is retaken for ever by threads of clients that have gone, the end mark is in band |
| CN4 student register | `CN4ReadyLinux...` | the file "info"; a vector per child process; SIGCHLD; a Qt window | view, add, delete, connect, disconnect | children share the file without a lock; signals coalesce; the window reports success unasked |
| CN3 travel offers | `CN 3 laba ...` | travelOffers.txt, a global vector, thread handles | ask for offers of at least some cost | every request reloads the vector while others walk over it |
| CN5 mail | `CN5_mail_protocol` | a socket variable shared by reference; the buffers of each thread; no stored mail yet | sign in, check, delete, sign out | all threads use the connection accepted last; the stream arrives in pieces; lengths that do not agree; the last command stays in its buffer |
| CN2 UDP chat | `CN 2 laba ...` | the size received last | swap neighbouring characters of a text | size and text are two datagrams, which are lost, doubled, overtaken or mixed with another client's |
| CN1 quadrants | `CN 1 laba ...` | the connections accepted and not served | name the quadrant of a point | nested accept loops, one connection at a time |
| LK_3, YB_3 | `LK_3_...`, `YB_3_...` | a string buffer per thread and per client, with what earlier strings left in it | length of a string, and a second reply for some | the two sides must agree on when there is a second reply |
| LK_YB_1 | `LK_YB_1_...` | none | lucky tickets, comparison of two words | one connection ever; nothing is checked |

The programs do not talk to each other: each client talks to its own server over one
connection. Inside a server, connections meet in the file, in the mutex, in the vector, in the
parent's signal handler, and (CN5) in one socket variable.

What would make each part correct: the post servers are one mail store (a view shows all the
caller's mail, a purge deletes what it lists and nothing else, a message is stored once and
reaches its addressee), every command leaves client and thread in step, and every command is
answered in the end. The register is one list, every reported add is in it, ended children are
reaped. The travel server answers from a whole document and stays alive. The mail server keeps
sessions apart and its conversations end. The small servers send exactly the replies their
clients wait for, with the contents their algorithms promise.

## Modules

| module | what it is |
|---|---|
| `Mailbox` | abstract: an atomic mail store with post, view and purge, for both post servers |
| `LKPostServer`, `MCLKPostServer` | the LK_4 server and client |
| `LKPostServerProofs` | proofs about LKPostServer |
| `YBPostServer`, `MCYBPostServer` | the YB_4 server and client |
| `YBPostServerProofs` | proofs about YBPostServer |
| `Register` | abstract: one list of rows; the requests of each connection are carried out whole and in order |
| `StudentRegister`, `MCStudentRegister` | the CN4 server and window |
| `StudentRegisterProofs` | proofs about StudentRegister |
| `TravelServer`, `MCTravelServer` | the CN3 server and client |
| `TravelServerProofs` | proofs about TravelServer |
| `Bytes` | ints as bytes on the wire |
| `BytesProofs` | facts about them, for the mail server and the UDP chat |
| `MailServer`, `MCMailServer` | the CN5 server and client, on a stream of bytes |
| `MailServerProofs` | proofs about MailServer |
| `UDPChat` | the CN2 server, its client and the network between them |
| `UDPChatProofs` | proofs about UDPChat |
| `QuadrantServer` | the CN1 server and client |
| `StringServer` | the LK_3 and the YB_3 server and client, which differ in one parameter |
| `FirstLabs` | the LK_1 and the YB_1 server and client, likewise |
| `LabsProofs` | proofs about StringServer, FirstLabs and QuadrantServer |
| `MCLabs` | an instance of MailServer and of each of the four modules above; one of them runs |

In the post servers, the register and the travel server a connection slot `c` is a client
process and the thread or child that serves it, with a queue of frames in each direction
(`c2s[c]`, `s2c[c]`). A frame is what one send call, or a pair of size and contents, puts into
the stream; it is received whole. `pc[c]` says where the serving thread or child is, `cli[c]` or
`gui[c]` where the client is. MailServer is the model in which frames come apart: its queues
hold bytes. The small servers keep the variables of the server, of the network and of the
clients in one record each. Operators named `...Once`, `...Twice`, `...Unlocked` and so on,
marked as mutants, are plausible bugs that the properties must detect; nothing else uses them.

### LKPostServer

`file` is messages.txt as the set of its records (the server only ever deletes; the records keep
their order, which `ReadRecord` respects by reading the smallest one left). `Connect` is connect,
accept and CreateThread, `Refuse` a CreateThread that fails. `RecvTel`, `RecvCmd` and
`RecvCmdFails` are the receives of `Payload`; the last models that a failed receive leaves the
last command in its slot, so that it runs again. `Acquire`, `ReadRecord`, `EndOfFile`, `Truncate`,
`WriteRecord`, `Unlock` are the critical section step by step; `OpenFails`, `TruncateFails` (the
unchecked open for the rewrite: nothing is deleted and what is written goes to a failed stream;
fault "rewrite") and the records in `Malformed` (a text longer than its 1024-byte buffer) are its
error paths. `refused` is a history variable: the threads whose last command met `TruncateFails`.
`Crash` is the end and restart of the server process. The client is `Choose`, `Leave`, `Mistype`,
`Receive`, `ReceiveFails` (its buffers still hold an old "!end") and `Kill`.

### YBPostServer

`file` is a sequence, since records are appended. `slot[c]` holds what the thread's stack slots
`cmd`, `tel` and `message` hold: a failed receive leaves the old contents, or `Fill`, the
unterminated garbage of a new frame, which makes a record that ends every later view
(`Unreadable`). A thread whose client has gone repeats its last command without end; as a repeated
post would make the file grow without end, the records of the first `MaxRepeats` repetitions are
kept and those of later ones left out (`Tired`), while the thread goes on taking the mutex and
opening the file. `repeats` counts up to that bound; `failed`, the threads a receive of which has
failed, and `typed`, the messages users made up, are history variables. Texts are typed once, so that
a record tells which message it came from; with `EndTyped` users also send the text "!end".

### StudentRegister

The parent is `Accept`, `Fork`, `ForkFails`, `CloseInParent`, `AcceptFails`; `SigChld`, `Reap`,
`ReaperReturns` are the signal handler, which interrupts the loop between any two steps and is
not told how many children have ended. A child reads the file (`ReadData`), changes its own
`vec`, empties the file (`OpenFile`) and writes it back (`FlushFile`) in separate steps; a write
that is shorter than what another child has written leaves the rest in place. `RecvDelete`
reads the file before the number of the row has arrived, as the code does. A field of length 0
ends the child (`EmptyField`). In the window, `AddStudents` reports success when it has sent the
fields; `SigPipe` is the death of a window that sends twice to a child that has ended.
`disturbed` is a history variable: it becomes true when a child reads or rewrites the file while
another is between reading and writing it, and when an open, a child or the parent fails.

Rows take the same number of bytes, so that two overlapping writes never tear a row.

`Current` and `Requests` are the refinement mapping to `Register`: from the moment a child has
decided what to write, its vector is the register, before and after it the file is; a request is
under way until its last frame is received.

### TravelServer

`ReadDocument`, `Clear`, `Assign`, `Check`, `At` are a request's use of the global `v`, step by
step; `Throw` is an exception of `at()` or `stod`, which nothing catches, `Corrupt` the undefined
behaviour of two threads in `v` of which one changes it. `raced` is a history variable that
becomes true when such a meeting is possible. `RecvZero` is the loop that takes recv's 0 for
progress. `WaitForThreads` is the final wait with its limit on handles and what follows it: the
sockets are closed and WSACleanup resets every connection, and main stays in `system("pause")` until
`PressKey` ends the process, with threads that may still be running; `WaitForNone` is the wait for no
thread at all, whose `at(0)` throws. A client whose connection is reset is told so (`ReceiveFails`);
one whose server's process has ended may take recv's 0 for progress and spin. `Edit` is somebody who
edits travelOffers.txt. `AnswerRight` does not repeat the loop: it asks for an order-preserving
map from the answer onto the positions of the suitable offers (`Lists`, `Suitable`).
`KeepsLastGood` is about a whole run: from the first document read to its end, `v` holds the
offers of some such document (`Good`).

### MailServer

`serv(k)` is what the reference that thread k was given refers to *now*: the connection accepted
last, or nothing once accept has failed. `Call` is the moment at which a thread enters recv with
that socket; the recv itself stays on it (`on[k]`) although `acceptSocket` may be assigned to in
between. `Receive` takes any piece of what has arrived, `Need` is the length the code asks for (a
password is received with the length of the login), and `Proceed` what follows when all is there:
`Switch` for a command, the next part otherwise. `ReceiveFails` carries out the command that was
left in `bufCommand` (`Stale`), ends the thread in every other place. `ReceiveNothing` is a
recvAll of length 0, which returns an uninitialised n. `MemoryFails` is a length that cannot be
allocated, a password or its terminator written beyond its buffer, or a string without a
terminator read. `Reply` announces a size with a terminator that is not sent. In the client,
`SignIn` is the OK of the dialog, `Click` one of the three buttons, `GotToken` to `GotText` are
the receives of `background.cpp`, each of which blocks the window until all is there, `GotNothing`
is what the JavaScript makes of a failure; the token is sent from freed memory, so only its length
is certain. `Kill` ends the client.

Letters are all alike. They have the value 49, so that a part of a login that is read as a number
is a large one, as with true letters.

### UDPChat

The server takes datagrams in turn for a size (`ReceiveSize`) and for a text (`ReceiveText`); it
replies to the sender of the second. A size that is longer than an int, a text longer than
announced, a size that cannot be allocated (`AllocationFails`) and a port that was closed by a
client (`ReceiveFails`) end it. A text that fits into no datagram (`Oversized`) ends its client
(`SendTextFails`), but its size has been sent. `Lose`, `LoseReply` and `Disorder` are the network.
`mixed` and `lost` are history variables: `mixed` becomes true when what is on its way to the
server may be no row of whole pairs of one sender, `lost` is the set of clients whose reply was
lost. Bytes that were never written are `Unknown`. `Underway` says that a client that waits
without a timeout has something to wait for: its text is on its way, or the reply is.

### QuadrantServer

The connection accepted by the outer loop is hidden by the inner `AcceptSocket`: it is neither
served nor closed (`hidden`). `Accept` is both accepts, `AcceptFails` falls back from the inner
loop to the outer one and from there out of the process; `ClientGone` is the only way on to the
next connection. `Held` is what the server has received of the point of a connection. `Underway` says
that this and what is in flight make up the whole point, until its answer is in flight:
nothing of a point that a killed client has half sent gets into the next client's.
`AnswersRight` compares what is printed with the quadrants as they are numbered, `IsQuadrant`.

### StringServer

A buffer is modelled whole, as it is sent whole: a string, its terminator and what is left of
earlier ones. LK_3 looks for a blank in all of it (`Prefix`, `HasSecond`), YB_3 cuts the middle
out in place (`WithoutMiddle`) and its client receives that into the buffer it sends from
(`GotSecond`). `Announced` is what the client makes of the length alone. `Enter` with `overlong`
is a line that does not fit: cin stays failed. A thread's buffer is not initialised: at first it
holds any member of `Garbage`, possibly without a terminator, and `checkLength` returns -1.
`RecvFails` is a thread whose client has gone: it works on what its buffer holds, for ever, and
that is the garbage when the client died before its first string. `HangsUp` is the string of LK_3
that announces a second reply which is never sent; `Underway` says that it is the only string
whose client waits for nothing.

### FirstLabs

`Recv` answers when the question is whole: one number, or two words. `Spin` is the server whose
client has gone, `ShowAnything` a client whose server has. The digit sums (`FirstSum`,
`SecondSum`) are those of the code, with its divisions; `IsRight` is about the digits (`Digit`), and
`VerdictsRight` says that what the first client prints is right and the others print nothing.
`Underway` puts the question together from what is received and what is in flight.

## Runs

| run | instance | shows |
|---|---|---|
| `lk_atomic` | 2 clients, 2 phones, 2 records, buffer of 1, no faults, fair | `Atomic`: scans and rewrites implement `Mailbox`; `AnswerArrives` although clients hang up in mid-answer |
| `lk_faults` | the same with crash, thread failures, failures to open for reading and for the rewrite, an overlong record | what survives failures: `NoResurrection` (deleted mail never returns), `InSync`, `MutexHeld`, `PurgeSettled` |
| `lk_lost_mail` | 3 records, one overlong | expected violation of `OthersMailSurvives`: a purge loses records of others |
| `yb_atomic` | 2 clients with a phone each, 2 texts, a message of each client to the other, fair | `Atomic`; `AnswerArrives`, `Delivered`, although a client that has gone leaves a thread that never stops taking the mutex |
| `yb_faults` | 2 messages of each client, dropped connections, open and thread failures | `PostedOnce`, `ViewComplete`, `MutexHeld`, `InSync`; every user may call from either phone and write to either |
| `yb_sentinel` | users also send "!end" | expected violation of `NothingIncoming` |
| `register_atomic` | 2 windows, 1 row to add, 1 delete, every fault | `Atomic`: until the register is disturbed, the file is `Register`; `InStep`: no window reads the reply to another view |
| `register_live` | empty fields, fork failures, fair | `AllReaped`, `Answered`, `Stored` |
| `register_lost_add` | 2 rows, no faults | expected violation of `AddedStays` |
| `travel` | 2 clients, 3 documents, accept and thread failures, fair | `AnswerRight`, `KeepsLastGood`, `DiesOnlyRacing`, `Answered` |
| `mail` | 2 connections, ints of 1 byte, tokens of 2, messages of 1, every fault | `NothingShown`: a lone client is never shown a message; `StaysStarved`: a client without its answer when the next is accepted never gets it |
| `labs` | each of the other programs, and the mail server with 1 connection and true sizes, fair | `TypeOK` and `InStep` of the program that runs (for the mail server that thread and client agree where a part of a command begins, for the others their `Underway`); mail: `SignedIn`, `ThreadEnds`; CN1: `Served`; CN2: `OwnText`, `EchoArrives`; LK_3 and YB_3: `RepliesRight`, `RepliesArrive`; LK_1 and YB_1: `VerdictArrives`; CN1, LK_1 and YB_1: `AnswersRight` |

`NothingShown` and `StaysStarved` state what the code does and its users would not want; they are
here because they are the exact extent of the two defects, and the mutants show that the repair
of either breaks them. `InStep` holds as long as a login is as long as its password; the other
lengths are in the run, and `SignedIn` says which of them still get in.

Bounds. Two connections are enough for every interleaving these programs have trouble with: each
hazard is a meeting of two threads, of a thread and its client, or of a child and the parent. Two
records or rows distinguish mine from others', first from last, kept from deleted. A buffer of one
or two frames makes send block while the mutex is held, which a large one would hide. `MaxPosts`,
`MaxDeletes`, `MaxNumber`, `MaxThreads` bound what users do. `MaxRepeats` bounds how many records
a thread adds by repeating the last message of a client that has gone; it bounds neither the
repetitions nor the times the mutex is taken, so the endless loop is in the runs: in `yb_atomic` a
live user's post or view meets the other user's, and later those of a thread that repeats for
ever. That run, whose liveness forbids symmetry, takes the symmetry out by a constraint on its
users (`MCUsers`): which phone is whose, and which text comes first, makes no difference; that
they have two phones and write to each other only is a bound, which `yb_faults` does not have. 64,
the limit of WaitForMultipleObjects, is scaled to `MaxWait`. In `travel` all costs are numbers, as
an offer with another cost ends the server at once. In `mail` the sizes are scaled, as two streams
with true ones have too many ways to come apart; a token is still longer than an int, so that the
end of one receive can be in the middle of a part. In `labs` they are 4, 10 and 11 as in the code,
and a password is as long as its login, longer, shorter, or there is no login. `MaxCommands`
counts commands and failures of accept together. CN1 has three connections: the hidden one, the
served one and the next. An int has two bytes in CN2 (texts are shorter than 256 characters, and a
size can still be taken for a text and the reverse), texts of one, three and four characters: the
first has nothing to swap, the second a single one at its end, the third does not fit into a
datagram of three. What an uninitialised buffer holds is scaled too: no terminator, for YB_3 also
the command to quit or a string of three. Buffers of LK_3 and YB_3 have five places, and a string
is long with two: enough for a string without a blank after one with, whose blank stays in the
buffer. Symmetry is used in runs without liveness properties only. Deadlock is not checked where
the system may really stop: clients may wedge, leave or be left hanging.

Fairness. `WF` of a thread's, child's or client's own steps: the scheduler runs them, and they do
not wait for anything else. `SF` of `Acquire`: Windows hands a mutex to waiting threads in
order, so a thread is not passed over for ever although others keep retaking it; with `WF`
alone a thread that repeats a dead client's command could starve the others. `SF` of `Accept(c)`:
the backlog is a queue; `SF` of the parent's loop: SIGCHLD interrupts it, but not for ever. Users
are not assumed to do anything, except that in YBPostServer they finish a message they are
typing (a client that has sent a command without its message is waiting for its user, not for
the system). In `labs` it is `WF` alone: a thread, a server loop and a client wait in a call that
returns when there is something to receive, and nobody can take that from them. The programs of
`labs` never run side by side (some use the same port), and `lab`, which names the one that
runs, never changes; fairness of a step in the run is therefore fairness in that program.
Nothing is assumed of faults.

## Findings

* `lk_lost_mail`: a purge that meets a text of 1024 characters or more ends its scan and rewrites
  the file with what it has read so far. Mail of others that follows is lost.
* `yb_sentinel`: a message "!end" ends the receiver's view; what follows it is read by the next
  one, and a client can print "no incoming messages!" although it was sent mail.
* `register_lost_add`: of two adds at the same time one is lost, although both windows said
  "Student successfully added!".

Met while modelling and covered by the exceptions of a property: in LK_4 a purge whose file does
not open for the rewrite deletes nothing, while "!end" has been sent and the client prints that
all is deleted (`PurgeSettled`, `refused`); in CN3, with more threads than WaitForMultipleObjects
accepts, main waits for none and WSACleanup resets the connections they serve (`DiesOnlyRacing`);
an add with an empty field ends the child while the window goes on (`Stored`); a fork that fails
leaves its window waiting (`Answered`); a thread of CN3 spins after its client has closed
(`RecvZero`). CN5: as soon as a second client is accepted, both threads serve it; a command is
carried out once more after its client has gone (`ThreadEnds` says that this ends). CN1: the first
client to connect is never served (`Turn`). CN2: one client that leaves while its reply is due
takes the server down for all (`OwnText`). LK_3: a client whose long string has no blank waits for
ever, unless an earlier string has left a blank in the buffer (`Answered`). LK_1 and YB_1: a
server whose client has gone sends for ever (`Spin`). CN3: a client whose server's process has
ended may spin on recv's 0 (`Answered`).

## Proofs

Every theorem holds for all values of the constants that its module's assumption allows: any
number of connections, any sets of phones, rows, documents and texts, any buffers and bounds.
Unless it says otherwise, it holds under all faults. The steps of a proof follow `Next`: one per
actor, below it one per action, below it one per conjunct that the action can disturb. Lemmas
named `...Elsewhere` say what a step of one connection leaves alone in the others.

### LKPostServer

From `LKAssumption`:

* `TypeCorrect`: `[]TypeOK`. Not inductive as it stands: that `cTel` gets a phone and `cmd` a
  command needs `InOrder` (the phone travels in front of the commands, and only a client that
  has gone leaves its thread without one). `TypeInv` is the conjunction.
* `MutualExclusion`: `[]MutexHeld`, inductive given the types.
* `Deleted`: `NoResurrection`. The argument: what a thread holds to be read or written back was in
  the file when it took the mutex (`Copies`), and nobody else has deleted since (`MutexHeld`).
* `StaysInSync`: `[]InSync`. `SyncInv` gives, for each stage of a command, what is in flight:
  before the scan ends no "!end" is on its way and printed plus in-flight records are the sent
  ones; after it, "!end" is the last frame; at the menu nothing is.
* `PurgesSettle`: `PurgeSettled`: that its mail is deleted is told to a client only when it is so,
  while the thread still owns the mutex, or when the file did not open for the rewrite
  (`refused`); crashes, scans that break off and failures to read the file add no other case. When
  a scan has ended a purge has collected none of its caller's records (`SparesNone`). `Purging`
  follows a purge from the client's side: the command is the last in the queue, or the thread is
  at work on it, or it has taken effect, and then all the mail its phone wrote is gone, the thread
  owns the mutex or it is `refused`; nobody else adds to what is in the file or about to be
  written back to it.
* `Implements`: `Spec => Atomic`, under `NoFaults`: the process lives, the file opens for reading
  and for the rewrite, and every record fits its buffer; threads may still fail to be created.
  `ScanInv` says how far a scan has come: sent and collected are what the command selects and
  spares in the part of the file read so far. A view takes effect when its scan ends, a purge when
  the file is truncated; every other step is a stutter, a greeting or the arrival of a command.

### YBPostServer

From `YBAssumption`:

* `TypeCorrect`: `[]TypeOK`. A frame has the type its receiver takes it for only because the
  two sides agree on the place in the protocol: `Parses` says that the frames in flight lead from
  the stage of the thread to the stage of the client. That is kept when either side goes on,
  also when the connection is dropped in mid-message or the thread ends.
* `MutualExclusion`: `[]MutexHeld`.
* `ViewsAreComplete`: `[]ViewComplete`. `ScanInv`: what has been sent are the caller's records in
  front of `pos`, and none of those was unreadable; the file does not grow meanwhile, as the
  owner of the mutex is the one that scans.
* `StaysInSync` and `PostedOnlyOnce`: `[]InSync` and `[]PostedOnce`, under `EndTyped = FALSE`. With
  a message "!end" the first is false, as `yb_sentinel` shows. `NoEnd` says that the mark is in
  no record, no slot and nothing typed; `SyncInv` is as in LK_4, with the texts in the order of
  the file. For the second, a text comes from one message: `TextsInv` says that every text
  in the file was typed, and that no two messages have the same one; `PostedInv` splits what a
  client has typed into what is in the file, what the thread holds and what is in flight, so that
  a thread that has received everything can append the next message once, behind the earlier ones.
* `Implements`: `Spec => Atomic`, under `NoFaults`: the file opens and connections are not dropped;
  threads may still fail to be created, and users may type "!end". `WholeInv` says why a thread
  that repeats a dead client's command still appends whole records only: what is in its slots
  was received, and no client leaves in mid-message. A post takes effect when its record is
  written, a view when it reaches the end of the file.

### StudentRegister

From `RegisterAssumption`:

* `TypeCorrect` and `RepliesInStep`: `[]TypeOK` and `[]InStep`, from one invariant. A window's
  frames form whole commands, cut off at most where the window has died or disconnected, and the
  last is a view exactly when it waits (`Conversation`); there is one reply from the moment the
  child has received the view (`Replies`). `Talk` and `Asked` run the commands along a queue;
  the lemmas about them say what receiving the first frame and sending the next one do.
* `Implements`: `Spec => Atomic`, without a further assumption, since `Atomic` itself is about the
  register until it is disturbed. `AloneInv`: until then, a child between reading and writing is
  alone with the file; before it decides, its vector is the file; while it writes, the file is
  empty. A request takes effect when its last frame has been received.

### TravelServer

From `TravelAssumption`:

* `TypeCorrect`: `[]TypeOK`. The two sides take turns, so that a connection holds one frame at most
  (`TurnsOf`).
* `AnswersAreRight`: `[]AnswerRight`. `AnswerInv`: a thread that walks over `v` finds in it what it
  read (`AnswerOf`), with the answer so far listing the suitable offers passed; while a
  thread changes `v`, no other uses it (`Apart`). Both end with the first race.
* `LastGoodStays`: `Spec => KeepsLastGood`. `GoodInv`: what is in `v`, and what is about to get into
  it, was read to its end. `Held`, the inner formula, is then kept by every step.
* `DiesOnlyInRaces`: `Spec => DiesOnlyRacing`. While a thread serves a client the server takes its
  sockets or its process away only after a race, because of a cost that is no number, or when main
  had more than `MaxWait` threads to wait for. The bounds of `at()` are those of the vector unless
  somebody else has changed it; main waits only after accept has failed, when no thread can be
  added, and what ends it then finds every thread done or the limit passed.

### MailServer

From `MailAssumption`: an int has at most four bytes, and the lengths that are sent fit in one.

* `StarvedForEver`: `StaysStarved`. Bytes reach a client only through `Send`, which goes to
  `serv`, the connection accepted last; a starved client is an earlier one, and `accepted` never
  decreases (`Numbered`). Lemmas give for each actor what its steps leave alone.
* `TypeCorrect`: `[]TypeOK`. A thread's buffer never holds more than the part it receives, and only
  a thread that receives has a pending recv (`ThreadFits`); the client's loop over its messages
  runs only while there are any left. `ValueIs` of BytesProofs says that an int sent as bytes is
  the same int when it is received, which the lengths of the next parts depend on.
* `NeverShown`: `[]NothingShown`, and `KeepsInStep`: `[]InStep`, which the run `labs` checks, from one
  invariant. All that a client sends before it waits for a message is one sequence of bytes,
  `Calls`, and all it may be sent is another, `Replies`. `Conversation` says that there are places r
  and q in them such that what is in the thread's buffer and in flight is `Calls` from r to what
  has been sent, and what is in flight to the client is `Replies` from what it has taken to q;
  `Position` ties r and q to the thread's program counter. How the stream is cut up then does not
  matter: receiving moves bytes from one part of a sequence to the other. `Replies` ends before the
  terminator that the size counts, so a lone client never has the whole of a message. A
  client that has not been accepted has heard nothing (`Unheard`).
* `NothingShown` holds for all lengths of login and password. A shorter password leaves the thread
  waiting for ever. What is left of a longer one is read as commands, each with at least one
  letter in it; such an int is no command (`NoCommand`), so the thread reads on without an answer.

### StringServer

From `StringAssumption`, for both programs, with texts and buffers of any length:

* `TypeCorrect` and `RepliesAreRight`: `[]TypeOK` and `[]RepliesRight`, from one invariant. `Agree`
  says for each place of a client what is under way: its own string, or the length of it and
  possibly the second reply to it, and that the buffer its thread is about to answer from holds
  that string.
* The lemmas under it are about the buffers, as functions on positions. Buffers that
  were received hold a terminator, which is where `Length` ends; the uninitialised one of a thread whose
  client died early may hold none, and nobody is left to read its replies (`LengthIs`,
  `WriteString`); `PrefixReply` and `MiddleReply` prove that the loops of the two programs
  compute the second reply as the reference definition `IsSecond` states it.
* `RepliesAreUnderway`: `[]Underway`, from the same invariant. `Agree` also says when there is no second
  reply to come (`~HasSecond`), so that only a client that was announced one it never gets is left
  waiting.

### FirstLabs

From `FirstLabsAssumption`, for any numbers of six digits and any words, in LabsProofs:

* `FirstTypeCorrect`, `VerdictsAreRight` and `FirstIsUnderway`: `[]TypeOK`, `[]VerdictsRight` and
  `[]Underway`, from `FirstInv`. While the first client waits its question is in flight, or YB_1 holds
  the first word of it and the second is in flight, or the verdict on it is in flight
  (`FirstAwaits`); at its prompt the connection and the server are empty. No other connection ever
  gets a byte.
* `DigitSums`: the divisions of the code give the sums of the first and of the last three digits,
  for every number below a million.

### QuadrantServer

From `QuadrantAssumption`, for any number of connections, any integers as coordinates and any
backlog, in LabsProofs:

* `QuadrantTypeCorrect`, `AnswersAreRight` and `PointIsUnderway`: `[]TypeOK`, `[]AnswersRight` and
  `[]Underway`, from `PointInv`. `PointOrder`: the connections made are 1 up to the last, those accepted
  are the first of them, the first of all was accepted by the outer loop, and the one that is served
  never is. `PointServed` gives for each place of the server where the point of that connection is.
  `PointUnserved`: every other connection has had no answer, its point is still in flight, and one
  that the inner loop accepted has gone; so the server starts on the next one with nothing in hand.

### UDPChat

From `ChatAssumption`, for any clients, any texts of bytes, ints of one to four bytes and any
limit of a datagram:

* `TypeCorrect`: `[]TypeOK`, under every fault, also while sizes are taken for texts and the reverse.
* `OwnTextShown`: `[]OwnText`. `PairInv`: as long as nothing has mixed the pairs and the server is
  up, the datagrams on their way are sizes and texts in turn, beginning with what the server waits
  for (`IsSize`, by the parity of the place). In front of every text is its own size (`SizeFirst`;
  the size received last is place 0), the last size waits for the text of the one client between
  its two sends (`SizeLast`), and every text is the one its sender waits for, once (`TextsSent`).
  So what the server announces to itself is the length of the text it receives (`ValueIs`), the
  reply is `Swapped` of it (`OwnReply`), and `SwappedIs` proves that the loop exchanges the
  characters of every pair and leaves a last single one alone.
* `TextIsUnderway`: `[]Underway`. That the text is somewhere in the inbox is not inductive: the
  server might take it for a size. `ComingInv` adds that its place is one of a text; receiving a
  size moves every place by one and changes what the server waits for next, so that this is kept.

The invariants of the run `labs` join those of the programs: `TypeOK`, `InStep`, `OwnText`,
`RepliesRight` and `AnswersRight` of MCLabs say of the program that runs what the theorems above
say of it in general. The theorems are therefore about the properties of the modules, and not
about those of MCLabs, which is one instance.

### Model-checked only

* Liveness under fairness and ENABLED are outside what the prover supports: `AnswerArrives`,
  `Delivered`, `AllReaped`, `Stored`, `EchoArrives` and the other leads-to properties.
* Induction over data is out of its reach too. No definition is recursive: the loops of the code
  are steps of the models, or definitions on positions, and `Value` adds up the four places of an
  int.

## Not modelled

* Frames that arrive in pieces, except in CN5: the post servers and clients receive 64 and 1024
  bytes with one recv, which may return less, and so do CN1, LK_1, YB_1, LK_3 and YB_3. CN3 and
  CN4 loop; CN4's loop does not treat an error, CN3's does not treat the end of the stream.
* Rows of different lengths torn by two writers, and text encodings, in CN4; the number in the
  window's `sock`, uninitialised before the first connect and stale after a disconnect; a
  handler that interrupts a library call of the parent.
* Text read from a string that is being freed in CN3: the model lets the process end, or lets it
  go on with what the vector holds.
* CN5: a connect that is refused, lengths above 2^31 as negative numbers, the layout of the window
  and the copy of its dialog in LPDialog.qml, which nothing uses. The contents of tokens and
  messages are constants of the code that nothing compares. The client prints a text that has
  no terminator; what follows it in memory is not modelled.
* CN2: a size that is negative.
* CN4: a connection that nobody serves stays open after the parent has ended as long as a child forked
  later holds its descriptor; the model resets it at once. The parts of the window that only lay out
  and display.
* The post servers: a crash or a failing write in the middle of one record.
* YB_4: the end of the server process, which is that of LK_4.
* `dbfunctions.cpp`, which is not compiled: its include and its calls are commented out. Project
  files, forms and binaries have no behaviour.

## State of the development

Every server and every console client is modelled and checked; of the two Qt clients, the CN4
window and the CN5 client, what they exchange with their servers is, and the rest is listed above.
Every invariant and every action property that a run checks is proved, those of MCLabs as theorems
of the programs it is made of, and so are the refinements of the mail store by both post servers
and of the register. What is left to TLC is liveness.
