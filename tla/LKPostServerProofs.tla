------------------------- MODULE LKPostServerProofs -------------------------
(***************************************************************************)
(* Proofs about LKPostServer, for any number of clients, phones, records   *)
(* and buffered frames.                                                    *)
(***************************************************************************)
EXTENDS LKPostServer, SequenceTheorems, TLAPS

\* The phone travels in front of the commands, and only a client that has gone
\* can leave the thread without it: cmd is never read from a phone.
InOrder ==
  \A c \in Clients :
    /\ \A i \in 1 .. Len(c2s[c]) :
         c2s[c][i] \in IF pc[c] = "tel" /\ i = 1 THEN Phones ELSE Commands
    /\ pc[c] = "tel" /\ c2s[c] = <<>> => cli[c] = "off"

TypeInv == TypeOK /\ InOrder

\* What Tail does to a queue, element by element.
LEMMA TailElements ==
  ASSUME NEW S, NEW s \in Seq(S), s # <<>>
  PROVE  /\ Head(s) = s[1] /\ Head(s) \in S
         /\ Tail(s) \in Seq(S) /\ Len(Tail(s)) = Len(s) - 1
         /\ \A i \in 1 .. Len(Tail(s)) : Tail(s)[i] = s[i + 1]
  OBVIOUS

\* What Append does to a queue, element by element.
LEMMA AppendElements ==
  ASSUME NEW S, NEW s \in Seq(S), NEW x \in S
  PROVE  /\ Append(s, x) \in Seq(S) /\ Len(Append(s, x)) = Len(s) + 1
         /\ \A i \in 1 .. Len(s) : Append(s, x)[i] = s[i]
         /\ Append(s, x)[Len(s) + 1] = x
  OBVIOUS

\* send keeps the frames under way well typed and within the buffer.
LEMMA SendType ==
  ASSUME TypeOK, NEW c \in Clients, NEW frame \in Messages \cup {End}, Send(c, frame)
  PROVE  /\ s2c' \in [Clients -> Seq(Messages \cup {End})]
         /\ \A d \in Clients : Len(s2c'[d]) <= SockBuf
<1>1. CASE cli[c] = "off"
  BY <1>1 DEF TypeOK, Send
<1>2. CASE cli[c] # "off"
  <2>1. Len(s2c[c]) < SockBuf /\ s2c' = [s2c EXCEPT ![c] = Append(@, frame)]
    BY <1>2 DEF Send
  <2>2. s2c[c] \in Seq(Messages \cup {End}) /\ Len(s2c[c]) \in Nat
    BY DEF TypeOK
  <2> QED
    BY <2>1, <2>2, AppendElements, LKAssumption DEF TypeOK
<1> QED
  BY <1>1, <1>2

LEMMA InitType == Init => TypeInv
  BY LKAssumption
  DEF Init, TypeInv, TypeOK, InOrder, Commands, ThreadPCs, ClientPCs, Receiving

\* The part of TypeInv that an action of the server's threads can disturb.
LEMMA ThreadType ==
  ASSUME TypeInv, NEW c \in Clients, Acquire(c) \/ ThreadStep(c)
  PROVE  TypeInv'
<1> USE LKAssumption DEF Commands, ThreadPCs, ClientPCs, Receiving, serverVars, clientVars, Goto
<1>0. TypeOK /\ InOrder
  BY DEF TypeInv
<1>1. CASE Acquire(c)
  BY <1>0, <1>1 DEF TypeInv, TypeOK, InOrder, Acquire
<1>2. CASE RecvTel(c)
  <2>0. c2s[c] \in Seq(Phones \cup Commands)
    BY <1>0 DEF TypeOK
  <2>1. CASE c2s[c] # <<>> /\ c2s' = [c2s EXCEPT ![c] = Tail(@)]
             /\ cTel' = [cTel EXCEPT ![c] = Head(c2s[c])]
    <3>1. Head(c2s[c]) \in Phones
      BY <1>0, <1>2, <2>0, <2>1, TailElements DEF InOrder, RecvTel
    <3>2. TypeOK'
      BY <1>0, <1>2, <2>0, <2>1, <3>1, TailElements DEF TypeOK, RecvTel
    <3>3. InOrder'
      BY <1>0, <1>2, <2>0, <2>1, TailElements DEF InOrder, TypeOK, RecvTel
    <3> QED
      BY <3>2, <3>3 DEF TypeInv
  <2>2. CASE c2s[c] = <<>> /\ cli[c] = "off" /\ UNCHANGED <<cTel, c2s>>
    <3>1. TypeOK'
      BY <1>0, <1>2, <2>2 DEF TypeOK, RecvTel
    <3>2. InOrder'
      BY <1>0, <1>2, <2>2 DEF InOrder, TypeOK, RecvTel
    <3> QED
      BY <3>1, <3>2 DEF TypeInv
  <2> QED
    BY <1>2, <2>1, <2>2 DEF RecvTel
<1>3. CASE RecvCmd(c)
  <2>0. c2s[c] \in Seq(Phones \cup Commands) /\ c2s[c] # <<>> /\ pc[c] = "cmd"
    BY <1>0, <1>3 DEF TypeOK, RecvCmd, Dispatch
  <2>1. Head(c2s[c]) \in Commands
    BY <1>0, <2>0, TailElements DEF InOrder
  <2>2. TypeOK'
    BY <1>0, <1>3, <2>0, <2>1, TailElements DEF TypeOK, RecvCmd, Dispatch
  <2>3. InOrder'
    BY <1>0, <1>3, <2>0, TailElements DEF InOrder, TypeOK, RecvCmd, Dispatch
  <2> QED
    BY <2>2, <2>3 DEF TypeInv
<1>4. CASE RecvCmdFails(c)
  <2>1. TypeOK'
    BY <1>0, <1>4 DEF TypeOK, RecvCmdFails, Dispatch
  <2>2. InOrder'
    BY <1>0, <1>4 DEF InOrder, TypeOK, RecvCmdFails, Dispatch
  <2> QED
    BY <2>1, <2>2 DEF TypeInv
<1>5. CASE OpenFails(c)
  <2>1. /\ s2c' \in [Clients -> Seq(Messages \cup {End})]
        /\ \A d \in Clients : Len(s2c'[d]) <= SockBuf
    BY <1>0, <1>5, SendType DEF OpenFails
  <2>2. TypeOK'
    BY <1>0, <1>5, <2>1 DEF TypeOK, OpenFails, AfterScan
  <2>3. InOrder'
    BY <1>0, <1>5 DEF InOrder, TypeOK, OpenFails, AfterScan
  <2> QED
    BY <2>2, <2>3 DEF TypeInv
<1>6. CASE ReadRecord(c)
  <2>1. PICK m \in left[c] \ Malformed : ReadRecord(c)!2!(m)
    BY <1>6 DEF ReadRecord
  <2>2. m \in Messages
    BY <1>0 DEF TypeOK
  <2>3. /\ s2c' \in [Clients -> Seq(Messages \cup {End})]
        /\ \A d \in Clients : Len(s2c'[d]) <= SockBuf
    BY <1>0, <2>1, <2>2, SendType DEF TypeOK
  <2>4. /\ left' \in [Clients -> SUBSET Messages]
        /\ msgs' \in [Clients -> SUBSET Messages]
        /\ sent' \in [Clients -> SUBSET Messages]
    <3>1. left' = [left EXCEPT ![c] = @ \ {m}]
      BY <2>1
    <3>2. msgs' = msgs \/ msgs' = [msgs EXCEPT ![c] = @ \cup {m}] \/ msgs' = [msgs EXCEPT ![c] = @]
      BY <2>1
    <3>3. sent' = sent \/ sent' = [sent EXCEPT ![c] = @ \cup {m}]
      BY <2>1
    <3>4. left' \in [Clients -> SUBSET Messages]
      BY <1>0, <3>1 DEF TypeOK
    <3>5. msgs' \in [Clients -> SUBSET Messages]
      <4>1. msgs[c] \cup {m} \in SUBSET Messages /\ msgs \in [Clients -> SUBSET Messages]
        BY <1>0, <2>2 DEF TypeOK
      <4> QED
        BY <3>2, <4>1
    <3>6. sent' \in [Clients -> SUBSET Messages]
      <4>1. sent[c] \cup {m} \in SUBSET Messages /\ sent \in [Clients -> SUBSET Messages]
        BY <1>0, <2>2 DEF TypeOK
      <4> QED
        BY <3>3, <4>1
    <3> QED
      BY <3>4, <3>5, <3>6
  <2>5. UNCHANGED <<file, owner, pc, cTel, cmd, refused, c2s, clientVars>>
    BY <1>6 DEF ReadRecord
  <2>6. TypeOK'
    BY <1>0, <2>3, <2>4, <2>5 DEF TypeOK
  <2>7. InOrder'
    BY <1>0, <2>5 DEF InOrder
  <2> QED
    BY <2>6, <2>7 DEF TypeInv
<1>7. CASE EndOfFile(c)
  <2>1. /\ s2c' \in [Clients -> Seq(Messages \cup {End})]
        /\ \A d \in Clients : Len(s2c'[d]) <= SockBuf
    BY <1>0, <1>7, SendType DEF EndOfFile
  <2>2. TypeOK'
    BY <1>0, <1>7, <2>1 DEF TypeOK, EndOfFile, AfterScan
  <2>3. InOrder'
    BY <1>0, <1>7 DEF InOrder, TypeOK, EndOfFile, AfterScan
  <2> QED
    BY <2>2, <2>3 DEF TypeInv
<1>8. CASE Truncate(c)
  BY <1>0, <1>8 DEF TypeInv, TypeOK, InOrder, Truncate
<1>8a. CASE TruncateFails(c)
  BY <1>0, <1>8a DEF TypeInv, TypeOK, InOrder, TruncateFails
<1>9. CASE WriteRecord(c)
  BY <1>0, <1>9 DEF TypeInv, TypeOK, InOrder, WriteRecord, First
<1>10. CASE Unlock(c)
  BY <1>0, <1>10 DEF TypeInv, TypeOK, InOrder, Unlock
<1> QED
  BY <1>1, <1>2, <1>3, <1>4, <1>5, <1>6, <1>7, <1>8, <1>8a, <1>9, <1>10 DEF ThreadStep

LEMMA ClientType ==
  ASSUME TypeInv, NEW c \in Clients, ClientStep(c)
  PROVE  TypeInv'
<1> USE LKAssumption DEF Commands, ThreadPCs, ClientPCs, Receiving, serverVars, clientVars, Goto
<1>0. TypeOK /\ InOrder
  BY DEF TypeInv
<1>1. ASSUME NEW p \in Phones, Connect(c, p) PROVE TypeInv'
  BY <1>0, <1>1 DEF TypeInv, TypeOK, InOrder, Connect, StartClient
<1>2. CASE Refuse(c)
  BY <1>0, <1>2 DEF TypeInv, TypeOK, InOrder, Refuse, StartClient
<1>3. ASSUME NEW command \in {"view", "purge"}, Choose(c, command) PROVE TypeInv'
  <2>0. c2s[c] \in Seq(Phones \cup Commands) /\ command \in Commands
    BY <1>0, <1>3 DEF TypeOK
  <2>1. TypeOK'
    BY <1>0, <1>3, <2>0, AppendElements DEF TypeOK, Choose, Put
  <2>2. InOrder'
    <3>1. pc' = pc /\ cli[c] = "menu" /\ cli' = [cli EXCEPT ![c] = command]
      BY <1>3 DEF Choose
    <3>2. CASE pc[c] = "none"
      BY <1>0, <1>3, <3>1, <3>2 DEF InOrder, TypeOK, Choose, Put
    <3>3. CASE pc[c] # "none"
      <4>1. c2s' = [c2s EXCEPT ![c] = Append(@, command)]
        BY <1>3, <3>3 DEF Choose, Put
      <4>2. \A i \in 1 .. Len(c2s'[c]) :
              c2s'[c][i] \in IF pc[c] = "tel" /\ i = 1 THEN Phones ELSE Commands
        BY <1>0, <2>0, <3>1, <4>1, AppendElements DEF InOrder, TypeOK
      <4>3. c2s'[c] # <<>>
        <5>1. Len(c2s'[c]) = Len(c2s[c]) + 1 /\ Len(c2s[c]) \in Nat
          BY <1>0, <2>0, <4>1, AppendElements DEF TypeOK
        <5> QED
          BY <5>1
      <4> QED
        BY <1>0, <3>1, <4>1, <4>2, <4>3 DEF InOrder, TypeOK
    <3> QED
      BY <3>2, <3>3
  <2> QED
    BY <2>1, <2>2 DEF TypeInv
<1>4. ASSUME NEW command \in {"quit", "other"}, Leave(c, command) PROVE TypeInv'
  BY <1>0, <1>4 DEF TypeInv, TypeOK, InOrder, Leave, Put
<1>5. CASE Mistype(c)
  BY <1>0, <1>5 DEF TypeInv, TypeOK, InOrder, Mistype
<1>6. CASE Receive(c)
  BY <1>0, <1>6 DEF TypeInv, TypeOK, InOrder, Receive
<1>7. CASE ReceiveFails(c)
  BY <1>0, <1>7 DEF TypeInv, TypeOK, InOrder, ReceiveFails
<1>8. CASE Kill(c)
  BY <1>0, <1>8 DEF TypeInv, TypeOK, InOrder, Kill
<1> QED
  BY <1>1, <1>2, <1>3, <1>4, <1>5, <1>6, <1>7, <1>8 DEF ClientStep

LEMMA CrashType == TypeInv /\ Crash => TypeInv'
<1> SUFFICES ASSUME TypeInv, Crash PROVE TypeInv'
  OBVIOUS
<1> USE LKAssumption DEF serverVars, clientVars
<1>0. TypeOK /\ InOrder
  BY DEF TypeInv
<1>1. PICK lost \in SUBSET Clients :
        s2c' = [c \in Clients |-> IF c \in lost THEN <<>> ELSE s2c[c]]
  BY DEF Crash
<1>2. /\ s2c' \in [Clients -> Seq(Messages \cup {End})]
      /\ \A d \in Clients : Len(s2c'[d]) <= SockBuf
  BY <1>0, <1>1 DEF TypeOK
<1>3. TypeOK'
  BY <1>0, <1>2 DEF TypeOK, Crash, ThreadPCs
<1>4. InOrder'
  BY <1>0 DEF InOrder, Crash
<1> QED
  BY <1>3, <1>4 DEF TypeInv

LEMMA StepType == TypeInv /\ [Next]_vars => TypeInv'
<1> SUFFICES ASSUME TypeInv, [Next]_vars PROVE TypeInv'
  OBVIOUS
<1>1. CASE UNCHANGED vars
  BY <1>1 DEF TypeInv, TypeOK, InOrder, vars, serverVars, clientVars
<1> QED
  BY <1>1, ThreadType, ClientType, CrashType DEF Next

\* Every variable keeps its type, no connection ever has more frames under way
\* than it buffers, and the commands reach each thread after the phone.
THEOREM TypeCorrect == Spec => []TypeOK /\ []InOrder
<1>1. Spec => []TypeInv
  BY InitType, StepType, PTL DEF Spec
<1>2. TypeInv => TypeOK /\ InOrder
  BY DEF TypeInv
<1> QED
  BY <1>1, <1>2, PTL

-----------------------------------------------------------------------------
LEMMA MutexStep == TypeOK /\ MutexHeld /\ [Next]_vars => MutexHeld'
<1> SUFFICES ASSUME TypeOK, MutexHeld, [Next]_vars PROVE MutexHeld'
  OBVIOUS
<1> USE LKAssumption
<1> USE DEF MutexHeld, Critical
<1>0. owner \in Clients \cup {NoThread} /\ pc \in [Clients -> ThreadPCs]
  BY DEF TypeOK
<1>1. CASE pc' = pc /\ owner' = owner
  BY <1>1
<1>2. CASE Crash
  BY <1>0, <1>2 DEF Crash
<1>3. ASSUME NEW c \in Clients, NEW from \in ThreadPCs, NEW to \in ThreadPCs,
             Goto(c, from, to), owner' = owner, from \in Critical <=> to \in Critical
      PROVE  MutexHeld'
  BY <1>0, <1>3 DEF Goto
<1>4. ASSUME NEW c \in Clients, ClientStep(c)
      PROVE  MutexHeld'
  <2>1. ASSUME NEW p \in Phones, Connect(c, p)
        PROVE  MutexHeld'
    BY <2>1, <1>3 DEF Connect, ThreadPCs
  <2> QED
    BY <1>1, <1>4, <2>1 DEF ClientStep, Refuse, Choose, Leave, Mistype, Receive,
       ReceiveFails, Kill, serverVars
<1>5. ASSUME NEW c \in Clients, ThreadStep(c)
      PROVE  MutexHeld'
  <2>1. CASE Unlock(c)
    BY <1>0, <2>1 DEF Unlock
  <2>2. CASE RecvTel(c)
    BY <1>3, <2>2 DEF RecvTel, ThreadPCs
  <2>3. CASE RecvCmd(c) \/ RecvCmdFails(c)
    BY <1>0, <2>3 DEF RecvCmd, RecvCmdFails, Dispatch, Goto
  <2>4. CASE OpenFails(c) \/ EndOfFile(c) \/ Truncate(c) \/ TruncateFails(c)
    BY <1>0, <2>4 DEF OpenFails, EndOfFile, Truncate, TruncateFails, AfterScan, Goto
  <2>5. CASE ReadRecord(c) \/ WriteRecord(c)
    BY <1>1, <2>5 DEF ReadRecord, WriteRecord
  <2> QED
    BY <1>5, <2>1, <2>2, <2>3, <2>4, <2>5 DEF ThreadStep
<1>6. ASSUME NEW c \in Clients, Acquire(c)
      PROVE  MutexHeld'
  BY <1>0, <1>6 DEF Acquire, Goto
<1> QED
  BY <1>1, <1>2, <1>4, <1>5, <1>6 DEF Next, vars, serverVars

\* fMutex excludes: messages.txt is read and rewritten by its owner alone, and
\* no thread ends owning it, whatever faults occur.
THEOREM MutualExclusion == Spec => []MutexHeld
<1>1. Init => MutexHeld
  BY LKAssumption, ZenonT(60) DEF Init, MutexHeld, Critical
<1> QED
  BY <1>1, MutexStep, TypeCorrect, PTL DEF Spec

-----------------------------------------------------------------------------
\* What a thread has read or collected is still in the file: no other thread
\* rewrites it meanwhile.
Copies ==
  \A c \in Clients : pc[c] \in {"scan", "trunc"} => left[c] \subseteq file /\ msgs[c] \subseteq file

LEMMA CopiesStep == TypeOK /\ MutexHeld /\ Copies /\ [Next]_vars => Copies'
<1> SUFFICES ASSUME TypeOK, MutexHeld, Copies, [Next]_vars PROVE Copies'
  OBVIOUS
<1>0. /\ pc \in [Clients -> ThreadPCs] /\ owner \in Clients \cup {NoThread}
      /\ left \in [Clients -> SUBSET Messages] /\ msgs \in [Clients -> SUBSET Messages]
  BY DEF TypeOK
<1>1. CASE UNCHANGED <<file, pc, left, msgs>>
  BY <1>1 DEF Copies
<1>2. CASE Crash
  BY <1>0, <1>2 DEF Crash, Copies
<1>3. ASSUME NEW c \in Clients, Acquire(c)
      PROVE  Copies'
  BY <1>0, <1>3 DEF Acquire, Goto, Copies
<1>4. ASSUME NEW c \in Clients, ThreadStep(c)
      PROVE  Copies'
  <2>1. CASE RecvTel(c) \/ RecvCmd(c) \/ RecvCmdFails(c)
    BY <1>0, <2>1 DEF RecvTel, RecvCmd, RecvCmdFails, Dispatch, Goto, Copies
  <2>2. CASE OpenFails(c) \/ EndOfFile(c)
    BY <1>0, <2>2 DEF OpenFails, EndOfFile, AfterScan, Goto, Copies
  <2>3. CASE ReadRecord(c)
    <3>1. PICK m \in left[c] \ Malformed : ReadRecord(c)!2!(m)
      BY <2>3 DEF ReadRecord
    <3>2. left'[c] \subseteq left[c] /\ msgs'[c] \subseteq msgs[c] \cup {m}
      BY <1>0, <3>1
    <3>3. \A d \in Clients \ {c} : left'[d] = left[d] /\ msgs'[d] = msgs[d]
      BY <1>0, <3>1
    <3> QED
      BY <2>3, <3>1, <3>2, <3>3 DEF ReadRecord, Copies
  <2>4. CASE Truncate(c) \/ WriteRecord(c)
    <3>1. \A d \in Clients : pc'[d] \notin {"scan", "trunc"}
      BY <1>0, <2>4 DEF MutexHeld, Critical, Truncate, WriteRecord, Goto
    <3> QED
      BY <3>1 DEF Copies
  <2>5. CASE Unlock(c) \/ TruncateFails(c)
    BY <1>0, <2>5 DEF Unlock, TruncateFails, Goto, Copies
  <2> QED
    BY <1>4, <2>1, <2>2, <2>3, <2>4, <2>5 DEF ThreadStep
<1>5. ASSUME NEW c \in Clients, ClientStep(c)
      PROVE  Copies'
  <2>1. ASSUME NEW p \in Phones, Connect(c, p)
        PROVE  Copies'
    BY <1>0, <2>1 DEF Connect, Goto, Copies
  <2> QED
    BY <1>1, <1>5, <2>1 DEF ClientStep, Refuse, Choose, Leave, Mistype, Receive,
       ReceiveFails, Kill, serverVars
<1> QED
  BY <1>1, <1>2, <1>3, <1>4, <1>5 DEF Next, vars, serverVars

LEMMA BoxShrinks == TypeOK /\ Copies /\ [Next]_vars => Box' \subseteq Box
<1> SUFFICES ASSUME TypeOK, Copies, [Next]_vars, NEW m, m \in Box'
             PROVE  m \in Box
  OBVIOUS
<1>0. pc \in [Clients -> ThreadPCs] /\ msgs \in [Clients -> SUBSET Messages]
  BY DEF TypeOK
<1>1. m \in file' \/ \E d \in Clients : pc'[d] = "write" /\ m \in msgs'[d]
  BY DEF Box, Rewritten
<1>2. SUFFICES m \in file \/ \E d \in Clients : pc[d] = "write" /\ m \in msgs[d]
  BY DEF Box, Rewritten
<1>3. CASE UNCHANGED <<file, pc, msgs>>
  BY <1>1, <1>3
<1>4. CASE Crash
  BY <1>1, <1>4 DEF Crash
<1>5. ASSUME NEW c \in Clients, Acquire(c)
      PROVE  m \in file \/ \E d \in Clients : pc[d] = "write" /\ m \in msgs[d]
  BY <1>0, <1>1, <1>5 DEF Acquire, Goto
<1>6. ASSUME NEW c \in Clients, ThreadStep(c)
      PROVE  m \in file \/ \E d \in Clients : pc[d] = "write" /\ m \in msgs[d]
  <2>1. CASE RecvTel(c) \/ RecvCmd(c) \/ RecvCmdFails(c)
    BY <1>0, <1>1, <2>1 DEF RecvTel, RecvCmd, RecvCmdFails, Dispatch, Goto
  <2>2. CASE OpenFails(c) \/ EndOfFile(c)
    BY <1>0, <1>1, <2>2 DEF OpenFails, EndOfFile, AfterScan, Goto
  <2>3. CASE ReadRecord(c)
    <3>1. file' = file /\ pc' = pc /\ pc[c] = "scan"
      BY <2>3 DEF ReadRecord
    <3>2. \A d \in Clients \ {c} : msgs'[d] = msgs[d]
      BY <1>0, <2>3 DEF ReadRecord
    <3> QED
      BY <1>1, <3>1, <3>2
  <2>4. CASE Truncate(c)
    BY <1>0, <1>1, <2>4 DEF Truncate, Goto, Copies
  <2>5. CASE WriteRecord(c)
    BY <1>0, <1>1, <2>5 DEF WriteRecord
  <2>6. CASE Unlock(c) \/ TruncateFails(c)
    BY <1>0, <1>1, <2>6 DEF Unlock, TruncateFails, Goto
  <2> QED
    BY <1>6, <2>1, <2>2, <2>3, <2>4, <2>5, <2>6 DEF ThreadStep
<1>7. ASSUME NEW c \in Clients, ClientStep(c)
      PROVE  m \in file \/ \E d \in Clients : pc[d] = "write" /\ m \in msgs[d]
  <2>1. ASSUME NEW p \in Phones, Connect(c, p)
        PROVE  m \in file \/ \E d \in Clients : pc[d] = "write" /\ m \in msgs[d]
    BY <1>0, <1>1, <2>1 DEF Connect, Goto
  <2> QED
    BY <1>3, <1>7, <2>1 DEF ClientStep, Refuse, Choose, Leave, Mistype, Receive,
       ReceiveFails, Kill, serverVars
<1> QED
  BY <1>3, <1>4, <1>5, <1>6, <1>7 DEF Next, vars, serverVars

\* Mail that a purge deleted stays deleted: no thread writes back a record that
\* another thread, a crash or an unreadable file has removed.
THEOREM Deleted == Spec => NoResurrection
<1>1. Init => Copies
  BY DEF Init, Copies
<1>2. TypeOK /\ Copies /\ [Next]_vars => [Box' \subseteq Box]_vars
  BY BoxShrinks
<1>3. Spec => []Copies
  BY <1>1, CopiesStep, TypeCorrect, MutualExclusion, PTL DEF Spec
<1>4. Spec => [][Box' \subseteq Box]_vars
  BY <1>2, <1>3, TypeCorrect, PTL DEF Spec
<1> QED
  BY <1>4 DEF NoResurrection

-----------------------------------------------------------------------------
Frames(s) == {s[i] : i \in 1 .. Len(s)}

\* Commands the client has sent and the thread has not received.
Unread(c) == IF pc[c] = "tel" THEN Len(c2s[c]) - 1 ELSE Len(c2s[c])

\* The stages of an exchange: nothing asked; a command under way; the thread
\* waiting for the mutex; the answer under way; the answer complete.
Idle(c)  == /\ Unread(c) = 0 /\ pc[c] \notin {"wait", "scan"}
            /\ s2c[c] = <<>> /\ shown[c] = sent[c]
Asked(c) == /\ Unread(c) = 1 /\ pc[c] \notin {"wait", "scan"}
            /\ s2c[c] = <<>> /\ shown[c] = {}
Taken(c) == /\ Unread(c) = 0 /\ pc[c] = "wait"
            /\ s2c[c] = <<>> /\ shown[c] = {}
Partly(c) == /\ Unread(c) = 0 /\ pc[c] = "scan"
             /\ End \notin Frames(s2c[c]) /\ shown[c] \cup Frames(s2c[c]) = sent[c]
Ended(c) == /\ Unread(c) = 0 /\ pc[c] \notin {"tel", "wait", "scan"}
            /\ s2c[c] # <<>> /\ \A i \in 1 .. Len(s2c[c]) : s2c[c][i] = End <=> i = Len(s2c[c])
            /\ shown[c] \cup (Frames(s2c[c]) \ {End}) = sent[c]

SyncOf(c) ==
  pc[c] # "none" =>
    /\ cli[c] \in {"menu", "wedged"} => Idle(c)
    /\ cli[c] \in Receiving => Asked(c) \/ Taken(c) \/ Partly(c) \/ Ended(c)

SyncInv == \A c \in Clients : SyncOf(c)

LEMMA FramesEmpty == Frames(<<>>) = {}
  BY DEF Frames

LEMMA FramesAppend ==
  ASSUME NEW S, NEW s \in Seq(S), NEW x \in S
  PROVE  Frames(Append(s, x)) = Frames(s) \cup {x}
<1>1. Len(s) \in Nat
  OBVIOUS
<1>2. ASSUME NEW y \in Frames(Append(s, x)) PROVE y \in Frames(s) \cup {x}
  BY <1>1, <1>2, AppendElements DEF Frames
<1>3. ASSUME NEW y \in Frames(s) PROVE y \in Frames(Append(s, x))
  <2>1. PICK i \in 1 .. Len(s) : y = s[i]
    BY <1>3 DEF Frames
  <2>2. i \in 1 .. Len(Append(s, x)) /\ y = Append(s, x)[i]
    BY <1>1, <2>1, AppendElements
  <2> QED
    BY <2>2 DEF Frames
<1>4. x \in Frames(Append(s, x))
  <2>1. Len(s) + 1 \in 1 .. Len(Append(s, x)) /\ x = Append(s, x)[Len(s) + 1]
    BY <1>1, AppendElements
  <2> QED
    BY <2>1 DEF Frames
<1> QED
  BY <1>2, <1>3, <1>4

LEMMA FramesTail ==
  ASSUME NEW S, NEW s \in Seq(S), s # <<>>
  PROVE  Frames(s) = {Head(s)} \cup Frames(Tail(s))
<1>1. Len(s) \in Nat \ {0}
  OBVIOUS
<1>2. ASSUME NEW y \in Frames(s) PROVE y = Head(s) \/ y \in Frames(Tail(s))
  <2>1. PICK i \in 1 .. Len(s) : y = s[i]
    BY <1>2 DEF Frames
  <2>2. CASE i = 1
    BY <2>1, <2>2, TailElements
  <2>3. CASE i # 1
    <3>1. i - 1 \in 1 .. Len(Tail(s)) /\ y = Tail(s)[i - 1]
      BY <1>1, <2>1, <2>3, TailElements
    <3> QED
      BY <3>1 DEF Frames
  <2> QED
    BY <2>2, <2>3
<1>3. ASSUME NEW y \in Frames(Tail(s)) PROVE y \in Frames(s)
  <2>1. PICK i \in 1 .. Len(Tail(s)) : y = Tail(s)[i]
    BY <1>3 DEF Frames
  <2>2. i + 1 \in 1 .. Len(s) /\ y = s[i + 1]
    BY <1>1, <2>1, TailElements
  <2> QED
    BY <2>2 DEF Frames
<1>4. Head(s) \in Frames(s)
  <2>1. 1 \in 1 .. Len(s) /\ Head(s) = s[1]
    BY <1>1, TailElements
  <2> QED
    BY <2>1 DEF Frames
<1> QED
  BY <1>2, <1>3, <1>4

\* Only the connection an action works on matters for the stage it is in.
LEMMA SyncElsewhere ==
  ASSUME NEW d \in Clients, SyncOf(d),
         pc'[d] = pc[d], cli'[d] = cli[d], c2s'[d] = c2s[d], s2c'[d] = s2c[d],
         sent'[d] = sent[d], shown'[d] = shown[d]
  PROVE  SyncOf(d)'
  BY DEF SyncOf, Idle, Asked, Taken, Partly, Ended, Unread, Frames

\* A thread starts, receives or ends.
LEMMA SyncReceiving ==
  ASSUME TypeInv, NEW c \in Clients, SyncOf(c),
         RecvTel(c) \/ RecvCmd(c) \/ RecvCmdFails(c) \/ Acquire(c)
  PROVE  SyncOf(c)'
<1> USE LKAssumption DEF Goto, clientVars
<1>0. /\ TypeOK /\ InOrder /\ c2s[c] \in Seq(Phones \cup Commands) /\ Len(c2s[c]) \in Nat
      /\ pc \in [Clients -> ThreadPCs] /\ cli[c] \in ClientPCs
  BY DEF TypeInv, TypeOK
<1>1. CASE RecvTel(c)
  <2>1. CASE c2s[c] # <<>> /\ c2s' = [c2s EXCEPT ![c] = Tail(@)]
    <3>1. pc[c] = "tel" /\ pc'[c] = "cmd" /\ Len(c2s'[c]) = Len(c2s[c]) - 1
      BY <1>0, <1>1, <2>1, TailElements DEF RecvTel, TypeOK
    <3>2. Unread(c)' = Unread(c)
      BY <3>1 DEF Unread
    <3> QED
      BY <1>1, <3>1, <3>2 DEF RecvTel, SyncOf, Idle, Asked, Taken, Partly, Ended
  <2>2. CASE cli[c] = "off"
    BY <1>1, <2>2 DEF RecvTel, SyncOf, Receiving
  <2> QED
    BY <1>1, <2>1, <2>2 DEF RecvTel
<1>2. CASE RecvCmd(c)
  <2>1. pc[c] = "cmd" /\ pc'[c] \in {"wait", "none"} /\ Len(c2s'[c]) = Len(c2s[c]) - 1
    BY <1>0, <1>2, TailElements DEF RecvCmd, Dispatch, TypeOK
  <2>2. Unread(c) = Len(c2s[c]) /\ Unread(c) >= 1 /\ Unread(c)' = Unread(c) - 1
    BY <1>0, <1>2, <2>1 DEF RecvCmd, Unread
  <2>3. UNCHANGED <<cli, s2c, sent, shown>>
    BY <1>2 DEF RecvCmd
  <2>4. pc[c] # "none" /\ ~Idle(c) /\ ~Taken(c) /\ ~Partly(c) /\ ~Ended(c)
    BY <2>1, <2>2 DEF Idle, Taken, Partly, Ended
  <2>5. Asked(c) /\ pc'[c] = "wait" => Taken(c)'
    BY <2>2, <2>3 DEF Asked, Taken
  <2> QED
    BY <2>1, <2>3, <2>4, <2>5 DEF SyncOf
<1>3. CASE RecvCmdFails(c)
  BY <1>3 DEF RecvCmdFails, SyncOf, Receiving
<1>4. CASE Acquire(c)
  <2>1. /\ pc[c] = "wait" /\ pc'[c] = "scan" /\ sent'[c] = {}
        /\ UNCHANGED <<cli, shown, s2c, c2s>>
    BY <1>0, <1>4 DEF Acquire, TypeOK
  <2>2. Taken(c) => Partly(c)'
    BY <2>1, FramesEmpty DEF Taken, Partly, Unread
  <2>3. ~Idle(c) /\ ~Asked(c) /\ ~Partly(c) /\ ~Ended(c)
    BY <2>1 DEF Idle, Asked, Partly, Ended
  <2> QED
    BY <2>1, <2>2, <2>3 DEF SyncOf
<1> QED
  BY <1>1, <1>2, <1>3, <1>4

\* A thread sends its answer, record by record and then "!end".
LEMMA SyncAnswering ==
  ASSUME TypeInv, NEW c \in Clients, SyncOf(c),
         OpenFails(c) \/ ReadRecord(c) \/ EndOfFile(c)
  PROVE  SyncOf(c)'
<1> USE LKAssumption DEF Goto, clientVars
<1>0. /\ TypeOK /\ s2c[c] \in Seq(Messages \cup {End}) /\ Len(s2c[c]) \in Nat
      /\ pc \in [Clients -> ThreadPCs]
  BY DEF TypeInv, TypeOK
<1>1. pc[c] = "scan" /\ UNCHANGED <<cli, shown, c2s>>
  BY DEF OpenFails, ReadRecord, EndOfFile
<1>2. CASE cli[c] = "off"
  BY <1>1, <1>2 DEF SyncOf, Receiving
<1>3. CASE cli[c] # "off"
  <2>0. ~Idle(c) /\ ~Asked(c) /\ ~Taken(c) /\ ~Ended(c)
    BY <1>1 DEF Idle, Asked, Taken, Ended
  <2>1. CASE ReadRecord(c)
    <3>1. PICK m \in left[c] \ Malformed : ReadRecord(c)!2!(m)
      BY <2>1 DEF ReadRecord
    <3>2. m \in Messages
      BY <1>0 DEF TypeOK
    <3>3. pc' = pc
      BY <2>1 DEF ReadRecord
    <3>4. CASE Selects(c, m)
      <4>1. s2c' = [s2c EXCEPT ![c] = Append(@, m)] /\ sent' = [sent EXCEPT ![c] = @ \cup {m}]
        BY <1>3, <3>1, <3>4 DEF Send
      <4>2. Frames(s2c'[c]) = Frames(s2c[c]) \cup {m} /\ sent'[c] = sent[c] \cup {m}
        <5>1. s2c'[c] = Append(s2c[c], m) /\ sent'[c] = sent[c] \cup {m}
          BY <1>0, <4>1 DEF TypeOK
        <5> QED
          BY <1>0, <3>2, <5>1, FramesAppend
      <4>3. Partly(c) => Partly(c)'
        BY <1>1, <3>2, <3>3, <4>2 DEF Partly, Unread, Frames
      <4> QED
        BY <1>1, <2>0, <3>3, <4>3 DEF SyncOf
    <3>5. CASE ~Selects(c, m)
      BY <1>1, <3>1, <3>3, <3>5, SyncElsewhere
    <3> QED
      BY <3>4, <3>5
  <2>2. CASE OpenFails(c) \/ EndOfFile(c)
    <3>1. /\ s2c' = [s2c EXCEPT ![c] = Append(@, End)] /\ sent' = sent
          /\ pc'[c] \in {"unlock", "trunc"}
      BY <1>0, <1>3, <2>2 DEF OpenFails, EndOfFile, Send, AfterScan
    <3>2. /\ s2c'[c] = Append(s2c[c], End) /\ Len(s2c'[c]) = Len(s2c[c]) + 1
          /\ \A i \in 1 .. Len(s2c[c]) : s2c'[c][i] = s2c[c][i]
          /\ s2c'[c][Len(s2c[c]) + 1] = End
      BY <1>0, <3>1, AppendElements DEF TypeOK
    <3>3. Frames(s2c'[c]) = Frames(s2c[c]) \cup {End}
      BY <1>0, <3>2, FramesAppend
    <3>4. Partly(c) => Ended(c)'
      <4> SUFFICES ASSUME Partly(c) PROVE Ended(c)'
        OBVIOUS
      <4>1. Unread(c)' = 0
        BY <1>1, <3>1 DEF Partly, Unread
      <4>2. s2c'[c] # <<>>
        <5>1. Len(s2c'[c]) # 0
          BY <1>0, <3>2
        <5> QED
          BY <5>1
      <4>3. \A i \in 1 .. Len(s2c[c]) : s2c[c][i] # End
        BY DEF Partly, Frames
      <4>4. \A i \in 1 .. Len(s2c'[c]) : s2c'[c][i] = End <=> i = Len(s2c'[c])
        BY <1>0, <3>2, <4>3
      <4>5. shown'[c] \cup (Frames(s2c'[c]) \ {End}) = sent'[c]
        BY <1>1, <3>1, <3>3 DEF Partly
      <4>6. Frames(s2c[c])' = Frames(s2c'[c])
        BY DEF Frames
      <4> QED
        BY <3>1, <4>1, <4>2, <4>4, <4>5, <4>6 DEF Ended
    <3> QED
      BY <1>1, <2>0, <3>4 DEF SyncOf, Receiving
  <2> QED
    BY <2>1, <2>2
<1> QED
  BY <1>2, <1>3

\* A thread rewrites the file or gives the mutex back.
LEMMA SyncRewriting ==
  ASSUME TypeOK, NEW c \in Clients, SyncOf(c),
         Truncate(c) \/ TruncateFails(c) \/ WriteRecord(c) \/ Unlock(c)
  PROVE  SyncOf(c)'
<1>1. /\ pc[c] \in {"trunc", "write", "unlock"} /\ pc'[c] \in {"write", "unlock", "cmd"}
      /\ UNCHANGED <<cli, c2s, s2c, sent, shown>>
  BY DEF TypeOK, Goto, Truncate, TruncateFails, WriteRecord, Unlock, clientVars
<1>2. Unread(c)' = Unread(c) /\ Frames(s2c[c])' = Frames(s2c[c])
  BY <1>1 DEF Unread, Frames
<1> QED
  BY <1>1, <1>2 DEF SyncOf, Idle, Asked, Taken, Partly, Ended

\* A client connects, types a command, leaves or is killed.
LEMMA SyncMenu ==
  ASSUME TypeInv, NEW c \in Clients, SyncOf(c),
         \/ \E p \in Phones : Connect(c, p)
         \/ \E command \in {"view", "purge"} : Choose(c, command)
         \/ \E command \in {"quit", "other"} : Leave(c, command)
         \/ Refuse(c) \/ Mistype(c) \/ Kill(c)
  PROVE  SyncOf(c)'
<1> USE DEF serverVars, Receiving
<1>0. /\ TypeOK /\ c2s[c] \in Seq(Phones \cup Commands) /\ Len(c2s[c]) \in Nat
      /\ cli \in [Clients -> ClientPCs]
  BY DEF TypeInv, TypeOK
<1>1. ASSUME NEW p \in Phones, Connect(c, p)
      PROVE  SyncOf(c)'
  <2>1. /\ pc'[c] = "tel" /\ Len(c2s'[c]) = 1 /\ s2c'[c] = <<>> /\ cli'[c] = "menu"
        /\ sent'[c] = {} /\ shown'[c] = {}
    BY <1>0, <1>1 DEF TypeOK, Connect, StartClient, Goto
  <2>2. Unread(c)' = 0
    BY <2>1 DEF Unread
  <2> QED
    BY <2>1, <2>2 DEF SyncOf, Idle
<1>2. ASSUME NEW command \in {"view", "purge"}, Choose(c, command)
      PROVE  SyncOf(c)'
  <2>1. /\ cli[c] = "menu" /\ cli'[c] = command /\ shown'[c] = {} /\ pc' = pc
        /\ UNCHANGED <<s2c, sent>>
    BY <1>0, <1>2 DEF TypeOK, Choose
  <2>2. CASE pc[c] = "none"
    BY <2>1, <2>2 DEF SyncOf
  <2>3. CASE pc[c] # "none"
    <3>1. c2s' = [c2s EXCEPT ![c] = Append(@, command)]
      BY <1>2, <2>3 DEF Choose, Put
    <3>2. Len(c2s'[c]) = Len(c2s[c]) + 1
      <4>1. c2s'[c] = Append(c2s[c], command) /\ command \in Phones \cup Commands
        BY <1>0, <3>1 DEF TypeOK, Commands
      <4> QED
        BY <1>0, <4>1, AppendElements
    <3>3. Idle(c) /\ Unread(c)' = Unread(c) + 1
      BY <1>0, <2>1, <2>3, <3>2 DEF SyncOf, Unread
    <3>4. Asked(c)'
      BY <2>1, <3>3 DEF Idle, Asked
    <3> QED
      BY <2>1, <3>4 DEF SyncOf
  <2> QED
    BY <2>2, <2>3
<1>3. ASSUME NEW command \in {"quit", "other"}, Leave(c, command)
      PROVE  SyncOf(c)'
  BY <1>0, <1>3 DEF Leave, SyncOf
<1>4. CASE Refuse(c)
  BY <1>4 DEF Refuse, StartClient, SyncOf
<1>5. CASE Mistype(c)
  BY <1>0, <1>5 DEF Mistype, SyncOf, Idle, Unread
<1>6. CASE Kill(c)
  BY <1>0, <1>6 DEF Kill, SyncOf
<1> QED
  BY <1>1, <1>2, <1>3, <1>4, <1>5, <1>6

\* A client reads one frame of its answer.
LEMMA SyncReading ==
  ASSUME TypeInv, NEW c \in Clients, SyncOf(c), Receive(c) \/ ReceiveFails(c)
  PROVE  SyncOf(c)'
<1> USE LKAssumption DEF serverVars, Receiving
<1>0. /\ TypeOK /\ s2c[c] \in Seq(Messages \cup {End}) /\ Len(s2c[c]) \in Nat
      /\ cli \in [Clients -> ClientPCs] /\ shown \in [Clients -> SUBSET Messages]
  BY DEF TypeInv, TypeOK
<1>1. CASE ReceiveFails(c)
  BY <1>1 DEF ReceiveFails, SyncOf
<1>2. CASE Receive(c)
  <2> DEFINE frame == Head(s2c[c])
  <2>0. cli[c] \in Receiving /\ s2c[c] # <<>> /\ UNCHANGED <<pc, c2s, sent>>
    BY <1>2 DEF Receive
  <2>1. /\ s2c'[c] = Tail(s2c[c]) /\ frame = s2c[c][1]
        /\ Len(s2c'[c]) = Len(s2c[c]) - 1 /\ s2c'[c] \in Seq(Messages \cup {End})
        /\ \A i \in 1 .. Len(s2c'[c]) : s2c'[c][i] = s2c[c][i + 1]
    <3>1. s2c'[c] = Tail(s2c[c])
      BY <1>0, <1>2 DEF Receive, TypeOK
    <3> QED
      BY <1>0, <2>0, <3>1, TailElements
  <2>2. Frames(s2c[c]) = {frame} \cup Frames(s2c'[c])
    BY <1>0, <2>0, <2>1, FramesTail
  <2>3. Frames(s2c[c])' = Frames(s2c'[c]) /\ Unread(c)' = Unread(c)
    BY <2>0 DEF Frames, Unread
  <2>4. Len(s2c[c]) >= 1
    BY <1>0, <2>0
  <2>5. CASE pc[c] = "none"
    BY <2>0, <2>5 DEF SyncOf
  <2>6. CASE pc[c] # "none"
    <3>1. Partly(c) \/ Ended(c)
      BY <2>0, <2>6 DEF SyncOf, Asked, Taken
    <3>2. CASE frame # End
      <4>1. cli'[c] = cli[c] /\ shown'[c] = shown[c] \cup {frame}
        BY <1>0, <1>2, <3>2 DEF Receive
      <4>2. Partly(c) => Partly(c)'
        BY <2>0, <2>2, <2>3, <4>1 DEF Partly
      <4>3. Ended(c) => Ended(c)'
        <5> SUFFICES ASSUME Ended(c) PROVE Ended(c)'
          OBVIOUS
        <5>1. \A i \in 1 .. Len(s2c[c]) : s2c[c][i] = End <=> i = Len(s2c[c])
          BY DEF Ended
        <5>2. Len(s2c[c]) # 1
          BY <2>1, <2>4, <3>2, <5>1
        <5>3. s2c'[c] # <<>>
          <6>1. Len(s2c'[c]) # 0
            BY <1>0, <2>1, <2>4, <5>2
          <6> QED
            BY <6>1
        <5>4. \A i \in 1 .. Len(s2c'[c]) : s2c'[c][i] = End <=> i = Len(s2c'[c])
          BY <1>0, <2>1, <5>1
        <5>5. shown'[c] \cup (Frames(s2c'[c]) \ {End}) = sent'[c]
          BY <2>0, <2>2, <3>2, <4>1 DEF Ended
        <5> QED
          BY <2>0, <2>3, <5>3, <5>4, <5>5 DEF Ended
      <4> QED
        BY <2>0, <3>1, <4>1, <4>2, <4>3 DEF SyncOf
    <3>3. CASE frame = End
      <4>1. cli'[c] = "menu" /\ shown'[c] = shown[c]
        BY <1>0, <1>2, <3>3 DEF Receive
      <4>2. End \in Frames(s2c[c])
        BY <2>2, <3>3
      <4>3. Ended(c)
        BY <3>1, <4>2 DEF Partly
      <4>4. Len(s2c[c]) = 1
        <5>1. 1 \in 1 .. Len(s2c[c]) /\ s2c[c][1] = End
          BY <1>0, <2>1, <2>4, <3>3
        <5> QED
          BY <4>3, <5>1 DEF Ended
      <4>5. s2c'[c] = <<>> /\ Frames(s2c[c]) = {End}
        <5>1. s2c'[c] = <<>>
          <6>1. Len(s2c'[c]) = 0
            BY <2>1, <4>4
          <6> QED
            BY <2>1, <6>1, EmptySeq
        <5> QED
          BY <2>2, <3>3, <5>1, FramesEmpty
      <4>6. shown[c] = sent[c]
        BY <4>3, <4>5 DEF Ended
      <4>7. Idle(c)'
        BY <2>0, <2>3, <4>1, <4>3, <4>5, <4>6 DEF Ended, Idle
      <4> QED
        BY <4>1, <4>7 DEF SyncOf
    <3> QED
      BY <3>2, <3>3
  <2> QED
    BY <2>5, <2>6
<1> QED
  BY <1>1, <1>2

LEMMA SyncStep == TypeInv /\ SyncInv /\ [Next]_vars => SyncInv'
<1> SUFFICES ASSUME TypeInv, SyncInv, [Next]_vars, NEW d \in Clients
             PROVE  SyncOf(d)'
  BY DEF SyncInv
<1>0. SyncOf(d) /\ TypeOK
  BY DEF SyncInv, TypeInv
<1>1. CASE UNCHANGED vars
  BY <1>0, <1>1, SyncElsewhere DEF vars, serverVars, clientVars
<1>2. CASE Crash
  BY <1>2 DEF Crash, SyncOf
<1>3. ASSUME NEW c \in Clients, c # d, Acquire(c) \/ ThreadStep(c) \/ ClientStep(c)
      PROVE  SyncOf(d)'
  <2>1. UNCHANGED <<pc[d], cli[d], c2s[d], sent[d], shown[d]>>
    BY <1>0, <1>3
    DEF TypeOK, Acquire, ThreadStep, RecvTel, RecvCmd, RecvCmdFails, Dispatch, OpenFails,
        ReadRecord, EndOfFile, Truncate, TruncateFails, WriteRecord, Unlock, Goto,
        ClientStep, Connect, StartClient, Refuse, Choose, Leave, Put, Mistype, Receive,
        ReceiveFails, Kill, serverVars, clientVars
  <2>2. s2c'[d] = s2c[d]
    BY <1>0, <1>3
    DEF TypeOK, Acquire, ThreadStep, RecvTel, RecvCmd, RecvCmdFails, OpenFails, Send,
        ReadRecord, EndOfFile, Truncate, TruncateFails, WriteRecord, Unlock,
        ClientStep, Connect, StartClient, Refuse, Choose, Leave, Mistype, Receive,
        ReceiveFails, Kill
  <2> QED
    BY <1>0, <2>1, <2>2, SyncElsewhere
<1>4. CASE Acquire(d) \/ ThreadStep(d) \/ ClientStep(d)
  BY <1>0, <1>4, SyncReceiving, SyncAnswering, SyncRewriting, SyncMenu, SyncReading
  DEF ThreadStep, ClientStep
<1> QED
  BY <1>1, <1>2, <1>3, <1>4 DEF Next

\* Whatever faults occur: a client back at its menu has read all of the last
\* answer and printed exactly the records the server sent for it.
THEOREM StaysInSync == Spec => []InSync
<1>1. Init => SyncInv
  BY DEF Init, SyncInv, SyncOf
<1>2. SyncInv => InSync
  BY DEF SyncInv, SyncOf, Idle, InSync
<1>3. Spec => []TypeInv
  BY InitType, StepType, PTL DEF Spec
<1> QED
  BY <1>1, <1>2, <1>3, SyncStep, PTL DEF Spec

-----------------------------------------------------------------------------
Clean(S, c) == \A m \in S : From[m] # cTel[c]

\* A purge spares no mail of its caller, neither while it collects what it keeps
\* nor in the file it writes; it gives the mutex back unwritten only when the file
\* did not open for the rewrite.
SparesNone(c) ==
  /\ pc[c] \in {"wait", "scan"} => cmd[c] \in {"view", "purge"}
  /\ pc[c] = "unlock" => cmd[c] = "view" \/ c \in refused
  /\ pc[c] = "trunc" => cmd[c] = "purge"
  /\ pc[c] \in {"scan", "trunc"} /\ cmd[c] = "purge" => Clean(msgs[c], c)
  /\ pc[c] = "write" => Clean(file \cup msgs[c], c)

\* A client that waits for its purge: the command is the last it has sent, then the
\* one at work, and then it has taken effect or could not open the file.
Purging(c) ==
  cli[c] = "purge" /\ pc[c] # "none" =>
    /\ Unread(c) = 1 => c2s[c][Len(c2s[c])] = "purge"
    /\ Unread(c) = 0 /\ pc[c] # "cmd" => cmd[c] = "purge"
    /\ Unread(c) = 0 /\ pc[c] = "cmd" => Clean(Box, c) \/ c \in refused

PurgeInv == \A c \in Clients : SparesNone(c) /\ Purging(c)

\* The steps of one connection leave what another's thread and client know of each
\* other alone.
LEMMA OthersAlone ==
  ASSUME TypeOK, NEW c \in Clients, NEW d \in Clients \ {c},
         Acquire(c) \/ ThreadStep(c) \/ ClientStep(c)
  PROVE  /\ UNCHANGED <<pc[d], cTel[d], cmd[d], msgs[d], c2s[d], cli[d]>>
         /\ d \in refused' <=> d \in refused
<1> USE DEF TypeOK, Goto, serverVars, clientVars
<1>1. CASE Acquire(c)
  BY <1>1 DEF Acquire
<1>2. CASE RecvTel(c) \/ RecvCmd(c) \/ RecvCmdFails(c)
  BY <1>2 DEF RecvTel, RecvCmd, RecvCmdFails, Dispatch
<1>3. CASE OpenFails(c) \/ EndOfFile(c)
  BY <1>3 DEF OpenFails, EndOfFile
<1>4. CASE ReadRecord(c)
  BY <1>4 DEF ReadRecord
<1>5. CASE Truncate(c) \/ TruncateFails(c) \/ WriteRecord(c) \/ Unlock(c)
  BY <1>5 DEF Truncate, TruncateFails, WriteRecord, Unlock
<1>6. CASE ClientStep(c)
  BY <1>6 DEF ClientStep, Connect, StartClient, Refuse, Choose, Leave, Put, Mistype, Receive,
              ReceiveFails, Kill
<1> QED
  BY <1>1, <1>2, <1>3, <1>4, <1>5, <1>6 DEF ThreadStep

LEMMA SparesStep ==
  ASSUME TypeOK, MutexHeld, [Next]_vars, NEW d \in Clients, SparesNone(d)
  PROVE  SparesNone(d)'
<1> USE DEF Goto, serverVars, clientVars
<1>0. /\ pc \in [Clients -> ThreadPCs] /\ owner \in Clients \cup {NoThread}
      /\ msgs \in [Clients -> SUBSET Messages] /\ cmd \in [Clients -> Commands]
  BY DEF TypeOK
<1>1. CASE UNCHANGED vars
  BY <1>1 DEF vars, SparesNone, Clean
<1>2. CASE Crash
  BY <1>2 DEF Crash, SparesNone
<1>3. ASSUME NEW c \in Clients \ {d}, Acquire(c) \/ ThreadStep(c) \/ ClientStep(c)
      PROVE  SparesNone(d)'
  <2>1. UNCHANGED <<pc[d], cTel[d], cmd[d], msgs[d]>> /\ (d \in refused' <=> d \in refused)
    BY <1>3, OthersAlone
  <2>2. pc[d] = "write" => file' = file
    <3>1. CASE Truncate(c) \/ WriteRecord(c)
      BY <1>0, <3>1 DEF Truncate, WriteRecord, MutexHeld, Critical
    <3>2. CASE ~(Truncate(c) \/ WriteRecord(c))
      BY <1>3, <3>2 DEF Acquire, ThreadStep, RecvTel, RecvCmd, RecvCmdFails, OpenFails,
         ReadRecord, EndOfFile, TruncateFails, Unlock, ClientStep, Connect, Refuse, Choose,
         Leave, Mistype, Receive, ReceiveFails, Kill
    <3> QED
      BY <3>1, <3>2
  <2> QED
    BY <2>1, <2>2 DEF SparesNone, Clean
<1>4. CASE ClientStep(d)
  <2>1. ASSUME NEW p \in Phones, Connect(d, p)
        PROVE  SparesNone(d)'
    BY <1>0, <2>1 DEF Connect, SparesNone
  <2>2. ASSUME UNCHANGED <<file, serverVars>>
        PROVE  SparesNone(d)'
    BY <2>2 DEF SparesNone, Clean
  <2> QED
    BY <1>4, <2>1, <2>2 DEF ClientStep, Refuse, Choose, Leave, Mistype, Receive, ReceiveFails, Kill
<1>5. CASE Acquire(d) \/ ThreadStep(d)
  <2>1. CASE RecvTel(d) \/ RecvCmd(d) \/ RecvCmdFails(d)
    BY <1>0, <2>1 DEF RecvTel, RecvCmd, RecvCmdFails, Dispatch, SparesNone
  <2>2. CASE Acquire(d)
    BY <1>0, <2>2 DEF Acquire, SparesNone, Clean
  <2>3. CASE OpenFails(d) \/ EndOfFile(d)
    BY <1>0, <2>3 DEF OpenFails, EndOfFile, AfterScan, SparesNone, Clean
  <2>4. CASE ReadRecord(d)
    <3>1. PICK m \in left[d] \ Malformed : ReadRecord(d)!2!(m)
      BY <2>4 DEF ReadRecord
    <3>2. UNCHANGED <<pc, cTel, cmd>> /\ pc[d] = "scan"
      BY <2>4 DEF ReadRecord
    <3>3. cmd[d] = "purge" => \A k \in msgs'[d] : k \in msgs[d] \/ From[k] # cTel[d]
      BY <1>0, <3>1 DEF Selects
    <3> QED
      BY <3>2, <3>3 DEF SparesNone, Clean
  <2>5. CASE Truncate(d) \/ TruncateFails(d)
    BY <1>0, <2>5 DEF Truncate, TruncateFails, SparesNone, Clean
  <2>6. CASE WriteRecord(d)
    <3>1. UNCHANGED <<pc, cTel, cmd>> /\ pc[d] = "write"
      BY <2>6 DEF WriteRecord
    <3>2. file' \cup msgs'[d] \subseteq file \cup msgs[d]
      BY <1>0, <2>6 DEF WriteRecord
    <3> QED
      BY <3>1, <3>2 DEF SparesNone, Clean
  <2>7. CASE Unlock(d)
    BY <1>0, <2>7 DEF Unlock, SparesNone
  <2> QED
    BY <1>5, <2>1, <2>2, <2>3, <2>4, <2>5, <2>6, <2>7 DEF ThreadStep
<1> QED
  BY <1>1, <1>2, <1>3, <1>4, <1>5 DEF Next

\* What does not concern the connection keeps what its client is owed.
LEMMA PurgingElsewhere ==
  ASSUME NEW d \in Clients, Purging(d), Box' \subseteq Box,
         UNCHANGED <<pc[d], cTel[d], cmd[d], c2s[d], cli[d]>>,
         d \in refused' <=> d \in refused
  PROVE  Purging(d)'
  BY DEF Purging, Unread, Clean

LEMMA PurgingReceives ==
  ASSUME TypeInv, NEW c \in Clients, SyncOf(c), Purging(c),
         RecvTel(c) \/ RecvCmd(c) \/ RecvCmdFails(c)
  PROVE  Purging(c)'
<1> USE LKAssumption DEF Goto, clientVars
<1>0. /\ TypeOK /\ c2s[c] \in Seq(Phones \cup Commands) /\ Len(c2s[c]) \in Nat
      /\ pc \in [Clients -> ThreadPCs] /\ cli' = cli
  BY DEF TypeInv, TypeOK, RecvTel, RecvCmd, RecvCmdFails
<1>1. CASE cli[c] # "purge"
  BY <1>0, <1>1 DEF Purging
<1>2. CASE cli[c] = "purge"
  <2>0. ~RecvCmdFails(c)
    BY <1>2 DEF RecvCmdFails
  <2>1. /\ c2s[c] # <<>> /\ c2s'[c] = Tail(c2s[c])
        /\ pc[c] = "tel" => RecvTel(c) /\ pc'[c] = "cmd"
        /\ pc[c] # "tel" => pc[c] = "cmd" /\ RecvCmd(c)
    BY <1>0, <1>2, <2>0 DEF RecvTel, RecvCmd, Dispatch, TypeOK
  <2>2. Len(c2s'[c]) = Len(c2s[c]) - 1 /\ Head(c2s[c]) = c2s[c][1] /\ Len(c2s[c]) >= 1
    BY <1>0, <2>1, TailElements
  <2>3. CASE pc[c] = "tel"
    <3>1. Unread(c) = 1
      BY <1>2, <2>3 DEF SyncOf, Receiving, Asked, Taken, Partly, Ended
    <3>2. Len(c2s[c]) = 2 /\ c2s[c][2] = "purge"
      BY <1>0, <1>2, <2>3, <3>1 DEF Unread, Purging
    <3>3. Len(c2s'[c]) = 1 /\ c2s'[c][1] = c2s[c][2]
      BY <1>0, <2>1, <2>2, <3>2, TailElements
    <3> QED
      BY <2>1, <2>3, <3>2, <3>3 DEF Purging, Unread
  <2>4. CASE pc[c] # "tel"
    <3>1. Unread(c) = Len(c2s[c]) /\ pc[c] = "cmd"
      BY <2>1, <2>4 DEF Unread
    <3>2. Unread(c) = 1
      BY <1>0, <1>2, <2>2, <3>1 DEF SyncOf, Receiving, Asked, Taken, Partly, Ended
    <3>3. Head(c2s[c]) = "purge"
      BY <1>2, <2>2, <3>1, <3>2 DEF Purging
    <3>4. cmd'[c] = "purge" /\ pc'[c] = "wait"
      BY <1>0, <2>1, <2>4, <3>3 DEF RecvCmd, Dispatch, TypeOK
    <3>5. Len(c2s'[c]) = 0
      BY <2>2, <3>1, <3>2
    <3> QED
      BY <3>4, <3>5 DEF Purging, Unread
  <2> QED
    BY <2>3, <2>4
<1> QED
  BY <1>1, <1>2

LEMMA PurgingWorks ==
  ASSUME TypeOK, MutexHeld, NEW c \in Clients, SparesNone(c), Purging(c),
         \/ Acquire(c) \/ OpenFails(c) \/ ReadRecord(c) \/ EndOfFile(c)
         \/ Truncate(c) \/ TruncateFails(c) \/ WriteRecord(c) \/ Unlock(c)
  PROVE  Purging(c)'
<1> USE LKAssumption DEF Goto, clientVars
<1>0. /\ pc \in [Clients -> ThreadPCs] /\ owner \in Clients \cup {NoThread}
  BY DEF TypeOK
<1>1. UNCHANGED <<cli, c2s, cmd, cTel>> /\ pc[c] \in Critical \cup {"wait"}
  BY DEF Acquire, OpenFails, ReadRecord, EndOfFile, Truncate, TruncateFails, WriteRecord, Unlock,
         Critical
<1>2. CASE Unlock(c)
  <2>1. pc'[c] = "cmd" /\ (pc[c] = "write" \/ pc[c] = "unlock") /\ file' = file
    BY <1>0, <1>2 DEF Unlock
  <2>2. Unread(c)' = Unread(c)
    BY <1>1, <2>1 DEF Unread
  <2>3. \A d \in Clients : pc'[d] # "write"
    BY <1>0, <1>1, <1>2, <2>1 DEF Unlock, MutexHeld, Critical
  <2>4. Box' = file
    BY <2>1, <2>3 DEF Box, Rewritten
  <2>5. cmd[c] = "purge" => pc[c] = "write" \/ c \in refused'
    BY <1>2, <2>1 DEF Unlock, SparesNone
  <2>6. pc[c] = "write" => Clean(Box, c)'
    BY <1>1, <2>4 DEF SparesNone, Clean
  <2> QED
    BY <1>1, <2>1, <2>2, <2>5, <2>6 DEF Purging
<1>3. CASE ~Unlock(c)
  <2>1. pc'[c] \in Critical
    BY <1>0, <1>3 DEF Acquire, OpenFails, ReadRecord, EndOfFile, AfterScan, Truncate,
       TruncateFails, WriteRecord, Critical
  <2>2. Unread(c)' = Unread(c)
    BY <1>1, <2>1 DEF Unread, Critical
  <2> QED
    BY <1>1, <2>1, <2>2 DEF Purging, Critical
<1> QED
  BY <1>2, <1>3

LEMMA PurgingClient ==
  ASSUME TypeInv, NEW c \in Clients, SyncOf(c), Purging(c), Box' \subseteq Box, ClientStep(c)
  PROVE  Purging(c)'
<1> USE DEF Receiving, serverVars
<1>0. /\ TypeOK /\ c2s \in [Clients -> Seq(Phones \cup Commands)] /\ c2s[c] \in Seq(Phones \cup Commands)
      /\ Len(c2s[c]) \in Nat /\ cli \in [Clients -> ClientPCs]
  BY DEF TypeInv, TypeOK
<1>1. CASE Choose(c, "purge")
  <2>1. cli[c] = "menu" /\ UNCHANGED <<pc, cTel, cmd>>
    BY <1>1 DEF Choose
  <2>2. CASE pc[c] = "none"
    BY <2>1, <2>2 DEF Purging
  <2>3. CASE pc[c] # "none"
    <3>1. c2s'[c] = Append(c2s[c], "purge") /\ "purge" \in Phones \cup Commands
      BY <1>0, <1>1, <2>3 DEF Choose, Put, Commands
    <3>2. Len(c2s'[c]) = Len(c2s[c]) + 1 /\ c2s'[c][Len(c2s'[c])] = "purge"
      BY <1>0, <3>1, AppendElements
    <3>3. Unread(c) = 0
      BY <2>1, <2>3 DEF SyncOf, Idle
    <3>4. Unread(c)' = 1
      BY <1>0, <2>1, <3>2, <3>3 DEF Unread
    <3> QED
      BY <3>2, <3>4 DEF Purging
  <2> QED
    BY <2>2, <2>3
<1>2. CASE Receive(c)
  <2>1. UNCHANGED <<pc, cTel, cmd, c2s, refused>> /\ (cli'[c] = cli[c] \/ cli'[c] = "menu")
    BY <1>0, <1>2 DEF Receive
  <2> QED
    BY <2>1, PurgingElsewhere DEF Purging
<1>3. CASE ~Choose(c, "purge") /\ ~Receive(c)
  <2>1. cli'[c] # "purge"
    BY <1>0, <1>3 DEF ClientStep, Connect, StartClient, Refuse, Choose, Leave, Mistype,
                      ReceiveFails, Kill
  <2> QED
    BY <2>1 DEF Purging
<1> QED
  BY <1>1, <1>2, <1>3

LEMMA PurgeInvStep ==
  TypeInv /\ MutexHeld /\ Copies /\ SyncInv /\ PurgeInv /\ [Next]_vars => PurgeInv'
<1> SUFFICES ASSUME TypeInv, MutexHeld, Copies, SyncInv, PurgeInv, [Next]_vars, NEW d \in Clients
             PROVE  SparesNone(d)' /\ Purging(d)'
  BY DEF PurgeInv
<1>0. TypeOK /\ SyncOf(d) /\ SparesNone(d) /\ Purging(d) /\ Box' \subseteq Box
  BY BoxShrinks DEF TypeInv, SyncInv, PurgeInv
<1>1. SparesNone(d)'
  BY <1>0, SparesStep
<1>2. CASE UNCHANGED vars
  BY <1>0, <1>1, <1>2, PurgingElsewhere DEF vars, serverVars, clientVars
<1>3. CASE Crash
  BY <1>1, <1>3 DEF Crash, Purging
<1>4. ASSUME NEW c \in Clients \ {d}, Acquire(c) \/ ThreadStep(c) \/ ClientStep(c)
      PROVE  Purging(d)'
  <2>1. UNCHANGED <<pc[d], cTel[d], cmd[d], c2s[d], cli[d]>> /\ (d \in refused' <=> d \in refused)
    BY <1>0, <1>4, OthersAlone
  <2> QED
    BY <1>0, <2>1, PurgingElsewhere
<1>5. CASE Acquire(d) \/ ThreadStep(d)
  BY <1>0, <1>1, <1>5, PurgingReceives, PurgingWorks DEF ThreadStep
<1>6. CASE ClientStep(d)
  BY <1>0, <1>1, <1>6, PurgingClient
<1> QED
  BY <1>1, <1>2, <1>3, <1>4, <1>5, <1>6 DEF Next

\* The client that reads "!end" after a purge: its thread still has the mutex, or
\* the purge has taken effect, or its rewrite could not open the file.
LEMMA SettledStep ==
  ASSUME TypeInv, MutexHeld, Copies, SyncInv, PurgeInv, [Next]_vars, NEW c \in Clients,
         ToldDeleted(c)
  PROVE  owner' = c \/ AllGone(c) \/ c \in refused'
<1> USE DEF ToldDeleted, AllGone, serverVars, clientVars
<1>0. /\ TypeOK /\ SyncOf(c) /\ Purging(c) /\ Box' \subseteq Box
      /\ s2c[c] \in Seq(Messages \cup {End}) /\ Len(s2c[c]) \in Nat
  BY BoxShrinks DEF TypeInv, TypeOK, SyncInv, PurgeInv
<1>1. ~Crash /\ vars' # vars
  BY DEF Crash, vars
<1>2. PICK d \in Clients : Acquire(d) \/ ThreadStep(d) \/ ClientStep(d)
  BY <1>1 DEF Next
<1>3. d = c
  BY <1>0, <1>2, OthersAlone
<1>4. ClientStep(c)
  BY <1>2, <1>3 DEF Acquire, ThreadStep, RecvTel, RecvCmd, RecvCmdFails, OpenFails, ReadRecord,
     EndOfFile, Truncate, TruncateFails, WriteRecord, Unlock
<1>5. Receive(c)
  BY <1>0, <1>4 DEF ClientStep, Connect, StartClient, Refuse, Choose, Leave, Mistype, ReceiveFails,
     Kill, TypeOK
<1>6. s2c[c] # <<>> /\ Head(s2c[c]) = End /\ owner' = owner
  BY <1>0, <1>5 DEF Receive, TypeOK
<1>7. End \in Frames(s2c[c])
  BY <1>0, <1>6, FramesTail
<1>8. Ended(c)
  BY <1>0, <1>6, <1>7 DEF SyncOf, Receiving, Asked, Taken, Partly
<1>9. pc[c] \in Critical \/ pc[c] = "cmd"
  BY <1>0, <1>8 DEF Ended, TypeOK, ThreadPCs, Critical
<1>10. CASE pc[c] \in Critical
  BY <1>6, <1>10 DEF MutexHeld
<1>11. CASE pc[c] = "cmd"
  BY <1>0, <1>5, <1>8, <1>11 DEF Receive, Purging, Ended, Clean
<1> QED
  BY <1>9, <1>10, <1>11

\* A client of a live server is told that its mail has been deleted only when all
\* mail its phone wrote is gone, or while the thread still keeps everybody from
\* looking, or, falsely, when the rewrite could not open the file; no crash, no
\* scan that breaks off and no failure to read is another way to be told wrongly.
THEOREM PurgesSettle == Spec => PurgeSettled
<1>1. Init => PurgeInv /\ Copies /\ SyncInv
  BY DEF Init, PurgeInv, SparesNone, Purging, Copies, SyncInv, SyncOf
<1>2. TypeInv /\ MutexHeld /\ Copies /\ SyncInv /\ PurgeInv /\ [Next]_vars
        => [\A c \in Clients : ToldDeleted(c) => owner' = c \/ AllGone(c) \/ c \in refused']_vars
  BY SettledStep
<1>3. TypeInv => TypeOK
  BY DEF TypeInv
<1>4. Spec => []TypeInv
  BY InitType, StepType, PTL DEF Spec
<1>5. Spec => [](TypeInv /\ MutexHeld /\ Copies /\ SyncInv /\ PurgeInv)
  BY <1>1, <1>3, <1>4, CopiesStep, SyncStep, PurgeInvStep, MutualExclusion, PTL DEF Spec
<1>6. Spec => [][\A c \in Clients :
                   ToldDeleted(c) => owner' = c \/ AllGone(c) \/ c \in refused']_vars
  BY <1>2, <1>5, PTL DEF Spec
<1> QED
  BY <1>6 DEF PurgeSettled

-----------------------------------------------------------------------------
(***************************************************************************)
(* LKPostServer implements the atomic mail store of Mailbox, when neither  *)
(* process nor file fails and every record fits its buffer; threads may    *)
(* fail to be created.  View takes effect when its scan ends, purge when   *)
(* the file is truncated.                                                  *)
(***************************************************************************)
NoFaults == {"crash", "open", "rewrite"} \cap Faults = {} /\ Malformed = {}

Chosen(c, S) == {m \in S : Selects(c, m)}
Others(c, S) == {m \in S : ~Selects(c, m)}

\* How far the command of thread c has come: what was sent and collected is
\* what the command selects and spares in the part of the file already read.
ScanOf(c) ==
  /\ pc[c] = "tel" => sent[c] = {}
  /\ pc[c] \in {"wait", "scan"} => cmd[c] \in {"view", "purge"}
  /\ pc[c] \in {"trunc", "write"} => cmd[c] = "purge"
  /\ pc[c] = "scan" =>
       /\ left[c] \subseteq file
       /\ sent[c] = Chosen(c, file \ left[c])
       /\ cmd[c] = "purge" => msgs[c] = Others(c, file \ left[c])
  /\ pc[c] = "trunc" => sent[c] = Chosen(c, file) /\ msgs[c] = Others(c, file)

ScanInv == \A c \in Clients : ScanOf(c)

LEMMA ScanElsewhere ==
  ASSUME NEW d \in Clients, ScanOf(d),
         pc'[d] = pc[d], cTel'[d] = cTel[d], cmd'[d] = cmd[d], left'[d] = left[d],
         msgs'[d] = msgs[d], sent'[d] = sent[d],
         pc[d] \in {"scan", "trunc"} => file' = file
  PROVE  ScanOf(d)'
  BY DEF ScanOf, Chosen, Others, Selects

\* A thread's own steps keep its books.
LEMMA ScanOwn ==
  ASSUME NoFaults, TypeOK, NEW c \in Clients, ScanOf(c), Acquire(c) \/ ThreadStep(c)
  PROVE  ScanOf(c)'
<1> USE DEF Goto, Chosen, Others, Selects, clientVars
<1>1. CASE Acquire(c)
  BY <1>1 DEF TypeOK, Acquire, ScanOf
<1>2. CASE RecvTel(c)
  BY <1>2 DEF TypeOK, RecvTel, ScanOf
<1>3. CASE RecvCmd(c)
  BY <1>3 DEF TypeOK, RecvCmd, Dispatch, ScanOf
<1>4. CASE RecvCmdFails(c)
  BY <1>4 DEF TypeOK, RecvCmdFails, Dispatch, ScanOf
<1>5. CASE OpenFails(c)
  BY <1>5 DEF OpenFails, NoFaults
<1>6. CASE ReadRecord(c)
  <2>1. PICK m \in left[c] \ Malformed : ReadRecord(c)!2!(m)
    BY <1>6 DEF ReadRecord
  <2>2. pc[c] = "scan" /\ UNCHANGED <<file, pc, cTel, cmd>>
    BY <1>6 DEF ReadRecord
  <2>3. left'[c] = left[c] \ {m}
    BY <2>1 DEF TypeOK
  <2>4. m \in file /\ file \ left'[c] = (file \ left[c]) \cup {m}
    BY <2>1, <2>2, <2>3 DEF ScanOf
  <2>5. sent'[c] = IF Selects(c, m) THEN sent[c] \cup {m} ELSE sent[c]
    BY <2>1 DEF TypeOK
  <2>6. cmd[c] = "purge" => msgs'[c] = IF Selects(c, m) THEN msgs[c] ELSE msgs[c] \cup {m}
    BY <2>1 DEF TypeOK
  <2>7. sent'[c] = Chosen(c, file \ left'[c])
    BY <2>2, <2>4, <2>5 DEF ScanOf
  <2>8. cmd[c] = "purge" => msgs'[c] = Others(c, file \ left'[c])
    BY <2>2, <2>4, <2>6 DEF ScanOf
  <2> QED
    BY <2>2, <2>3, <2>7, <2>8 DEF ScanOf
<1>7. CASE EndOfFile(c)
  <2>1. left[c] = {} /\ pc[c] = "scan" /\ pc'[c] = AfterScan(c)
    BY <1>7 DEF EndOfFile, AtEnd, NoFaults, TypeOK
  <2>2. UNCHANGED <<file, cTel, cmd, left, msgs, sent>>
    BY <1>7 DEF EndOfFile
  <2>3. file \ left[c] = file
    BY <2>1
  <2> QED
    BY <2>1, <2>2, <2>3 DEF ScanOf, AfterScan
<1>8. CASE Truncate(c)
  BY <1>8 DEF TypeOK, Truncate, ScanOf
<1>8a. ~TruncateFails(c)
  BY DEF TruncateFails, NoFaults
<1>9. CASE WriteRecord(c)
  BY <1>9 DEF TypeOK, WriteRecord, ScanOf
<1>10. CASE Unlock(c)
  BY <1>10 DEF TypeOK, Unlock, ScanOf
<1> QED
  BY <1>1, <1>2, <1>3, <1>4, <1>5, <1>6, <1>7, <1>8, <1>8a, <1>9, <1>10 DEF ThreadStep

LEMMA ScanStep ==
  ASSUME NoFaults, TypeOK, MutexHeld, ScanInv, [Next]_vars
  PROVE  ScanInv'
<1> SUFFICES ASSUME NEW d \in Clients PROVE ScanOf(d)'
  BY DEF ScanInv
<1>0. ScanOf(d)
  BY DEF ScanInv
<1>1. CASE UNCHANGED <<file, serverVars>>
  BY <1>0, <1>1, ScanElsewhere DEF serverVars
<1>2. CASE Crash
  BY <1>2 DEF Crash, NoFaults
<1>3. ASSUME NEW c \in Clients, ClientStep(c)
      PROVE  ScanOf(d)'
  <2>1. ASSUME NEW p \in Phones, Connect(c, p)
        PROVE  ScanOf(d)'
    <3>1. CASE c = d
      BY <2>1, <3>1 DEF Connect, Goto, TypeOK, ScanOf
    <3>2. CASE c # d
      BY <1>0, <2>1, <3>2, ScanElsewhere DEF Connect, Goto, TypeOK
    <3> QED
      BY <3>1, <3>2
  <2> QED
    BY <1>1, <1>3, <2>1 DEF ClientStep, Refuse, Choose, Leave, Mistype, Receive,
       ReceiveFails, Kill
<1>4. ASSUME NEW c \in Clients, c # d, Acquire(c) \/ ThreadStep(c)
      PROVE  ScanOf(d)'
  <2>1. /\ pc'[d] = pc[d] /\ cTel'[d] = cTel[d] /\ cmd'[d] = cmd[d]
        /\ left'[d] = left[d] /\ msgs'[d] = msgs[d] /\ sent'[d] = sent[d]
    BY <1>4 DEF TypeOK, Acquire, ThreadStep, RecvTel, RecvCmd, RecvCmdFails, Dispatch, Goto,
       OpenFails, ReadRecord, EndOfFile, Truncate, TruncateFails, WriteRecord, Unlock
  <2>2. pc[d] \in {"scan", "trunc"} => file' = file
    BY <1>4 DEF MutexHeld, Critical, Acquire, ThreadStep, RecvTel, RecvCmd, RecvCmdFails,
       OpenFails, ReadRecord, EndOfFile, Truncate, TruncateFails, WriteRecord, Unlock, Goto
  <2> QED
    BY <1>0, <2>1, <2>2, ScanElsewhere
<1>5. CASE Acquire(d) \/ ThreadStep(d)
  BY <1>0, <1>5, ScanOwn
<1> QED
  BY <1>1, <1>2, <1>3, <1>4, <1>5 DEF Next, vars

-----------------------------------------------------------------------------
LEMMA BoxSame ==
  ASSUME file' = file,
         \A d \in Clients : pc'[d] = "write" <=> pc[d] = "write",
         \A d \in Clients : pc[d] = "write" => msgs'[d] = msgs[d]
  PROVE  Box' = Box
<1> DEFINE W == {d \in Clients : pc[d] = "write"}
<1>1. W' = W
  OBVIOUS
<1>2. \A d \in W : msgs'[d] = msgs[d]
  OBVIOUS
<1>3. Rewritten' = Rewritten
  BY <1>1, <1>2 DEF Rewritten
<1> QED
  BY <1>3 DEF Box

\* The owner of the mutex sees all the mail in the file until it truncates it.
LEMMA BoxOfOwner ==
  ASSUME MutexHeld, NEW c \in Clients, pc[c] \in Critical, pc[c] # "write"
  PROVE  Box = file
<1>1. \A d \in Clients : pc[d] # "write"
  BY DEF MutexHeld, Critical
<1> QED
  BY <1>1 DEF Box, Rewritten

LEMMA StatusOf ==
  \A c \in Clients :
    /\ Asking[c] = IF pc[c] \in Working THEN cmd[c] ELSE "none"
    /\ Answer[c] = IF pc[c] \in Working THEN {} ELSE sent[c]
  BY DEF Asking, Answer

\* An action of connection c changes the status of c alone.
LEMMA StatusElsewhere ==
  ASSUME NEW c \in Clients,
         \A d \in Clients \ {c} : pc'[d] = pc[d] /\ sent'[d] = sent[d] /\ cmd'[d] = cmd[d]
  PROVE  /\ Asking' = [Asking EXCEPT ![c] = IF pc'[c] \in Working THEN cmd'[c] ELSE "none"]
         /\ Answer' = [Answer EXCEPT ![c] = IF pc'[c] \in Working THEN {} ELSE sent'[c]]
  BY DEF Asking, Answer

LEMMA StatusSame ==
  ASSUME \A d \in Clients :
           \/ pc'[d] = pc[d] /\ sent'[d] = sent[d] /\ cmd'[d] = cmd[d]
           \/ pc[d] \in Working /\ pc'[d] \in Working /\ cmd'[d] = cmd[d]
           \/ pc[d] \notin Working /\ pc'[d] \notin Working /\ sent'[d] = sent[d]
  PROVE  Asking' = Asking /\ Answer' = Answer
  BY DEF Asking, Answer

\* The steps the mail store does not notice.
LEMMA Stutter ==
  ASSUME TypeOK, NEW c \in Clients,
         \/ (RecvTel(c) /\ UNCHANGED cTel)
         \/ (RecvCmd(c) \/ RecvCmdFails(c)) /\ pc'[c] = "none"
         \/ Acquire(c) \/ ReadRecord(c) \/ (EndOfFile(c) /\ cmd[c] # "view")
         \/ WriteRecord(c) \/ Unlock(c)
         \/ UNCHANGED <<file, serverVars>>
  PROVE  UNCHANGED Store!mailVars
<1> USE DEF Goto, clientVars, serverVars
<1>1. UNCHANGED cTel
  BY DEF RecvCmd, RecvCmdFails, Acquire, ReadRecord, EndOfFile, WriteRecord, Unlock
<1>2. Asking' = Asking /\ Answer' = Answer
  BY StatusSame
  DEF Working, TypeOK, RecvTel, RecvCmd, RecvCmdFails, Dispatch, Acquire, ReadRecord, EndOfFile,
      AfterScan, WriteRecord, Unlock
<1>3. CASE WriteRecord(c)
  <2>1. PICK m \in msgs[c] : file' = file \cup {m} /\ msgs' = [msgs EXCEPT ![c] = @ \ {m}]
    BY <1>3 DEF WriteRecord
  <2>2. pc[c] = "write" /\ pc' = pc
    BY <1>3 DEF WriteRecord
  <2>3. /\ msgs'[c] = msgs[c] \ {m}
        /\ \A d \in Clients \ {c} : msgs'[d] = msgs[d]
    BY <2>1 DEF TypeOK
  <2>4. Rewritten' \cup {m} = Rewritten \cup {m} /\ m \in Rewritten
    BY <2>1, <2>2, <2>3 DEF Rewritten
  <2>5. Box' = Box
    BY <2>1, <2>4 DEF Box
  <2> QED
    BY <1>1, <1>2, <2>5 DEF Store!mailVars
<1>4. CASE Unlock(c)
  <2>1. /\ file' = file /\ pc' = [pc EXCEPT ![c] = "cmd"] /\ msgs' = [msgs EXCEPT ![c] = {}]
        /\ pc[c] = "write" => msgs[c] = {}
    BY <1>4 DEF Unlock
  <2>2. Rewritten' = Rewritten
    BY <2>1 DEF TypeOK, Rewritten
  <2> QED
    BY <1>1, <1>2, <2>1, <2>2 DEF Box, Store!mailVars
<1>5. CASE ~WriteRecord(c) /\ ~Unlock(c)
  <2>1. Box' = Box
    BY <1>5, BoxSame
    DEF TypeOK, RecvTel, RecvCmd, RecvCmdFails, Dispatch, Acquire, ReadRecord, EndOfFile, AfterScan
  <2> QED
    BY <1>1, <1>2, <2>1 DEF Store!mailVars
<1> QED
  BY <1>3, <1>4, <1>5

\* A new connection has no name; a thread learns the phone it works for.
LEMMA HelloStep ==
  ASSUME TypeOK, NEW c \in Clients, ScanOf(c),
         (\E p \in Phones : Connect(c, p)) \/ (RecvTel(c) /\ c2s[c] # <<>>),
         cTel'[c] \in Phones \cup {NoPhone}
  PROVE  Store!Hello(c)
<1> USE DEF Goto
<1>1. /\ cTel' = [cTel EXCEPT ![c] = cTel'[c]]
      /\ pc' = [pc EXCEPT ![c] = pc'[c]] /\ pc'[c] \in {"tel", "cmd"}
      /\ sent'[c] = {} /\ \A d \in Clients \ {c} : sent'[d] = sent[d] /\ cmd'[d] = cmd[d]
  BY DEF TypeOK, Connect, RecvTel, ScanOf
<1>2. pc[c] \in {"none", "tel"} /\ Asking[c] = "none"
  <2>1. pc[c] \in {"none", "tel"}
    BY DEF Connect, RecvTel
  <2> QED
    BY <2>1, StatusOf DEF Working
<1>4. Answer' = [Answer EXCEPT ![c] = {}] /\ Asking' = [Asking EXCEPT ![c] = "none"]
  BY <1>1, StatusElsewhere DEF Working, TypeOK
<1>5. Asking' = Asking
  BY <1>2, <1>4 DEF Asking
<1>3. Box' = Box
  BY <1>1, BoxSame DEF TypeOK, Connect, RecvTel
<1> QED
  BY <1>1, <1>2, <1>3, <1>4, <1>5 DEF Store!Hello

LEMMA AskStep ==
  ASSUME TypeOK, NEW c \in Clients, RecvCmd(c) \/ RecvCmdFails(c), pc'[c] # "none"
  PROVE  Store!Ask(c)
<1> USE DEF Goto
<1>1. /\ pc[c] = "cmd" /\ pc'[c] = "wait" /\ pc' = [pc EXCEPT ![c] = pc'[c]]
      /\ cmd'[c] \in {"view", "purge"} /\ \A d \in Clients \ {c} : cmd'[d] = cmd[d]
      /\ UNCHANGED <<file, cTel, msgs, sent>>
  BY DEF TypeOK, RecvCmd, RecvCmdFails, Dispatch
<1>2. Answer' = [Answer EXCEPT ![c] = {}] /\ Asking' = [Asking EXCEPT ![c] = cmd'[c]]
  BY <1>1, StatusElsewhere DEF Working, TypeOK
<1>4. Asking[c] = "none"
  BY <1>1, StatusOf DEF Working
<1>3. Box' = Box
  BY <1>1, BoxSame DEF TypeOK
<1> QED
  BY <1>1, <1>2, <1>3, <1>4 DEF Store!Ask

\* A view takes effect when the end of the file is reached.
LEMMA ViewStep ==
  ASSUME NoFaults, TypeOK, MutexHeld, NEW c \in Clients, ScanOf(c), EndOfFile(c), cmd[c] = "view"
  PROVE  Store!View(c)
<1> USE DEF Goto
<1>1. /\ left[c] = {} /\ pc[c] = "scan" /\ pc'[c] = "unlock" /\ pc' = [pc EXCEPT ![c] = pc'[c]]
      /\ UNCHANGED <<file, cTel, cmd, msgs, sent>>
  BY DEF TypeOK, EndOfFile, AtEnd, AfterScan, NoFaults
<1>2. Asking[c] = "view"
  BY <1>1, StatusOf DEF Working
<1>3. Box = file
  BY <1>1, BoxOfOwner DEF Critical
<1>4. sent[c] = {m \in Box : IsTo(m, cTel[c])}
  <2>1. sent[c] = Chosen(c, file)
    BY <1>1 DEF ScanOf, Chosen
  <2> QED
    BY <1>3, <2>1 DEF Chosen, Selects, IsTo
<1>5. Answer' = [Answer EXCEPT ![c] = sent[c]] /\ Asking' = [Asking EXCEPT ![c] = "none"]
  BY <1>1, StatusElsewhere DEF Working, TypeOK
<1>6. Box' = Box
  BY <1>1, BoxSame DEF TypeOK
<1> QED
  BY <1>1, <1>2, <1>4, <1>5, <1>6 DEF Store!View, Store!CarryOut

\* A purge takes effect when the file is truncated.
LEMMA PurgeStep ==
  ASSUME TypeOK, MutexHeld, NEW c \in Clients, ScanOf(c), Truncate(c)
  PROVE  Store!Purge(c)
<1> USE DEF Goto
<1>1. /\ pc[c] = "trunc" /\ pc'[c] = "write" /\ pc' = [pc EXCEPT ![c] = "write"]
      /\ file' = {} /\ UNCHANGED <<cTel, cmd, msgs, sent>>
  BY DEF TypeOK, Truncate
<1>2. Asking[c] = "purge"
  BY <1>1, StatusOf DEF Working, ScanOf
<1>3. Box = file
  BY <1>1, BoxOfOwner DEF Critical
<1>4. cmd[c] = "purge" /\ sent[c] = Chosen(c, file) /\ msgs[c] = Others(c, file)
  BY <1>1 DEF ScanOf
<1>5. sent[c] = {m \in Box : IsBy(m, cTel[c])} /\ msgs[c] = {m \in Box : ~IsBy(m, cTel[c])}
  BY <1>3, <1>4 DEF Chosen, Others, Selects, IsBy
<1>6. Answer' = [Answer EXCEPT ![c] = sent[c]] /\ Asking' = [Asking EXCEPT ![c] = "none"]
  BY <1>1, StatusElsewhere DEF Working, TypeOK
<1>7. Box' = msgs[c]
  <2>1. \A d \in Clients : pc'[d] = "write" <=> d = c
    BY <1>1 DEF TypeOK, MutexHeld, Critical
  <2> QED
    BY <1>1, <2>1 DEF Box, Rewritten
<1>8. Store!CarryOut(c, "purge", {m \in Box : IsBy(m, cTel[c])})
  BY <1>1, <1>2, <1>5, <1>6 DEF Store!CarryOut
<1>9. Box' = {m \in Box : ~IsBy(m, cTel[c])}
  BY <1>5, <1>7
<1> QED
  BY <1>8, <1>9 DEF Store!Purge

LEMMA MailStep ==
  ASSUME NoFaults, TypeOK, TypeOK', MutexHeld, ScanInv, [Next]_vars
  PROVE  [Store!MailNext]_(Store!mailVars)
<1>1. CASE UNCHANGED vars
  BY <1>1, BoxSame, StatusSame DEF vars, serverVars, Store!mailVars
<1>2. CASE Crash
  BY <1>2 DEF Crash, NoFaults
<1>3. ASSUME NEW c \in Clients, Acquire(c) \/ ThreadStep(c) \/ ClientStep(c)
      PROVE  [Store!MailNext]_(Store!mailVars)
  <2>0. ScanOf(c) /\ cTel'[c] \in Phones \cup {NoPhone}
    BY DEF ScanInv, TypeOK
  <2>1. CASE \/ (RecvTel(c) /\ UNCHANGED cTel)
             \/ (RecvCmd(c) \/ RecvCmdFails(c)) /\ pc'[c] = "none"
             \/ Acquire(c) \/ ReadRecord(c) \/ (EndOfFile(c) /\ cmd[c] # "view")
             \/ WriteRecord(c) \/ Unlock(c)
             \/ UNCHANGED <<file, serverVars>>
    BY <2>1, Stutter
  <2>2. CASE (\E p \in Phones : Connect(c, p)) \/ (RecvTel(c) /\ c2s[c] # <<>>)
    BY <2>0, <2>2, HelloStep DEF Store!MailNext
  <2>3. CASE (RecvCmd(c) \/ RecvCmdFails(c)) /\ pc'[c] # "none"
    BY <2>3, AskStep DEF Store!MailNext
  <2>4. CASE EndOfFile(c) /\ cmd[c] = "view"
    <3>1. Store!View(c)
      BY <2>0, <2>4, ViewStep
    <3> QED
      BY <3>1 DEF Store!MailNext
  <2>5. CASE Truncate(c)
    <3>1. Store!Purge(c)
      BY <2>0, <2>5, PurgeStep
    <3> QED
      BY <3>1 DEF Store!MailNext
  <2>6. ~OpenFails(c) /\ ~TruncateFails(c)
    BY DEF OpenFails, TruncateFails, NoFaults
  <2>7. RecvTel(c) => c2s[c] # <<>> \/ UNCHANGED cTel
    BY DEF RecvTel
  <2>8. CASE ClientStep(c) /\ ~(\E p \in Phones : Connect(c, p))
    BY <2>1, <2>8 DEF ClientStep, Refuse, Choose, Leave, Mistype, Receive, ReceiveFails, Kill
  <2>9. CASE ThreadStep(c)
    <3>1. CASE RecvTel(c)
      BY <2>1, <2>2, <2>7, <3>1
    <3>2. CASE RecvCmd(c) \/ RecvCmdFails(c)
      BY <2>1, <2>3, <3>2
    <3>3. CASE EndOfFile(c)
      BY <2>1, <2>4, <3>3
    <3>4. CASE ReadRecord(c) \/ WriteRecord(c) \/ Unlock(c)
      BY <2>1, <3>4
    <3> QED
      BY <2>5, <2>6, <2>9, <3>1, <3>2, <3>3, <3>4 DEF ThreadStep
  <2> QED
    BY <1>3, <2>1, <2>2, <2>8, <2>9
<1> QED
  BY <1>1, <1>2, <1>3 DEF Next

LEMMA MailStart == Init => Store!MailInit
  BY LKAssumption DEF Init, Box, Rewritten, Asking, Answer, Working, Store!MailInit

\* Scans and rewrites of messages.txt by any number of threads are atomic
\* operations of one mail store, as long as the process and the file do not fail;
\* threads may.
THEOREM Implements == ASSUME NoFaults PROVE Spec => Atomic
<1>1. Init => ScanInv
  BY DEF Init, ScanInv, ScanOf
<1>2. TypeOK /\ MutexHeld /\ ScanInv /\ [Next]_vars => ScanInv'
  BY NoFaults, ScanStep
<1>3. Spec => [](TypeOK /\ MutexHeld /\ ScanInv)
  BY <1>1, <1>2, TypeCorrect, MutualExclusion, PTL DEF Spec
<1>4. TypeOK /\ TypeOK' /\ MutexHeld /\ ScanInv /\ [Next]_vars
        => [Store!MailNext]_(Store!mailVars)
  BY NoFaults, MailStep
<1>5. Spec => Store!MailSpec
  BY <1>3, <1>4, MailStart, PTL DEF Spec, Store!MailSpec
<1> QED
  BY <1>5 DEF Atomic

=============================================================================
