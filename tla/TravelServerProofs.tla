------------------------- MODULE TravelServerProofs -------------------------
(***************************************************************************)
(* Proofs about TravelServer: client and thread take turns, and as long as *)
(* no two threads have met over the vector, the answer of each thread is   *)
(* made of the document that it read.                                      *)
(***************************************************************************)
EXTENDS TravelServer, TLAPS

Busy == {"read", "clear", "assign", "check", "at", "send"}

\* A connection carries one request, is served, or carries one answer.
TurnsOf(c) ==
  /\ Len(c2s[c]) + Len(s2c[c]) <= 1
  /\ pc[c] \in Busy => c2s[c] = <<>> /\ s2c[c] = <<>>
  /\ pc[c] = "none" => c2s[c] = <<>>
  /\ cli[c] \notin {"wait", "killed"} =>
       c2s[c] = <<>> /\ s2c[c] = <<>> /\ (pc[c] \in Busy => main = "pause")
  /\ cli[c] = "killed" => s2c[c] = <<>>

\* Without sockets nothing is sent, without a process nothing is served.
GoneInv ==
  /\ Down => \A c \in Clients : c2s[c] = <<>>
  /\ main = "ended" => \A c \in Clients : pc[c] = "none"

TypeInv ==
  /\ TypeOK
  /\ c2s \in [Clients -> Seq(Costs)]
  /\ s2c \in [Clients -> Seq(Seq(Nat))]
  /\ \A c \in Clients : TurnsOf(c)
  /\ GoneInv

LEMMA TailType ==
  ASSUME NEW S, NEW s \in Seq(S), s # <<>>
  PROVE  Tail(s) \in Seq(S) /\ Len(Tail(s)) = Len(s) - 1 /\ Head(s) \in S /\ Len(s) \in Nat \ {0}
  OBVIOUS

LEMMA AppendType ==
  ASSUME NEW S, NEW s \in Seq(S), NEW x \in S
  PROVE  Append(s, x) \in Seq(S) /\ Len(Append(s, x)) = Len(s) + 1 /\ Len(s) \in Nat
  OBVIOUS

LEMMA EmptyType ==
  ASSUME NEW S, NEW s \in Seq(S), Len(s) = 0
  PROVE  s = <<>>
  OBVIOUS

LEMMA LoadedType ==
  ASSUME TypeOK, NEW old \in Vectors
  PROVE  Loaded(old) \in Vectors
  BY TravelAssumption DEF TypeOK, Loaded, Vectors

\* The parts of the state the steps of a thread's own loop leave alone.
LEMMA LoopType ==
  ASSUME TypeInv, NEW c \in Clients,
         ReadDocument(c) \/ Clear(c) \/ Assign(c) \/ Check(c) \/ At(c)
  PROVE  TypeInv'
<1> USE DEF Goto, mainVars, threadVars
<1>1. /\ UNCHANGED <<doc, main, created, cost, c2s, s2c, cli>>
      /\ pc' = [pc EXCEPT ![c] = pc'[c]] /\ pc[c] \in Busy /\ pc'[c] \in Busy
      /\ pc \in [Clients -> ThreadPCs]
  BY DEF ReadDocument, Clear, Assign, Check, At, Busy, TypeInv, TypeOK
<1>2. \A d \in Clients : TurnsOf(d)'
  BY <1>1 DEF TypeInv, TurnsOf, Busy
<1>3. pc' \in [Clients -> ThreadPCs] /\ GoneInv'
  <2>1. GoneInv /\ main # "ended"
    BY <1>1 DEF TypeInv, GoneInv, Busy
  <2> QED
    BY <1>1, <2>1 DEF Busy, ThreadPCs, GoneInv, Down
<1>4. CASE ReadDocument(c)
  <2>1. temp' = [temp EXCEPT ![c] = Loaded(v)] /\ Loaded(v) \in Vectors
    BY <1>4, LoadedType DEF ReadDocument, TypeInv, TypeOK
  <2>2. next' \in [Clients -> Nat \ {0}] /\ temp' \in [Clients -> Vectors] /\ raced' \in BOOLEAN
    BY <1>4, <2>1 DEF ReadDocument, TypeInv, TypeOK
  <2> QED
    BY <1>1, <1>2, <1>3, <1>4, <2>2 DEF ReadDocument, TypeInv, TypeOK
<1>5. CASE Clear(c)
  BY <1>1, <1>2, <1>3, <1>5 DEF Clear, TypeInv, TypeOK, Vectors
<1>6. CASE Assign(c)
  BY <1>1, <1>2, <1>3, <1>6 DEF Assign, TypeInv, TypeOK
<1>7. CASE Check(c)
  BY <1>1, <1>2, <1>3, <1>7 DEF Check, TypeInv, TypeOK
<1>8. CASE At(c)
  <2>1. /\ response \in [Clients -> Seq(Nat)] /\ next \in [Clients -> Nat \ {0}] /\ v \in Vectors
        /\ next[c] <= Len(v) /\ v[next[c]] # NoNumber
    BY <1>8 DEF At, Readable, TypeInv, TypeOK
  <2>2. v[next[c]] \in Nat
    <3>1. next[c] \in 1 .. Len(v)
      BY <2>1 DEF Vectors
    <3>2. v[next[c]] \in Nat \cup {NoNumber}
      BY <2>1, <3>1 DEF Vectors
    <3> QED
      BY <2>1, <3>2
  <2>3. Append(response[c], v[next[c]]) \in Seq(Nat)
    BY <2>1, <2>2, AppendType
  <2>4. response' \in [Clients -> Seq(Nat)] /\ next' \in [Clients -> Nat \ {0}]
    BY <1>8, <2>1, <2>3 DEF At
  <2> QED
    BY <1>1, <1>2, <1>3, <1>8, <2>4 DEF At, TypeInv, TypeOK
<1> QED
  BY <1>4, <1>5, <1>6, <1>7, <1>8

\* The process ends: no connection is served any more.
LEMMA EndType ==
  ASSUME TypeInv, EndProcess
  PROVE  TypeInv'
<1>1. /\ pc' = [c \in Clients |-> "none"] /\ c2s' = [c \in Clients |-> <<>>]
      /\ UNCHANGED <<s2c, cli>>
  BY DEF EndProcess
<1>2. ASSUME NEW d \in Clients PROVE TurnsOf(d)'
  <2>1. /\ pc'[d] = "none" /\ c2s'[d] = <<>> /\ s2c'[d] = s2c[d] /\ cli'[d] = cli[d]
        /\ Len(c2s[d]) \in Nat /\ Len(s2c[d]) \in Nat /\ Len(c2s'[d]) = 0
    BY <1>1 DEF TypeInv
  <2> QED
    BY <2>1 DEF TypeInv, TurnsOf, Busy
<1> QED
  BY <1>1, <1>2 DEF TypeInv, GoneInv, Down, TypeOK, EndProcess, ThreadPCs, threadVars

\* The main thread goes on: every connection is reset, the threads stay.
LEMMA PauseType ==
  ASSUME TypeInv, WaitForThreads
  PROVE  TypeInv'
<1>1. /\ main' = "pause" /\ c2s' = [c \in Clients |-> <<>>] /\ UNCHANGED <<s2c, cli>>
      /\ pc' = [c \in Clients |-> IF pc[c] = "backlog" THEN "none" ELSE pc[c]]
      /\ UNCHANGED <<doc, v, created, threadVars, raced>>
  BY DEF WaitForThreads
<1>2. pc' \in [Clients -> ThreadPCs]
  BY <1>1 DEF TypeInv, TypeOK, ThreadPCs
<1>3. ASSUME NEW d \in Clients PROVE TurnsOf(d)'
  <2>1. /\ pc'[d] \in {"none", pc[d]} /\ c2s'[d] = <<>> /\ s2c'[d] = s2c[d] /\ cli'[d] = cli[d]
        /\ Len(c2s[d]) \in Nat /\ Len(s2c[d]) \in Nat /\ Len(c2s'[d]) = 0
    BY <1>1 DEF TypeInv
  <2> QED
    BY <1>1, <2>1 DEF TypeInv, TurnsOf, Busy
<1> QED
  BY <1>1, <1>2, <1>3 DEF TypeInv, GoneInv, Down, TypeOK, threadVars

\* What one connection does preserves the types, when it does so for its own part.
LEMMA TurnsElsewhere ==
  ASSUME TypeInv, NEW c \in Clients, TurnsOf(c)', main = "pause" => main' = "pause",
         \A d \in Clients : d # c =>
           pc'[d] = pc[d] /\ c2s'[d] = c2s[d] /\ s2c'[d] = s2c[d] /\ cli'[d] = cli[d]
  PROVE  \A d \in Clients : TurnsOf(d)'
  BY DEF TypeInv, TurnsOf

\* Connections open, carry a request or an answer, and close.
LEMMA ConnectionType ==
  ASSUME TypeInv, NEW c \in Clients,
         \/ Accept(c) \/ ThreadFails(c) \/ RecvCost(c) \/ RecvZero(c) \/ ConnectionFails(c) \/ Send(c)
         \/ ClientStep(c)
  PROVE  TypeInv'
<1> USE DEF Goto, mainVars, threadVars
<1>0. /\ TypeOK /\ TurnsOf(c) /\ pc \in [Clients -> ThreadPCs]
      /\ cli \in [Clients -> {"off", "menu", "wait", "spin", "killed"}]
      /\ c2s \in [Clients -> Seq(Costs)] /\ s2c \in [Clients -> Seq(Seq(Nat))]
      /\ Len(c2s[c]) \in Nat /\ Len(s2c[c]) \in Nat
  <2>1. c2s[c] \in Seq(Costs) /\ s2c[c] \in Seq(Seq(Nat))
    BY DEF TypeInv
  <2>2. Len(c2s[c]) \in Nat /\ Len(s2c[c]) \in Nat
    BY <2>1
  <2> QED
    BY <2>2 DEF TypeInv, TypeOK
<1>1. \A d \in Clients : d # c =>
        pc'[d] = pc[d] /\ c2s'[d] = c2s[d] /\ s2c'[d] = s2c[d] /\ cli'[d] = cli[d]
  BY <1>0 DEF Accept, ThreadFails, RecvCost, RecvZero, ConnectionFails, Send, ClientStep, Connect,
     AskCost, Receive, ReceiveFails, Leave, Kill
<1>2. Len(<<>>) = 0 /\ <<>> \in Seq(Costs) /\ <<>> \in Seq(Seq(Nat)) /\ <<>> \in Seq(Nat)
  OBVIOUS
<1>3. /\ UNCHANGED <<doc, v, temp, next, raced>>
      /\ main' \in {"accept", "wait", "pause", "ended"} /\ (main = "pause" => main' = "pause")
      /\ created' = created \/ (created < MaxThreads /\ created' = created + 1)
  BY <1>0 DEF Accept, ThreadFails, RecvCost, RecvZero, ConnectionFails, Send, ClientStep, Connect,
     AskCost, Receive, ReceiveFails, Leave, Kill, TypeOK
<1>4. created' \in 0 .. MaxThreads
  BY <1>0, <1>3, TravelAssumption DEF TypeOK
<1>10. GoneInv'
  <2>1. GoneInv
    BY DEF TypeInv
  <2>2. /\ main' \in {main, "wait"} /\ (Down => main' = main)
        /\ Down => c2s'[c] = c2s[c] \/ c2s'[c] = <<>>
        /\ main = "ended" => pc'[c] = "none"
    BY <1>0, <2>1 DEF GoneInv, Down, Accept, ThreadFails, RecvCost, RecvZero, ConnectionFails, Send,
       ClientStep, Connect, AskCost, Receive, ReceiveFails, Leave, Kill
  <2> QED
    BY <1>1, <2>1, <2>2 DEF GoneInv, Down
<1>5. CASE Accept(c) \/ RecvZero(c)
  <2>1. /\ pc[c] \in {"backlog", "recv"} /\ pc'[c] \in {"recv", "spin"}
        /\ pc' = [pc EXCEPT ![c] = pc'[c]] /\ UNCHANGED <<c2s, s2c, cli, cost, response>>
    BY <1>0, <1>5 DEF Accept, RecvZero
  <2>2. TurnsOf(c)' /\ pc' \in [Clients -> ThreadPCs]
    BY <1>0, <2>1 DEF TurnsOf, Busy, ThreadPCs
  <2>3. \A d \in Clients : TurnsOf(d)'
    BY <1>3, <1>1, <2>2, TurnsElsewhere
  <2> QED
    BY <1>0, <1>3, <1>4, <1>10, <2>1, <2>2, <2>3 DEF TypeInv, TypeOK, TurnsOf
<1>6. CASE ThreadFails(c) \/ ConnectionFails(c)
  <2>1. /\ pc'[c] = "none" /\ pc' = [pc EXCEPT ![c] = "none"] /\ c2s' = [c2s EXCEPT ![c] = <<>>]
        /\ c2s'[c] = <<>> /\ UNCHANGED <<s2c, cli, cost, response>>
    BY <1>0, <1>6 DEF ThreadFails, ConnectionFails
  <2>2. TurnsOf(c)' /\ pc' \in [Clients -> ThreadPCs] /\ c2s' \in [Clients -> Seq(Costs)]
    BY <1>0, <1>2, <2>1 DEF TurnsOf, Busy, ThreadPCs
  <2>3. \A d \in Clients : TurnsOf(d)'
    BY <1>3, <1>1, <2>2, TurnsElsewhere
  <2> QED
    BY <1>0, <1>3, <1>4, <1>10, <2>1, <2>2, <2>3 DEF TypeInv, TypeOK, TurnsOf
<1>7. CASE RecvCost(c)
  <2>1. /\ pc[c] = "recv" /\ pc'[c] = "read" /\ pc' = [pc EXCEPT ![c] = "read"] /\ c2s[c] # <<>>
        /\ c2s'[c] = Tail(c2s[c]) /\ c2s' = [c2s EXCEPT ![c] = Tail(@)]
        /\ cost' = [cost EXCEPT ![c] = Head(c2s[c])] /\ response' = [response EXCEPT ![c] = <<>>]
        /\ UNCHANGED <<s2c, cli>>
    BY <1>0, <1>7 DEF RecvCost
  <2>2. /\ Tail(c2s[c]) \in Seq(Costs) /\ Len(Tail(c2s[c])) = Len(c2s[c]) - 1
        /\ Head(c2s[c]) \in Costs /\ Len(c2s[c]) \in Nat \ {0}
    BY <1>0, <2>1, TailType
  <2>3. Len(c2s[c]) = 1 /\ Len(s2c[c]) = 0
    BY <1>0, <2>2 DEF TurnsOf
  <2>4. Tail(c2s[c]) = <<>> /\ s2c[c] = <<>>
    <3>1. Len(Tail(c2s[c])) = 0 /\ s2c[c] \in Seq(Seq(Nat))
      BY <1>0, <2>2, <2>3
    <3>2. Tail(c2s[c]) = <<>>
      BY <2>2, <3>1, EmptyType
    <3>3. s2c[c] = <<>>
      BY <2>3, <3>1, EmptyType
    <3> QED
      BY <3>2, <3>3
  <2>5. TurnsOf(c)' /\ pc' \in [Clients -> ThreadPCs]
    BY <1>0, <1>2, <2>1, <2>4 DEF TurnsOf, Busy, ThreadPCs
  <2>6. /\ c2s' \in [Clients -> Seq(Costs)] /\ cost' \in [Clients -> Costs \cup {0}]
        /\ response' \in [Clients -> Seq(Nat)]
    BY <1>0, <2>1, <2>2 DEF TypeOK
  <2>7. \A d \in Clients : TurnsOf(d)'
    BY <1>3, <1>1, <2>5, TurnsElsewhere
  <2> QED
    BY <1>0, <1>3, <1>4, <1>10, <2>1, <2>5, <2>6, <2>7 DEF TypeInv, TypeOK, TurnsOf
<1>8. CASE Send(c)
  <2>1. /\ pc[c] = "send" /\ pc'[c] = "recv" /\ pc' = [pc EXCEPT ![c] = "recv"]
        /\ main # "pause" /\ main' = main
        /\ UNCHANGED <<c2s, cli, cost, response>>
        /\ s2c' = IF cli[c] = "killed" THEN s2c ELSE [s2c EXCEPT ![c] = Append(@, response[c])]
    BY <1>0, <1>8 DEF Send
  <2>2. c2s[c] = <<>> /\ s2c[c] = <<>> /\ cli[c] \in {"wait", "killed"}
    BY <1>0, <2>1 DEF TurnsOf, Busy
  <2>3. s2c[c] \in Seq(Seq(Nat)) /\ response[c] \in Seq(Nat)
    BY <1>0 DEF TypeOK
  <2>4. /\ Append(s2c[c], response[c]) \in Seq(Seq(Nat)) /\ Len(Append(s2c[c], response[c])) = 1
    BY <1>2, <2>2, <2>3, AppendType
  <2>5. s2c' \in [Clients -> Seq(Seq(Nat))] /\ pc' \in [Clients -> ThreadPCs]
    BY <1>0, <2>1, <2>4 DEF ThreadPCs
  <2>6. s2c'[c] = IF cli[c] = "killed" THEN s2c[c] ELSE Append(s2c[c], response[c])
    BY <1>0, <2>1
  <2>7. TurnsOf(c)'
    BY <1>0, <1>2, <2>1, <2>2, <2>4, <2>6 DEF TurnsOf, Busy
  <2>8. \A d \in Clients : TurnsOf(d)'
    BY <1>3, <1>1, <2>7, TurnsElsewhere
  <2> QED
    BY <1>0, <1>3, <1>4, <1>10, <2>1, <2>5, <2>8 DEF TypeInv, TypeOK, TurnsOf
<1>9. CASE ClientStep(c)
  <2>1. UNCHANGED <<cost, response>> /\ pc'[c] \in {pc[c], "backlog"} /\ pc' \in [Clients -> ThreadPCs]
    BY <1>0, <1>9 DEF ClientStep, Connect, AskCost, Receive, ReceiveFails, Leave, Kill, ThreadPCs
  <2>2. cli' \in [Clients -> {"off", "menu", "wait", "spin", "killed"}]
    BY <1>0, <1>9 DEF ClientStep, Connect, AskCost, Receive, ReceiveFails, Leave, Kill
  <2>3. /\ TurnsOf(c)' /\ c2s' \in [Clients -> Seq(Costs)] /\ s2c' \in [Clients -> Seq(Seq(Nat))]
    <3>1. CASE Connect(c)
      <4>1. /\ pc[c] = "none" /\ pc'[c] = "backlog" /\ c2s' = c2s /\ s2c' = [s2c EXCEPT ![c] = <<>>]
            /\ s2c'[c] = <<>> /\ cli'[c] = "menu"
        BY <1>0, <3>1 DEF Connect
      <4> QED
        BY <1>0, <1>2, <4>1 DEF TurnsOf, Busy
    <3>2. ASSUME NEW amount \in Costs, AskCost(c, amount)
          PROVE  TurnsOf(c)' /\ c2s' \in [Clients -> Seq(Costs)] /\ s2c' \in [Clients -> Seq(Seq(Nat))]
      <4>1. /\ cli[c] = "menu" /\ cli'[c] = "wait" /\ UNCHANGED <<pc, s2c>>
            /\ c2s' = IF pc[c] = "none" \/ Down THEN c2s ELSE [c2s EXCEPT ![c] = Append(@, amount)]
        BY <1>0, <3>2 DEF AskCost
      <4>2. c2s[c] = <<>> /\ s2c[c] = <<>> /\ (pc[c] \in Busy => Down)
        BY <1>0, <4>1 DEF TurnsOf, Down
      <4>3. Append(c2s[c], amount) \in Seq(Costs) /\ Len(Append(c2s[c], amount)) = 1
        BY <1>0, <1>2, <4>2, AppendType
      <4>4. c2s'[c] = (IF pc[c] = "none" \/ Down THEN c2s[c] ELSE Append(c2s[c], amount))
            /\ c2s' \in [Clients -> Seq(Costs)]
        BY <1>0, <4>1, <4>3
      <4> QED
        BY <1>0, <1>2, <4>1, <4>2, <4>3, <4>4 DEF TurnsOf, Busy
    <3>3. CASE Receive(c)
      <4>1. /\ cli[c] = "wait" /\ s2c[c] # <<>> /\ cli'[c] = "menu" /\ UNCHANGED <<pc, c2s>>
            /\ s2c' = [s2c EXCEPT ![c] = Tail(@)] /\ s2c'[c] = Tail(s2c[c])
        BY <1>0, <3>3 DEF Receive
      <4>2. /\ Tail(s2c[c]) \in Seq(Seq(Nat)) /\ Len(Tail(s2c[c])) = Len(s2c[c]) - 1
            /\ Len(s2c[c]) \in Nat \ {0}
        BY <1>0, <4>1, TailType
      <4>3. Len(s2c[c]) = 1 /\ Len(c2s[c]) = 0
        BY <1>0, <4>2 DEF TurnsOf
      <4>4. Tail(s2c[c]) = <<>> /\ c2s[c] = <<>>
        <5>1. Len(Tail(s2c[c])) = 0 /\ c2s[c] \in Seq(Costs)
          BY <1>0, <4>2, <4>3
        <5>2. Tail(s2c[c]) = <<>>
          BY <4>2, <5>1, EmptyType
        <5>3. c2s[c] = <<>>
          BY <4>3, <5>1, EmptyType
        <5> QED
          BY <5>2, <5>3
      <4> QED
        BY <1>0, <1>2, <4>1, <4>2, <4>4 DEF TurnsOf, Busy
    <3>4. CASE ReceiveFails(c)
      <4>1. /\ cli[c] = "wait" /\ cli'[c] \in {"off", "spin"} /\ UNCHANGED <<main, pc, c2s>>
            /\ s2c' = [s2c EXCEPT ![c] = <<>>] /\ s2c'[c] = <<>>
            /\ Down \/ pc[c] = "none"
        BY <1>0, <3>4 DEF ReceiveFails
      <4>2. Down => c2s[c] = <<>>
        BY <1>0 DEF TypeInv, GoneInv
      <4>3. pc[c] \in Busy => main = "pause"
        BY <1>0, <4>1 DEF TypeInv, GoneInv, Down, Busy
      <4>4. c2s'[c] = <<>> /\ pc'[c] = pc[c] /\ main' = main /\ Len(c2s'[c]) + Len(s2c'[c]) <= 1
        BY <1>0, <1>2, <4>1, <4>2 DEF TurnsOf
      <4>5. TurnsOf(c)'
        BY <4>1, <4>3, <4>4 DEF TurnsOf
      <4> QED
        BY <1>0, <1>2, <4>1, <4>5
    <3>5. CASE Leave(c) \/ Kill(c)
      <4>1. /\ UNCHANGED <<main, pc, c2s>> /\ s2c' = [s2c EXCEPT ![c] = <<>>] /\ s2c'[c] = <<>>
            /\ (cli[c] = "menu" /\ cli'[c] = "off") \/ cli'[c] = "killed"
        BY <1>0, <3>5 DEF Leave, Kill
      <4> QED
        BY <1>0, <1>2, <4>1 DEF TurnsOf, Busy
    <3> QED
      BY <1>9, <3>1, <3>2, <3>3, <3>4, <3>5 DEF ClientStep
  <2>4. \A d \in Clients : TurnsOf(d)'
    BY <1>3, <1>1, <2>3, TurnsElsewhere
  <2> QED
    BY <1>0, <1>3, <1>4, <1>10, <2>1, <2>2, <2>3, <2>4 DEF TypeInv, TypeOK, TurnsOf
<1> QED
  BY <1>5, <1>6, <1>7, <1>8, <1>9

LEMMA InitType == Init => TypeInv
<1> SUFFICES ASSUME Init PROVE TypeInv
  OBVIOUS
<1> USE TravelAssumption
<1>1. v \in Vectors
  BY DEF Init, Loaded, Vectors
<1>2. \A c \in Clients : Len(c2s[c]) = 0 /\ Len(s2c[c]) = 0
  BY DEF Init
<1>3. <<>> \in Seq(Costs) /\ <<>> \in Seq(Seq(Nat)) /\ <<>> \in Seq(Nat) /\ <<>> \in Vectors
  BY DEF Vectors
<1>4. \A c \in Clients : TurnsOf(c)
  BY <1>2 DEF Init, TurnsOf, Busy
<1>5. c2s \in [Clients -> Seq(Costs)] /\ s2c \in [Clients -> Seq(Seq(Nat))]
  BY <1>3 DEF Init
<1>6. /\ doc \in Documents /\ main = "accept" /\ created \in 0 .. MaxThreads
      /\ raced = FALSE
      /\ pc \in [Clients -> ThreadPCs] /\ cost \in [Clients -> Costs \cup {0}]
      /\ cli \in [Clients -> {"off", "menu", "wait", "spin", "killed"}]
  BY DEF Init, ThreadPCs
<1>7. /\ temp \in [Clients -> Vectors] /\ next \in [Clients -> Nat \ {0}]
      /\ response \in [Clients -> Seq(Nat)]
  BY <1>3 DEF Init
<1> QED
  BY <1>1, <1>2, <1>4, <1>5, <1>6, <1>7 DEF TypeInv, GoneInv, Down, TypeOK, TurnsOf

LEMMA StepType == TypeInv /\ [Next]_vars => TypeInv'
<1> SUFFICES ASSUME TypeInv, [Next]_vars PROVE TypeInv'
  OBVIOUS
<1> USE DEF mainVars, threadVars
<1>1. CASE UNCHANGED vars
  BY <1>1 DEF vars, TypeInv, GoneInv, Down, TypeOK, TurnsOf, Busy
<1>2. CASE Edit \/ AcceptFails
  BY <1>2 DEF Edit, AcceptFails, TypeInv, GoneInv, Down, TypeOK, TurnsOf, Busy
<1>3. CASE WaitForThreads \/ WaitForNone \/ PressKey
  BY <1>3, PauseType, EndType DEF WaitForNone, PressKey
<1>4. ASSUME NEW c \in Clients, Throw(c) \/ Corrupt(c) PROVE TypeInv'
  BY <1>4, EndType DEF Throw, Corrupt
<1> QED
  BY <1>1, <1>2, <1>3, <1>4, LoopType, ConnectionType DEF Next, ThreadStep

\* Every variable keeps its type, and a connection never holds more than the one
\* request or answer that the two sides take turns with.
THEOREM TypeCorrect == Spec => []TypeOK
<1>1. TypeInv => TypeOK
  BY DEF TypeInv
<1> QED
  BY <1>1, InitType, StepType, PTL DEF Spec

LEMMA TypeAlways == Spec => []TypeInv
  BY InitType, StepType, PTL DEF Spec

-----------------------------------------------------------------------------
(* The answers.                                                            *)

LEMMA ListsNone == \A offers : Lists(<<>>, offers, {})
<1>1. Len(<<>>) = 0 /\ \A k : k \notin 1 .. 0
  OBVIOUS
<1>2. [k \in 1 .. 0 |-> k] \in [1 .. 0 -> {}]
  BY <1>1
<1> QED
  BY <1>1, <1>2 DEF Lists

\* The next offer is appended when it is chosen.
LEMMA ListsMore ==
  ASSUME NEW S, NEW answer \in Seq(S), NEW n \in Nat, NEW chosen \in SUBSET (1 .. n),
         NEW offers, NEW offer \in S, offers[n + 1] = offer, Lists(answer, offers, chosen)
  PROVE  Lists(Append(answer, offer), offers, chosen \cup {n + 1})
<1> DEFINE m == Len(answer)
           longer == Append(answer, offer)
<1>1. /\ m \in Nat /\ Len(longer) = m + 1 /\ longer[m + 1] = offer
      /\ \A k \in 1 .. m : longer[k] = answer[k]
  OBVIOUS
<1>2. PICK f \in [1 .. m -> chosen] :
        /\ \A k, l \in 1 .. m : k < l => f[k] < f[l]
        /\ \A k \in 1 .. m : answer[k] = offers[f[k]]
        /\ \A i \in chosen : \E k \in 1 .. m : f[k] = i
  BY DEF Lists
<1> DEFINE g == [k \in 1 .. m + 1 |-> IF k = m + 1 THEN n + 1 ELSE f[k]]
<1>3. /\ \A k \in 1 .. m : g[k] = f[k] /\ g[k] \in chosen
      /\ g[m + 1] = n + 1
  BY <1>1
<1>4. \A k \in 1 .. m + 1 : k \in 1 .. m \/ k = m + 1
  BY <1>1
<1>5. g \in [1 .. m + 1 -> chosen \cup {n + 1}]
  BY <1>3, <1>4
<1> HIDE DEF g, longer
<1>6. ASSUME NEW k \in 1 .. m + 1, NEW l \in 1 .. m + 1, k < l PROVE g[k] < g[l]
  <2>1. k \in 1 .. m
    BY <1>1, <1>6
  <2>2. CASE l \in 1 .. m
    BY <1>2, <1>3, <1>6, <2>1, <2>2
  <2>3. CASE l = m + 1
    <3>1. g[k] \in 1 .. n
      BY <1>3, <2>1
    <3> QED
      BY <1>3, <2>3, <3>1
  <2> QED
    BY <1>4, <2>2, <2>3
<1>7. \A k \in 1 .. m + 1 : longer[k] = offers[g[k]]
  BY <1>1, <1>2, <1>3, <1>4
<1>8. \A i \in chosen \cup {n + 1} : \E k \in 1 .. m + 1 : g[k] = i
  <2>1. \A k \in 1 .. m : k \in 1 .. m + 1
    BY <1>1
  <2>2. m + 1 \in 1 .. m + 1
    BY <1>1
  <2> QED
    BY <1>2, <1>3, <2>1, <2>2
<1>9. Len(longer) = m + 1
  BY <1>1 DEF longer
<1>10. /\ \A k, l \in 1 .. m + 1 : k < l => g[k] < g[l]
       /\ \A k \in 1 .. m + 1 : longer[k] = offers[g[k]]
       /\ \A i \in chosen \cup {n + 1} : \E k \in 1 .. m + 1 : g[k] = i
  BY <1>6, <1>7, <1>8
<1>11. Lists(longer, offers, chosen \cup {n + 1})
  <2>1. /\ g \in [1 .. Len(longer) -> chosen \cup {n + 1}]
        /\ \A k, l \in 1 .. Len(longer) : k < l => g[k] < g[l]
        /\ \A k \in 1 .. Len(longer) : longer[k] = offers[g[k]]
        /\ \A i \in chosen \cup {n + 1} : \E k \in 1 .. Len(longer) : g[k] = i
    BY <1>5, <1>9, <1>10, Zenon
  <2> QED
    BY <2>1, Zenon DEF Lists
<1> QED
  BY <1>11 DEF longer

\* How far the thread of c has come with its answer.
AnswerOf(c) ==
  /\ pc[c] \in {"read", "clear", "assign"} => response[c] = <<>>
  /\ pc[c] \in {"clear", "assign"} => next[c] = 1
  /\ pc[c] \in {"check", "at"} =>
       /\ v = temp[c] /\ next[c] \in 1 .. Len(v) + 1
       /\ Lists(response[c], temp[c], Suitable(c, next[c] - 1))
  /\ pc[c] = "at" => next[c] <= Len(v)
  /\ pc[c] = "send" => Lists(response[c], temp[c], Suitable(c, Len(temp[c])))

\* Two threads do not use v at once when one of them changes it.
Apart(c) == pc[c] \in Changing => \A d \in Clients \ {c} : pc[d] \notin Using

AnswerInv == ~raced => \A c \in Clients : AnswerOf(c) /\ Apart(c)

\* What is in v, and what is about to get into it, was read to its end.
GoodInv ==
  /\ v \in Good \cup {<<>>}
  /\ \A c \in Clients : pc[c] \in Changing => temp[c] \in Good

\* After the wait a thread only goes on serving when the wait had failed.
DeadInv ==
  /\ Serving => created > 0
  /\ main = "pause" /\ Serving => created > MaxWait

\* A thread at work that goes on when nobody changes v.
LEMMA AnswerElsewhere ==
  ASSUME NEW d \in Clients, AnswerOf(d), pc'[d] = pc[d], cost'[d] = cost[d], temp'[d] = temp[d],
         next'[d] = next[d], response'[d] = response[d], v' = v \/ pc[d] \notin Using
  PROVE  AnswerOf(d)'
  BY DEF AnswerOf, Suitable, Using, Changing

\* Only a thread that reads the document begins to use v.
LEMMA ApartKept ==
  ASSUME \A d \in Clients : Apart(d),
         \A d \in Clients : /\ pc'[d] \in Changing => pc[d] \in Changing
                            /\ pc'[d] \in Using => pc[d] \in Using
  PROVE  \A d \in Clients : Apart(d)'
  BY DEF Apart

\* A thread that does not use v after its step.
LEMMA AnswerIdle ==
  ASSUME NEW c \in Clients, AnswerOf(c), \A d \in Clients : Apart(d),
         \A d \in Clients \ {c} : AnswerOf(d) /\ pc'[d] = pc[d] /\ temp'[d] = temp[d]
                                  /\ cost'[d] = cost[d] /\ next'[d] = next[d] /\ response'[d] = response[d],
         v' = v, pc'[c] \notin Using \cup {"send"}, pc'[c] = "read" => response'[c] = <<>>
  PROVE  \A d \in Clients : AnswerOf(d)' /\ Apart(d)'
<1>1. AnswerOf(c)'
  BY DEF AnswerOf, Using, Changing
<1>2. \A d \in Clients \ {c} : AnswerOf(d)'
  BY AnswerElsewhere
<1>3. \A d \in Clients : Apart(d)'
  BY ApartKept DEF Using
<1> QED
  BY <1>1, <1>2, <1>3

\* The loop of a thread over the vector.
LEMMA AnswerLoop ==
  ASSUME TypeInv, NEW c \in Clients, \A d \in Clients : AnswerOf(d) /\ Apart(d), ~raced',
         ReadDocument(c) \/ Clear(c) \/ Assign(c) \/ Check(c) \/ At(c)
  PROVE  \A d \in Clients : AnswerOf(d)' /\ Apart(d)'
<1> USE DEF Goto, threadVars
<1>0. /\ pc \in [Clients -> ThreadPCs] /\ next \in [Clients -> Nat \ {0}] /\ temp \in [Clients -> Vectors]
      /\ response \in [Clients -> Seq(Nat)] /\ AnswerOf(c) /\ Apart(c) /\ v \in Vectors
      /\ Len(v) \in Nat
  <2>1. v \in Vectors
    BY DEF TypeInv, TypeOK
  <2>2. Len(v) \in Nat
    BY <2>1 DEF Vectors
  <2> QED
    BY <2>1, <2>2 DEF TypeInv, TypeOK
<1>1. /\ UNCHANGED cost
      /\ \A d \in Clients \ {c} : /\ pc'[d] = pc[d] /\ temp'[d] = temp[d] /\ next'[d] = next[d]
                                  /\ response'[d] = response[d] /\ cost'[d] = cost[d]
  BY <1>0 DEF ReadDocument, Clear, Assign, Check, At
<1>2. ASSUME AnswerOf(c)', v' = v \/ pc[c] \in Changing
      PROVE  \A d \in Clients : AnswerOf(d)'
  <2>1. ASSUME NEW d \in Clients \ {c} PROVE AnswerOf(d)'
    <3>1. v' = v \/ pc[d] \notin Using
      BY <1>0, <1>2 DEF Apart
    <3> QED
      BY <1>1, <3>1, AnswerElsewhere
  <2> QED
    BY <1>2, <2>1
<1>3. ASSUME pc[c] \in Using, pc'[c] \in Changing => pc[c] \in Changing
      PROVE  \A d \in Clients : Apart(d)'
  BY <1>1, <1>3, ApartKept
<1>4. CASE ReadDocument(c)
  <2>1. /\ pc[c] = "read" /\ pc'[c] = (IF doc.whole THEN "clear" ELSE "check") /\ v' = v
        /\ temp'[c] = Loaded(v) /\ next'[c] = 1 /\ response'[c] = <<>>
    BY <1>0, <1>4 DEF ReadDocument, AnswerOf
  <2>2. ~Others(c, IF doc.whole THEN Using ELSE Changing)
    BY <1>4 DEF ReadDocument
  <2>3. AnswerOf(c)'
    <3>1. CASE doc.whole
      BY <2>1, <3>1 DEF AnswerOf
    <3>2. CASE ~doc.whole
      <4>1. Suitable(c, next[c] - 1)' = {} /\ temp'[c] = v /\ next'[c] \in 1 .. Len(v) + 1
        BY <1>0, <2>1, <3>2 DEF Suitable, Loaded
      <4>2. Lists(response'[c], temp'[c], Suitable(c, next[c] - 1)')
        BY <2>1, <4>1, ListsNone
      <4> QED
        BY <2>1, <3>2, <4>1, <4>2 DEF AnswerOf
    <3> QED
      BY <3>1, <3>2
  <2>4. \A d \in Clients : Apart(d)'
    BY <1>1, <2>1, <2>2 DEF Apart, Others, Using, Changing
  <2> QED
    BY <1>2, <2>1, <2>3, <2>4
<1>5. CASE Clear(c)
  <2>1. /\ pc[c] = "clear" /\ pc'[c] = "assign" /\ UNCHANGED <<next, response>>
    BY <1>0, <1>5 DEF Clear
  <2>2. AnswerOf(c)'
    BY <1>0, <2>1 DEF AnswerOf
  <2> QED
    BY <1>2, <1>3, <2>1, <2>2 DEF Using, Changing
<1>6. CASE Assign(c)
  <2>1. /\ pc[c] = "assign" /\ pc'[c] = "check" /\ UNCHANGED <<next, response, temp, cost>> /\ v' = temp[c]
        /\ next[c] = 1 /\ response[c] = <<>>
    BY <1>0, <1>6 DEF Assign, AnswerOf
  <2>2. Suitable(c, next[c] - 1)' = {} /\ Len(temp[c]) \in Nat
    <3>1. temp[c] \in Vectors
      BY <1>0
    <3>2. Len(temp[c]) \in Nat
      BY <3>1 DEF Vectors
    <3> QED
      BY <2>1, <3>2 DEF Suitable
  <2>3. Lists(response'[c], temp'[c], Suitable(c, next[c] - 1)')
    BY <2>1, <2>2, ListsNone
  <2>4. AnswerOf(c)'
    BY <2>1, <2>2, <2>3 DEF AnswerOf
  <2> QED
    BY <1>2, <1>3, <2>1, <2>4 DEF Using, Changing
<1>7. CASE Check(c)
  <2>1. /\ pc[c] = "check" /\ pc'[c] = (IF next[c] <= Len(v) THEN "at" ELSE "send")
        /\ UNCHANGED <<next, response, temp, cost, v>>
        /\ v = temp[c] /\ next[c] \in 1 .. Len(v) + 1
        /\ Lists(response[c], temp[c], Suitable(c, next[c] - 1))
    BY <1>0, <1>7 DEF Check, AnswerOf
  <2>2. CASE next[c] <= Len(v)
    <3>1. AnswerOf(c)'
      BY <2>1, <2>2 DEF AnswerOf, Suitable
    <3> QED
      BY <1>2, <1>3, <2>1, <2>2, <3>1 DEF Using, Changing
  <2>3. CASE ~ (next[c] <= Len(v))
    <3>1. next[c] - 1 = Len(temp[c])
      BY <1>0, <2>1, <2>3
    <3>2. AnswerOf(c)'
      BY <2>1, <2>3, <3>1 DEF AnswerOf, Suitable
    <3> QED
      BY <1>2, <1>3, <2>1, <2>3, <3>2 DEF Using, Changing
  <2> QED
    BY <2>2, <2>3
<1>8. CASE At(c)
  <2> DEFINE n == next[c]
             offer == v[n]
  <2>1. /\ pc[c] = "at" /\ pc'[c] = "check" /\ UNCHANGED <<temp, cost, v>>
        /\ v = temp[c] /\ n \in 1 .. Len(v) /\ offer # NoNumber /\ next'[c] = n + 1
        /\ response'[c] = IF cost[c] <= offer THEN Append(response[c], offer) ELSE response[c]
        /\ Lists(response[c], temp[c], Suitable(c, n - 1))
    BY <1>0, <1>8 DEF At, AnswerOf, Readable
  <2>2. offer \in Nat
    <3>1. v[n] \in Nat \cup {NoNumber}
      BY <1>0, <2>1 DEF Vectors
    <3> QED
      BY <2>1, <3>1
  <2>3. n - 1 \in Nat /\ (n - 1) + 1 = n /\ next'[c] - 1 = n
    BY <1>0, <2>1
  <2>4. 1 .. n = (1 .. n - 1) \cup {n}
    BY <1>0, <2>1
  <2>5. Suitable(c, next[c] - 1)' = IF cost[c] <= offer THEN Suitable(c, n - 1) \cup {n}
                                                        ELSE Suitable(c, n - 1)
    <3>1. Suitable(c, next[c] - 1)' = {i \in 1 .. n : cost[c] <= temp[c][i]}
      BY <2>1, <2>3 DEF Suitable
    <3> HIDE DEF n
    <3> QED
      BY <2>1, <2>4, <3>1 DEF Suitable
  <2>6. Lists(response[c], temp[c], Suitable(c, n - 1)) => Lists(response[c], v, Suitable(c, n - 1))
    BY <2>1
  <2>7. Lists(Append(response[c], offer), v, Suitable(c, n - 1) \cup {n})
    <3>1. response[c] \in Seq(Nat) /\ Suitable(c, n - 1) \in SUBSET (1 .. n - 1) /\ v[(n - 1) + 1] = offer
      BY <1>0, <2>3 DEF Suitable
    <3> HIDE DEF n, offer
    <3>2. Lists(Append(response[c], offer), v, Suitable(c, n - 1) \cup {(n - 1) + 1})
      BY <2>1, <2>2, <2>3, <2>6, <3>1, ListsMore
    <3> QED
      BY <2>3, <3>2
  <2>8. Lists(response'[c], temp'[c], Suitable(c, next[c] - 1)')
    BY <2>1, <2>5, <2>7
  <2>9. AnswerOf(c)'
    BY <1>0, <2>1, <2>8 DEF AnswerOf
  <2> QED
    BY <1>2, <1>3, <2>1, <2>9 DEF Using, Changing
<1> QED
  BY <1>4, <1>5, <1>6, <1>7, <1>8

LEMMA AnswerStep == TypeInv /\ AnswerInv /\ [Next]_vars => AnswerInv'
<1> SUFFICES ASSUME TypeInv, AnswerInv, [Next]_vars, ~raced'
             PROVE  \A d \in Clients : AnswerOf(d)' /\ Apart(d)'
  BY DEF AnswerInv
<1> USE DEF Goto, threadVars, mainVars
<1>0. /\ pc \in [Clients -> ThreadPCs] /\ cost \in [Clients -> Costs \cup {0}]
      /\ response \in [Clients -> Seq(Nat)]
  BY DEF TypeInv, TypeOK
<1>1. ~raced
  BY DEF Next, vars, Edit, AcceptFails, WaitForThreads, WaitForNone, PressKey, EndProcess, Accept, ThreadFails, ThreadStep,
     RecvCost, RecvZero, ConnectionFails, ReadDocument, Clear, Assign, Check, At, Throw, Send, Corrupt,
     ClientStep, Connect, AskCost, Receive, ReceiveFails, Leave, Kill
<1>2. \A d \in Clients : AnswerOf(d) /\ Apart(d)
  BY <1>1 DEF AnswerInv
<1>3. ASSUME UNCHANGED <<v, pc, cost, temp, next, response>>
      PROVE  \A d \in Clients : AnswerOf(d)' /\ Apart(d)'
  BY <1>2, <1>3 DEF AnswerOf, Suitable, Apart
<1>4. CASE UNCHANGED vars \/ Edit \/ AcceptFails
  BY <1>3, <1>4 DEF vars, Edit, AcceptFails
<1>5. ASSUME EndProcess PROVE \A d \in Clients : AnswerOf(d)' /\ Apart(d)'
  BY <1>5 DEF EndProcess, AnswerOf, Apart, Changing
<1>9. CASE WaitForThreads
  <2>1. /\ UNCHANGED <<v, cost, temp, next, response>>
        /\ \A d \in Clients : pc'[d] = IF pc[d] = "backlog" THEN "none" ELSE pc[d]
    BY <1>9 DEF WaitForThreads
  <2> QED
    BY <1>2, <2>1 DEF AnswerOf, Suitable, Apart, Others, Using, Changing
<1>6. ASSUME NEW c \in Clients,
             \/ Accept(c) \/ ThreadFails(c) \/ RecvCost(c) \/ RecvZero(c) \/ ConnectionFails(c)
             \/ Send(c) \/ Connect(c)
      PROVE  \A d \in Clients : AnswerOf(d)' /\ Apart(d)'
  <2>1. /\ \A d \in Clients \ {c} : /\ pc'[d] = pc[d] /\ temp'[d] = temp[d] /\ cost'[d] = cost[d]
                                    /\ next'[d] = next[d] /\ response'[d] = response[d]
        /\ v' = v /\ pc'[c] \in {"recv", "none", "read", "spin", "backlog"}
        /\ pc'[c] = "read" => response'[c] = <<>>
    BY <1>0, <1>6 DEF Accept, ThreadFails, RecvCost, RecvZero, ConnectionFails, Send, Connect
  <2> QED
    BY <1>2, <2>1, AnswerIdle DEF Using, Changing
<1>7. ASSUME NEW c \in Clients, ClientStep(c), ~Connect(c)
      PROVE  \A d \in Clients : AnswerOf(d)' /\ Apart(d)'
  BY <1>3, <1>7 DEF ClientStep, AskCost, Receive, ReceiveFails, Leave, Kill
<1>8. ASSUME NEW c \in Clients, ReadDocument(c) \/ Clear(c) \/ Assign(c) \/ Check(c) \/ At(c)
      PROVE  \A d \in Clients : AnswerOf(d)' /\ Apart(d)'
  BY <1>2, <1>8, AnswerLoop
<1> QED
  BY <1>4, <1>5, <1>6, <1>7, <1>8, <1>9 DEF Next, ThreadStep, WaitForNone, PressKey, Throw, Corrupt

LEMMA AnswerInit == Init => AnswerInv
  BY DEF Init, AnswerInv, AnswerOf, Apart, Changing

\* Until two threads meet over the vector, an answer consists of exactly the offers of
\* the document its thread read that cost at least the amount, in their order.
THEOREM AnswersAreRight == Spec => []AnswerRight
<1>1. AnswerInv => AnswerRight
  BY DEF AnswerInv, AnswerOf, AnswerRight
<1> QED
  BY <1>1, AnswerInit, AnswerStep, InitType, StepType, PTL DEF Spec

-----------------------------------------------------------------------------
(* The documents in use, and the end of the process.                       *)

LEMMA GoodStep == TypeInv /\ GoodInv /\ [Next]_vars => GoodInv'
<1> SUFFICES ASSUME TypeInv, GoodInv, [Next]_vars PROVE GoodInv'
  OBVIOUS
<1> USE DEF Goto, threadVars, mainVars
<1>0. /\ pc \in [Clients -> ThreadPCs] /\ temp \in [Clients -> Vectors] /\ doc \in Documents
      /\ doc.whole => doc.offers \in Good
  BY DEF TypeInv, TypeOK, Good
<1>1. ASSUME UNCHANGED <<v, temp>>, \A c \in Clients : pc'[c] \in Changing => pc[c] \in Changing
      PROVE  GoodInv'
  BY <1>1 DEF GoodInv, Good
<1>2. CASE UNCHANGED vars \/ Edit \/ AcceptFails \/ WaitForThreads
  BY <1>0, <1>1, <1>2 DEF vars, Edit, AcceptFails, WaitForThreads, Changing
<1>3. ASSUME EndProcess PROVE GoodInv'
  BY <1>3, <1>1 DEF EndProcess, Changing
<1>4. ASSUME NEW c \in Clients,
             \/ Accept(c) \/ ThreadFails(c) \/ RecvCost(c) \/ RecvZero(c) \/ ConnectionFails(c)
             \/ Check(c) \/ At(c) \/ Send(c) \/ ClientStep(c)
      PROVE  GoodInv'
  <2>1. /\ UNCHANGED <<v, temp>> /\ \A d \in Clients \ {c} : pc'[d] = pc[d]
        /\ pc'[c] = pc[c] \/ pc'[c] \notin Changing
    BY <1>0, <1>4 DEF Accept, ThreadFails, RecvCost, RecvZero, ConnectionFails, Check, At, Send,
       ClientStep, Connect, AskCost, Receive, ReceiveFails, Leave, Kill, Changing
  <2> QED
    BY <1>1, <2>1
<1>5. ASSUME NEW c \in Clients, ReadDocument(c) PROVE GoodInv'
  <2>1. /\ v' = v /\ \A d \in Clients \ {c} : pc'[d] = pc[d] /\ temp'[d] = temp[d]
        /\ pc'[c] = (IF doc.whole THEN "clear" ELSE "check") /\ temp'[c] = Loaded(v)
    BY <1>0, <1>5 DEF ReadDocument
  <2> QED
    BY <1>0, <2>1 DEF GoodInv, Good, Loaded, Changing
<1>6. ASSUME NEW c \in Clients, Clear(c) \/ Assign(c) PROVE GoodInv'
  <2>1. /\ temp' = temp /\ \A d \in Clients \ {c} : pc'[d] = pc[d]
        /\ pc[c] \in Changing /\ v' \in {<<>>, temp[c]}
    BY <1>0, <1>6 DEF Clear, Assign, Changing
  <2> QED
    BY <1>0, <2>1 DEF GoodInv, Good
<1> QED
  BY <1>2, <1>3, <1>4, <1>5, <1>6 DEF Next, ThreadStep, WaitForNone, PressKey, Throw, Corrupt

LEMMA GoodInit == Init => GoodInv
  BY DEF Init, GoodInv, Good, Loaded, Changing

\* A good vector, or none that will be read before a good one is assigned.
Held == v \in Good \/ raced \/ main = "ended" \/ \E c \in Clients : pc[c] = "assign"

LEMMA HeldStep == TypeInv /\ GoodInv /\ Held /\ [Next]_vars => Held'
<1> SUFFICES ASSUME TypeInv, GoodInv, Held, [Next]_vars PROVE Held'
  OBVIOUS
<1> USE DEF Goto, threadVars, mainVars
<1>0. pc \in [Clients -> ThreadPCs]
  BY DEF TypeInv, TypeOK
<1>1. ASSUME v' = v, raced => raced', main = "ended" => main' = "ended",
             \A c \in Clients : pc[c] = "assign" => pc'[c] = "assign"
      PROVE  Held'
  BY <1>1 DEF Held, Good
<1>2. CASE UNCHANGED vars \/ Edit \/ AcceptFails \/ WaitForThreads
  BY <1>0, <1>1, <1>2 DEF vars, Edit, AcceptFails, WaitForThreads, Changing
<1>3. ASSUME EndProcess PROVE Held'
  BY <1>3 DEF EndProcess, Held
<1>4. ASSUME NEW c \in Clients,
             \/ Accept(c) \/ ThreadFails(c) \/ RecvCost(c) \/ RecvZero(c) \/ ConnectionFails(c)
             \/ ReadDocument(c) \/ Check(c) \/ At(c) \/ Send(c) \/ ClientStep(c)
      PROVE  Held'
  <2>1. v' = v /\ (main = "ended" => main' = "ended")
    BY <1>4 DEF Accept, ThreadFails, RecvCost, RecvZero, ConnectionFails, ReadDocument, Check, At,
       Send, ClientStep, Connect, AskCost, Receive, ReceiveFails, Leave, Kill
  <2>2. raced => raced'
    BY <1>4 DEF Accept, ThreadFails, RecvCost, RecvZero, ConnectionFails, ReadDocument, Check, At,
       Send, ClientStep, Connect, AskCost, Receive, ReceiveFails, Leave, Kill
  <2>3. \A d \in Clients : pc[d] = "assign" => pc'[d] = "assign"
    BY <1>0, <1>4 DEF Accept, ThreadFails, RecvCost, RecvZero, ConnectionFails, ReadDocument, Check, At,
       Send, ClientStep, Connect, AskCost, Receive, ReceiveFails, Leave, Kill
  <2> QED
    BY <1>1, <2>1, <2>2, <2>3
<1>5. ASSUME NEW c \in Clients, Clear(c) PROVE Held'
  BY <1>0, <1>5 DEF Clear, Held
<1>6. ASSUME NEW c \in Clients, Assign(c) PROVE Held'
  <2>1. v' = temp[c] /\ pc[c] \in Changing
    BY <1>6 DEF Assign, Changing
  <2> QED
    BY <2>1 DEF GoodInv, Good, Held
<1> QED
  BY <1>2, <1>3, <1>4, <1>5, <1>6 DEF Next, ThreadStep, WaitForNone, PressKey, Throw, Corrupt

\* Once v holds the offers of a document that was read to its end it goes on to, until
\* two threads meet over it: a document that is being edited neither gets into v nor
\* empties it.
THEOREM LastGoodStays == Spec => KeepsLastGood
<1>1. v \in Good => Held
  BY DEF Held
<1>2. Spec => [](v \in Good => []Held)
  BY <1>1, GoodInit, GoodStep, HeldStep, InitType, StepType, PTL DEF Spec
<1> QED
  BY <1>2 DEF KeepsLastGood, Held

LEMMA DeadStep == TypeInv /\ DeadInv /\ [Next]_vars => DeadInv'
<1> SUFFICES ASSUME TypeInv, DeadInv, [Next]_vars, Serving'
             PROVE  created' > 0 /\ (main' = "pause" => created' > MaxWait)
  BY DEF DeadInv
<1> USE DEF Goto, threadVars, mainVars
<1>0. pc \in [Clients -> ThreadPCs] /\ created \in Nat
  BY TravelAssumption DEF TypeInv, TypeOK
<1>1. CASE WaitForThreads
  BY <1>1 DEF WaitForThreads, Serving
<1>2. ASSUME created' = created, main' = "pause" => main = "pause",
             \A c \in Clients : pc'[c] \notin {"none", "backlog"} => pc[c] \notin {"none", "backlog"}
      PROVE  created' > 0 /\ (main' = "pause" => created' > MaxWait)
  BY <1>2 DEF DeadInv, Serving
<1>3. CASE UNCHANGED vars \/ Edit \/ AcceptFails
  BY <1>2, <1>3 DEF vars, Edit, AcceptFails
<1>4. ASSUME NEW c \in Clients, Accept(c)
      PROVE  created' > 0 /\ (main' = "pause" => created' > MaxWait)
  BY <1>0, <1>4 DEF Accept
<1>5. ASSUME NEW c \in Clients,
             \/ ThreadFails(c) \/ RecvCost(c) \/ RecvZero(c) \/ ConnectionFails(c)
             \/ ReadDocument(c) \/ Clear(c) \/ Assign(c) \/ Check(c) \/ At(c) \/ Send(c) \/ ClientStep(c)
      PROVE  created' > 0 /\ (main' = "pause" => created' > MaxWait)
  <2>1. main' \in {main, "wait"} /\ created' = created
    BY <1>5 DEF ThreadFails, RecvCost, RecvZero, ConnectionFails, ReadDocument, Clear, Assign, Check, At,
       Send, ClientStep, Connect, AskCost, Receive, ReceiveFails, Leave, Kill
  <2>2. \A d \in Clients : pc'[d] \notin {"none", "backlog"} => pc[d] \notin {"none", "backlog"}
    BY <1>0, <1>5 DEF ThreadFails, RecvCost, RecvZero, ConnectionFails, ReadDocument, Clear, Assign,
       Check, At, Send, ClientStep, Connect, AskCost, Receive, ReceiveFails, Leave, Kill
  <2> QED
    BY <1>2, <2>1, <2>2
<1>6. ASSUME EndProcess PROVE FALSE
  BY <1>6 DEF EndProcess, Serving
<1> QED
  BY <1>1, <1>3, <1>4, <1>5, <1>6 DEF Next, ThreadStep, WaitForNone, PressKey, Throw, Corrupt

\* A thread that comes upon an offer it cannot read was disturbed, or the offer has
\* no cost.
LEMMA ThrowExcused ==
  ASSUME TypeInv, AnswerInv, GoodInv, NEW c \in Clients, Throw(c), ~raced
  PROVE  BadCost
<1>0. v \in Vectors
  BY DEF TypeInv, TypeOK
<1>1. pc[c] = "at" /\ ~Readable(next[c])
  BY DEF Throw
<1>2. v = temp[c] /\ next[c] \in 1 .. Len(v)
  <2>1. v = temp[c] /\ next[c] \in 1 .. Len(v) + 1 /\ next[c] <= Len(v)
    BY <1>1 DEF AnswerInv, AnswerOf
  <2>2. Len(v) \in Nat
    BY <1>0 DEF Vectors
  <2> QED
    BY <2>1, <2>2
<1>3. v[next[c]] = NoNumber
  BY <1>1, <1>2 DEF Readable
<1>4. v # <<>>
  BY <1>2
<1>5. PICK d \in Documents : d.whole /\ v = d.offers
  BY <1>4 DEF GoodInv, Good
<1>6. NoNumber \in ToSet(v)
  <2>1. DOMAIN v = 1 .. Len(v)
    BY <1>0 DEF Vectors
  <2> QED
    BY <1>2, <1>3, <2>1 DEF ToSet
<1> QED
  BY <1>5, <1>6 DEF BadCost

LEMMA DiesStep ==
  ASSUME TypeInv, AnswerInv, GoodInv, DeadInv, [Next]_vars, main' # main, Down', Serving
  PROVE  raced \/ BadCost \/ (created > MaxWait /\ "pause" \in {main, main'})
<1> USE DEF Goto, threadVars, mainVars
<1>0. pc \in [Clients -> ThreadPCs] /\ created \in 0 .. MaxThreads
  BY DEF TypeInv, TypeOK
<1>1. CASE WaitForThreads
  BY <1>1 DEF WaitForThreads, Serving
<1>2. CASE PressKey
  BY <1>2 DEF PressKey, DeadInv
<1>3. CASE WaitForNone
  BY <1>3 DEF WaitForNone, DeadInv, Serving
<1>4. ASSUME NEW c \in Clients, Throw(c) PROVE raced \/ BadCost
  BY <1>4, ThrowExcused
<1>5. ASSUME NEW c \in Clients, Corrupt(c) PROVE raced
  <2>1. pc[c] \in Changing /\ Others(c, Using)
    BY <1>5 DEF Corrupt
  <2> QED
    BY <2>1 DEF AnswerInv, Apart, Others
<1>6. ASSUME UNCHANGED main \/ main' = "wait" PROVE FALSE
  BY <1>6 DEF Down
<1>7. CASE UNCHANGED vars \/ Edit \/ AcceptFails
  BY <1>6, <1>7 DEF vars, Edit, AcceptFails
<1>8. ASSUME NEW c \in Clients,
             \/ Accept(c) \/ ThreadFails(c) \/ RecvCost(c) \/ RecvZero(c) \/ ConnectionFails(c)
             \/ ReadDocument(c) \/ Clear(c) \/ Assign(c) \/ Check(c) \/ At(c) \/ Send(c) \/ ClientStep(c)
      PROVE  FALSE
  <2>1. UNCHANGED main \/ main' = "wait"
    BY <1>8 DEF Accept, ThreadFails, RecvCost, RecvZero, ConnectionFails, ReadDocument, Clear, Assign,
       Check, At, Send, ClientStep, Connect, AskCost, Receive, ReceiveFails, Leave, Kill
  <2> QED
    BY <1>6, <2>1
<1> QED
  BY <1>1, <1>2, <1>3, <1>4, <1>5, <1>7, <1>8 DEF Next, ThreadStep

\* The server takes its sockets or its process away from a thread that serves a client
\* only after a race over v, because of a cost that is no number, or when main has more
\* threads to wait for than it can.
THEOREM DiesOnlyInRaces == Spec => DiesOnlyRacing
<1>1. Init => DeadInv
  BY DEF Init, DeadInv, Serving
<1>2. TypeInv /\ AnswerInv /\ GoodInv /\ DeadInv /\ [Next]_vars =>
        [main' # main /\ Down' /\ Serving =>
           raced \/ BadCost \/ (created > MaxWait /\ "pause" \in {main, main'})]_vars
  BY DiesStep
<1> QED
  BY <1>1, <1>2, DeadStep, AnswerInit, AnswerStep, GoodInit, GoodStep, InitType, StepType, PTL
  DEF Spec, DiesOnlyRacing
=============================================================================
