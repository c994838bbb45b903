--------------------------- MODULE QuadrantServer ---------------------------
(***************************************************************************)
(* The CN1 server, which names the quadrant of a point for one client at a *)
(* time, and its client.  accept is called in two nested loops, and the    *)
(* inner AcceptSocket hides the outer one: a connection that the outer     *)
(* loop accepts stays open and is never served.                            *)
(*                                                                         *)
(* Connections are numbered in the order in which they are made, which is  *)
(* the order in which they are accepted.  A coordinate and an answer are   *)
(* one frame each.                                                         *)
(***************************************************************************)
EXTENDS Integers, Sequences, FiniteSets

CONSTANTS
  MaxConns,   \* bound: connections made
  MaxPoints,  \* bound: points a client asks for
  Coords,     \* the coordinates users enter
  Backlog,    \* listen's second argument
  Faults      \* which of "accept", "kill" can happen

Conns == 1 .. MaxConns

\* What the constants have to be.
QuadrantAssumption ==
  /\ MaxConns \in Nat /\ MaxPoints \in Nat /\ Backlog \in Nat \ {0}
  /\ Coords \subseteq Int
  /\ Faults \subseteq {"accept", "kill"}

VARIABLES
  server,  \* at: in the "outer" or the "inner" accept, in a receive or in send,
           \* or "ended"; accepted: how many; hidden: those that the outer loop
           \* accepted; x, y: the point received, until it is answered
  net,     \* c2s[k], s2c[k]: frames in flight in the two directions
  client   \* of connection k; at: where it is; point: the one it has sent;
           \* response: the answer printed to that, 0 if none; asked: how often

vars == <<server, net, client>>

Serving == {"recvX", "recvY", "send"}

NoPoint == [at |-> "off", point |-> <<0, 0>>, response |-> 0, asked |-> 0]

Init ==
  /\ server = [at |-> "outer", accepted |-> 0, hidden |-> {}, x |-> 0, y |-> 0]
  /\ net = [c2s |-> [k \in Conns |-> <<>>], s2c |-> [k \in Conns |-> <<>>]]
  /\ client = [k \in Conns |-> NoPoint]

-----------------------------------------------------------------------------
connected == Cardinality({k \in Conns : client[k].at # "off"})

\* The connection that is served.
AcceptSocket == server.accepted

\* Mutant: on one of the axes a coordinate of 0 counts as positive.
QuadrantOfZero(a, b) == IF a >= 0 THEN (IF b > 0 THEN 1 ELSE 4) ELSE (IF b > 0 THEN 2 ELSE 3)

\* The if statements: a coordinate of 0 counts as negative.
Quadrant(a, b) == IF a > 0 THEN (IF b > 0 THEN 1 ELSE 4) ELSE (IF b > 0 THEN 2 ELSE 3)

\* accept, in the inner loop or in the outer one.
Accept ==
  /\ server.accepted < connected
  /\ LET k == server.accepted + 1 IN
       \/ /\ server.at = "inner"
          /\ server' = [server EXCEPT !.accepted = k, !.at = "recvX"]
       \/ /\ server.at = "outer"
          /\ server' = [server EXCEPT !.accepted = k, !.at = "inner", !.hidden = @ \cup {k}]
  /\ UNCHANGED <<net, client>>

\* accept fails: the inner loop falls back to the outer one, whose failure ends
\* the process.
AcceptFails ==
  /\ "accept" \in Faults /\ server.at \in {"inner", "outer"}
  /\ server' = [server EXCEPT !.at = IF @ = "inner" THEN "outer" ELSE "ended"]
  /\ UNCHANGED <<net, client>>

\* A coordinate is received.
Recv ==
  /\ server.at \in {"recvX", "recvY"} /\ net.c2s[AcceptSocket] # <<>>
  /\ LET n == Head(net.c2s[AcceptSocket]) IN
       server' = IF server.at = "recvX" THEN [server EXCEPT !.at = "recvY", !.x = n]
                                        ELSE [server EXCEPT !.at = "send", !.y = n]
  /\ net' = [net EXCEPT !.c2s[AcceptSocket] = Tail(@)]
  /\ UNCHANGED client

Send ==
  /\ server.at = "send" /\ server' = [server EXCEPT !.at = "recvX", !.x = 0, !.y = 0]
  /\ net' = IF client[AcceptSocket].at = "gone" THEN net
            ELSE [net EXCEPT !.s2c[AcceptSocket] = Append(@, Quadrant(server.x, server.y))]
  /\ UNCHANGED client

\* Nothing more can be received from, or sent to, the connection.
Broken ==
  /\ server.at \in Serving /\ client[AcceptSocket].at = "gone"
  /\ server.at = "send" \/ net.c2s[AcceptSocket] = <<>>

\* Mutant: a receive that returns 0 does not end the loop.
ClientGoneUnnoticed ==
  /\ Broken
  /\ server' = [server EXCEPT !.at = "recvX"]
  /\ UNCHANGED <<net, client>>

\* A receive returns 0 or fails, or send does: the connection is closed.
ClientGone ==
  /\ Broken
  /\ server' = [server EXCEPT !.at = "inner", !.x = 0, !.y = 0]
  /\ UNCHANGED <<net, client>>

-----------------------------------------------------------------------------
\* The client connects; one that meets a full backlog gives up.
Connect ==
  /\ server.at # "ended" /\ connected < MaxConns /\ connected - server.accepted < Backlog
  /\ client' = [client EXCEPT ![connected + 1].at = "input"]
  /\ UNCHANGED <<server, net>>

\* Two numbers; after input that is none, what x and y happen to hold is sent.
Ask(k, a, b) ==
  /\ client[k].at = "input" /\ client[k].asked < MaxPoints
  /\ client' = [client EXCEPT ![k] = [at |-> "waiting", point |-> <<a, b>>, response |-> 0, asked |-> @.asked + 1]]
  /\ net' = IF server.at = "ended" THEN net ELSE [net EXCEPT !.c2s[k] = @ \o <<a, b>>]
  /\ UNCHANGED server

ShowAnswer(k) ==
  /\ client[k].at = "waiting" /\ net.s2c[k] # <<>>
  /\ client' = [client EXCEPT ![k].at = "input", ![k].response = Head(net.s2c[k])]
  /\ net' = [net EXCEPT !.s2c[k] = Tail(@)]
  /\ UNCHANGED server

\* The server's process has ended: the client leaves.
Leave(k) ==
  /\ client[k].at = "waiting" /\ server.at = "ended"
  /\ client' = [client EXCEPT ![k] = [NoPoint EXCEPT !.at = "gone"]]
  /\ net' = [net EXCEPT !.s2c[k] = <<>>]
  /\ UNCHANGED server

\* The process is killed, perhaps between its two sends; what is unread may be
\* lost.
Kill(k) ==
  /\ "kill" \in Faults /\ client[k].at \notin {"off", "gone"}
  /\ client' = [client EXCEPT ![k] = [NoPoint EXCEPT !.at = "gone"]]
  /\ \E n \in 0 .. Len(net.c2s[k]) :
       net' = [net EXCEPT !.c2s[k] = SubSeq(@, 1, n), !.s2c[k] = <<>>]
  /\ UNCHANGED server

-----------------------------------------------------------------------------
ServerStep == Accept \/ Recv \/ Send \/ ClientGone

ClientStep(k) == ShowAnswer(k) \/ Leave(k)

Next ==
  \/ ServerStep \/ AcceptFails \/ Connect
  \/ \E k \in Conns : ClientStep(k) \/ Kill(k) \/ \E a, b \in Coords : Ask(k, a, b)

Spec == Init /\ [][Next]_vars

Fairness == WF_vars(ServerStep) /\ \A k \in Conns : WF_vars(ClientStep(k))

-----------------------------------------------------------------------------
\* Only a connection of the inner loop is ever served, and no more is in flight
\* than one point and its answer.
TypeOK ==
  /\ server.at \in Serving \cup {"outer", "inner", "ended"}
  /\ server.accepted \in 0 .. connected /\ server.hidden \subseteq 1 .. server.accepted
  /\ server.at \in Serving => AcceptSocket \notin server.hidden
  /\ {server.x, server.y} \subseteq Coords \cup {0}
  /\ \A k \in Conns :
       /\ client[k].at \in {"off", "input", "waiting", "gone"}
       /\ client[k].response \in 0 .. 4 /\ client[k].asked \in 0 .. MaxPoints
       /\ Len(net.c2s[k]) + Len(net.s2c[k]) <= 2

\* The quadrants as they are numbered: counter-clockwise from the positive one.
IsQuadrant(q, a, b) == q \in 1 .. 4 /\ (a > 0 <=> q \in {1, 4}) /\ (b > 0 <=> q \in {1, 2})

\* An answer that is printed names the quadrant of the point its client has asked
\* for, also when clients before it left in mid-point; no client that the outer
\* loop accepted, and so never the first one, has ever been sent an answer.
AnswersRight ==
  \A k \in Conns :
    /\ client[k].response # 0 => IsQuadrant(client[k].response, client[k].point[1], client[k].point[2])
    /\ k = 1 \/ k \in server.hidden => client[k].response = 0 /\ net.s2c[k] = <<>>

\* What the server holds of the point of this connection.
Held(k) ==
  IF k # AcceptSocket \/ server.at \notin {"recvY", "send"} THEN <<>>
  ELSE IF server.at = "recvY" THEN <<server.x>> ELSE <<server.x, server.y>>

\* While a client waits its point is whole, in what the server has received and what
\* is in flight, or its answer is on its way: no coordinate is left behind by the
\* client that was served before, and none is taken for the other.
Underway ==
  server.at # "ended" =>
    \A k \in Conns :
      client[k].at = "waiting" => net.s2c[k] # <<>> \/ Held(k) \o net.c2s[k] = client[k].point

\* A client waits, all who came before it have gone or are never served, and its
\* connection is one that the inner loop serves or will serve.
Turn(k, a, b) ==
  /\ k > 1 /\ k \notin server.hidden /\ server.at \in Serving \cup {"inner"}
  /\ client[k].at = "waiting" /\ client[k].point = <<a, b>>
  /\ \A j \in 1 .. k - 1 : client[j].at = "gone" \/ j \in server.hidden

\* The quadrant of the point has been printed, the client has gone, or an accept
\* has failed.
Settled(k, a, b) ==
  \/ client[k].point = <<a, b>> /\ IsQuadrant(client[k].response, a, b)
  \/ client[k].at = "gone" \/ k \in server.hidden \/ server.at \in {"outer", "ended"}

\* The first client to connect is never served; every later one is told the
\* quadrant of its point once those served before it have left.
Served == \A k \in Conns, a \in Coords, b \in Coords : Turn(k, a, b) ~> Settled(k, a, b)

=============================================================================
