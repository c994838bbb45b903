------------------------------ MODULE Register ------------------------------
(***************************************************************************)
(* What the student register server (CN4) promises its windows: the        *)
(* requests of one window are carried out whole, in the order they were    *)
(* sent, each in one atomic step on one list of rows.  Nothing is said of  *)
(* processes, of the file or of what a child keeps in memory.              *)
(*                                                                         *)
(* The server has no lock: the promise ends when the register is           *)
(* disturbed, that is, when two children use the file at the same time, a  *)
(* child cannot open it, or a process of the server dies.                  *)
(***************************************************************************)
EXTENDS Sequences, SequencesExt, Naturals

CONSTANTS
  Clients,        \* connections
  VIEW, ADD, DELETE, \* the commands; an add is followed by a row, a delete by a number
  Rows            \* everything a row of the register can be

VARIABLES
  rows,           \* the register
  requests,       \* requests[c]: what c has sent and was not carried out yet
  replies,        \* replies[c]: what was sent to c and it has not read yet
  disturbed       \* the promise has ended

registerVars == <<rows, requests, replies, disturbed>>

RegisterInit ==
  /\ rows \in Seq(Rows)
  /\ requests = [c \in Clients |-> <<>>]
  /\ replies = [c \in Clients |-> <<>>]
  /\ disturbed = FALSE

\* The first n frames of c are taken.
Take(c, n) ==
  /\ Len(requests[c]) >= n
  /\ requests' = [requests EXCEPT ![c] = SubSeq(@, n + 1, Len(@))]

\* c sends frames.
Request(c) ==
  /\ IsPrefix(requests[c], requests'[c])
  /\ \A d \in Clients \ {c} : requests'[d] = requests[d]
  /\ UNCHANGED <<rows, replies>>

\* The reply to a view is the whole register.
View(c) ==
  /\ Take(c, 1)
  /\ Head(requests[c]) = VIEW
  /\ replies' \in {replies, [replies EXCEPT ![c] = Append(@, rows)]}
  /\ UNCHANGED rows

\* A row is added at the end.
Add(c) ==
  /\ Take(c, 2)
  /\ requests[c][1] = ADD /\ requests[c][2] \in Rows
  /\ rows' = Append(rows, requests[c][2])
  /\ UNCHANGED replies

\* The row with the given number is removed, if there is one.
Delete(c) ==
  /\ Take(c, 2)
  /\ requests[c][1] = DELETE
  /\ rows' = IF requests[c][2] \in DOMAIN rows THEN RemoveAt(rows, requests[c][2]) ELSE rows
  /\ UNCHANGED replies

\* c reads a reply, or loses all of them when it hangs up.
Read(c) ==
  /\ replies[c] # <<>>
  /\ replies' \in {[replies EXCEPT ![c] = Tail(@)], [replies EXCEPT ![c] = <<>>]}
  /\ UNCHANGED <<rows, requests>>

\* The connection ends: no whole request is dropped.
Whole(c) ==
  \/ requests[c] # <<>> /\ requests[c][1] = VIEW
  \/ /\ Len(requests[c]) > 1
     /\ \/ requests[c][1] = ADD /\ requests[c][2] \in Rows
        \/ requests[c][1] = DELETE
End(c) ==
  /\ ~Whole(c)
  /\ requests' = [requests EXCEPT ![c] = <<>>]
  /\ UNCHANGED <<rows, replies>>

RegisterNext ==
  \/ disturbed' = TRUE
  \/ /\ disturbed' = disturbed
     /\ \E c \in Clients : Request(c) \/ View(c) \/ Add(c) \/ Delete(c) \/ Read(c) \/ End(c)

RegisterSpec == RegisterInit /\ [][RegisterNext]_registerVars
=============================================================================
