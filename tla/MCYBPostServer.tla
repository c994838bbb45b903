--------------------------- MODULE MCYBPostServer ---------------------------
(***************************************************************************)
(* Instances of YBPostServer for TLC: two connections and two phones; each *)
(* user may send to either phone, its own included, unless the constraint  *)
(* MCUsers says otherwise.                                                 *)
(***************************************************************************)
EXTENDS YBPostServer, TLC

CONSTANTS c1, c2, p1, p2, m1, m2

MCSymmetry == Permutations(Clients) \cup Permutations(Texts) \cup Permutations(Phones)

\* For the run with liveness, where symmetry is of no use: the users have a phone
\* each and write to each other, and texts are taken in order.
MCPhone == [c \in Clients |-> IF c = c1 THEN p1 ELSE p2]

MCUsers ==
  /\ \A c \in Clients :
       /\ cTel[c] \in {NoPhone, MCPhone[c]}
       /\ pc[c] = "hello" /\ c2s[c] # <<>> => Head(c2s[c]) = MCPhone[c]
       /\ \A k \in 1 .. Len(typed[c]) : typed[c][k].tel # MCPhone[c]
  /\ Used(m2) => Used(m1)

=============================================================================
