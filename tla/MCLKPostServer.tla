--------------------------- MODULE MCLKPostServer ---------------------------
(***************************************************************************)
(* Instances of LKPostServer for TLC: two connections, two phones.  Each   *)
(* phone is sent a record by the other, so that a purge by either deletes  *)
(* one record and keeps another; record 3 is one more that "b" wrote.      *)
(***************************************************************************)
EXTENDS LKPostServer, TLC

MCTo   == [m \in Messages |-> IF m = 2 THEN "b" ELSE "a"]
MCFrom == [m \in Messages |-> IF m = 2 THEN "a" ELSE "b"]

MCSymmetry == Permutations(Clients)

=============================================================================
