-------------------------- MODULE MCStudentRegister --------------------------
(***************************************************************************)
(* Instances of StudentRegister for TLC: two windows.                      *)
(***************************************************************************)
EXTENDS StudentRegister, TLC

CONSTANT i1     \* a student who is in the file from the start

MCInfo == <<i1>>

MCSymmetry == Permutations(Clients) \cup Permutations(Rows)

=============================================================================
