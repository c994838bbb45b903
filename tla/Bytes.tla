------------------------------- MODULE Bytes --------------------------------
(***************************************************************************)
(* Ints as the programs send them: memcpy into a buffer and back, low byte *)
(* first.                                                                  *)
(***************************************************************************)
EXTENDS Naturals, Sequences

Byte == 0 .. 255
Bytes == Seq(Byte)

\* What the bytes of an int count; an int has four.
Place == <<1, 256, 65536, 16777216>>

\* memcpy of the int n into a buffer of this many bytes.
IntBytes(n, bytes) == [i \in 1 .. bytes |-> (n \div Place[i]) % 256]

\* memcpy of a buffer into an int.
Value(bytes) ==
  LET digit(i) == IF i <= Len(bytes) THEN bytes[i] * Place[i] ELSE 0 IN
  digit(1) + digit(2) + digit(3) + digit(4)

\* The numbers an int of this size can hold.
Ints(bytes) == {n \in Nat : n \div Place[bytes] < 256}

\* Letters, of which no program looks at the value, unless by mistake.
Letters(n) == [i \in 1 .. n |-> 49]

=============================================================================
