---------------------------- MODULE BytesProofs -----------------------------
(***************************************************************************)
(* Ints of up to four bytes: what is copied into a buffer is what is       *)
(* copied out of it.                                                       *)
(***************************************************************************)
EXTENDS Bytes, TLAPS

\* What the bytes of an int count.
LEMMA PlaceValues ==
  /\ DOMAIN Place = 1 .. 4
  /\ Place[1] = 1 /\ Place[2] = 256 /\ Place[3] = 65536 /\ Place[4] = 16777216
  BY DEF Place

\* Bytes make an int that is no less than any of them.
LEMMA ValueBounds ==
  ASSUME NEW bytes \in Bytes
  PROVE  /\ Value(bytes) \in Nat
         /\ \A i \in 1 .. Len(bytes) : i <= 4 => Value(bytes) >= bytes[i]
<1>0. Len(bytes) \in Nat /\ \A i \in 1 .. Len(bytes) : bytes[i] \in 0 .. 255
  <2>1. Len(bytes) \in Nat /\ \A i \in 1 .. Len(bytes) : bytes[i] \in Byte
    BY DEF Bytes
  <2> QED
    BY <2>1 DEF Byte
<1> DEFINE n == Len(bytes)
           digit(i) == IF i <= n THEN bytes[i] * Place[i] ELSE 0
<1>0a. n \in Nat /\ \A i \in 1 .. n : bytes[i] \in 0 .. 255
  BY <1>0
<1>1. Value(bytes) = digit(1) + digit(2) + digit(3) + digit(4)
  BY DEF Value
<1>2. ASSUME NEW i \in 1 .. 4
      PROVE  digit(i) \in Nat /\ (i <= n => digit(i) >= bytes[i])
  <2>1. CASE i <= n
    <3> HIDE DEF n
    <3>1. i \in 1 .. n
      BY <1>0a, <2>1
    <3>1a. bytes[i] \in Nat
      BY <1>0a, <3>1
    <3>2. Place[i] \in {1, 256, 65536, 16777216}
      BY PlaceValues
    <3>3. digit(i) = bytes[i] * Place[i]
      BY <2>1
    <3> QED
      BY <3>1a, <3>2, <3>3
  <2>2. CASE ~(i <= n)
    BY <2>2
  <2> QED
    BY <2>1, <2>2
<1> HIDE DEF digit
<1>3. /\ digit(1) \in Nat /\ digit(2) \in Nat /\ digit(3) \in Nat /\ digit(4) \in Nat
      /\ n \in Nat
  BY <1>2 DEF Bytes
<1>4. Value(bytes) \in Nat /\ \A i \in 1 .. 4 : Value(bytes) >= digit(i)
  BY <1>1, <1>3
<1>5. ASSUME NEW i \in 1 .. n, i <= 4 PROVE Value(bytes) >= bytes[i]
  <2> HIDE DEF n
  <2>1. i \in 1 .. 4 /\ bytes[i] \in Nat /\ i <= n
    BY <1>0a, <1>5
  <2>2. Value(bytes) >= digit(i) /\ digit(i) \in Nat /\ digit(i) >= bytes[i]
    BY <1>2, <1>4, <2>1
  <2> QED
    BY <1>4, <2>1, <2>2
<1> QED
  BY <1>4, <1>5

\* Bytes and what is left above them.
LEMMA Quotients ==
  ASSUME NEW n \in Nat
  PROVE  LET p == n \div 256
             q == n \div 65536
             r == n \div 16777216 IN
         /\ p \in Nat /\ q \in Nat /\ r \in Nat
         /\ n % 256 = n - 256 * p /\ p % 256 = p - 256 * q /\ q % 256 = q - 256 * r
         /\ n < 256 => n % 256 = n
         /\ p < 256 => p % 256 = p
         /\ q < 256 => q % 256 = q
         /\ r < 256 => r % 256 = r
<1> DEFINE p == n \div 256
           q == n \div 65536
           r == n \div 16777216
<1>1. /\ p \in Nat /\ 256 * p <= n /\ n < 256 * p + 256
      /\ q \in Nat /\ 65536 * q <= n /\ n < 65536 * q + 65536
      /\ r \in Nat /\ 16777216 * r <= n /\ n < 16777216 * r + 16777216
  BY SMT
<1>2. n % 256 = n - 256 * p
  BY SMT
<1> HIDE DEF p, q, r
<1>3. p % 256 = p - 256 * q
  <2>1. p \div 256 = q
    BY SMT, <1>1
  <2> QED
    BY SMT, <1>1, <2>1
<1>4. q % 256 = q - 256 * r
  <2>1. q \div 256 = r
    BY SMT, <1>1
  <2> QED
    BY SMT, <1>1, <2>1
<1>5. \A m \in Nat : m < 256 => m % 256 = m
  BY SMT
<1> QED
  BY SMT, <1>1, <1>2, <1>3, <1>4, <1>5 DEF p, q, r

\* An int that was copied into a buffer is the same when it is copied back.
LEMMA ValueIs ==
  ASSUME NEW width \in 1 .. 4, NEW n \in Ints(width)
  PROVE  /\ IntBytes(n, width) \in Bytes /\ Len(IntBytes(n, width)) = width
         /\ \A i \in 1 .. width : IntBytes(n, width)[i] = (n \div Place[i]) % 256
         /\ Value(IntBytes(n, width)) = n
<1> DEFINE b == IntBytes(n, width)
<1>1. n \in Nat /\ n \div Place[width] < 256
  BY SMT DEF Ints
<1>2. \A i \in 1 .. width : (n \div Place[i]) % 256 \in Byte
  <2> SUFFICES ASSUME NEW i \in 1 .. width PROVE (n \div Place[i]) % 256 \in Byte
    OBVIOUS
  <2>1. Place[i] \in {1, 256, 65536, 16777216}
    BY SMT, PlaceValues
  <2> QED
    BY SMT, <1>1, <2>1 DEF Byte
<1>3. b = [i \in 1 .. width |-> (n \div Place[i]) % 256]
  BY SMT DEF IntBytes
<1>4. b \in Bytes /\ Len(b) = width /\ \A i \in 1 .. width : b[i] = (n \div Place[i]) % 256
  BY SMT, <1>2, <1>3 DEF Bytes
<1> DEFINE digit(i) == IF i <= width THEN b[i] * Place[i] ELSE 0
<1> HIDE DEF b
<1>5. Value(b) = digit(1) + digit(2) + digit(3) + digit(4)
  BY SMT, <1>4 DEF Value
<1> DEFINE p == n \div 256
           q == n \div 65536
           r == n \div 16777216
<1>6. /\ digit(1) = n % 256
      /\ digit(2) = IF width >= 2 THEN (p % 256) * 256 ELSE 0
      /\ digit(3) = IF width >= 3 THEN (q % 256) * 65536 ELSE 0
      /\ digit(4) = IF width = 4 THEN (r % 256) * 16777216 ELSE 0
  <2>1. digit(1) = n % 256
    <3>1. 1 <= width /\ 1 \in 1 .. width /\ n \div 1 = n /\ n % 256 \in Nat
      BY SMT, <1>1
    <3> QED
      BY SMT, <1>4, <3>1, PlaceValues
  <2>2. digit(2) = IF width >= 2 THEN (p % 256) * 256 ELSE 0
    BY SMT, <1>4, PlaceValues
  <2>3. digit(3) = IF width >= 3 THEN (q % 256) * 65536 ELSE 0
    BY SMT, <1>4, PlaceValues
  <2>4. digit(4) = IF width = 4 THEN (r % 256) * 16777216 ELSE 0
    BY SMT, <1>4, PlaceValues
  <2> QED
    BY <2>1, <2>2, <2>3, <2>4
<1>7. /\ width = 1 => n < 256
      /\ width = 2 => p < 256
      /\ width = 3 => q < 256
      /\ width = 4 => r < 256
  BY SMT, <1>1, PlaceValues
<1>8. /\ p \in Nat /\ q \in Nat /\ r \in Nat
      /\ n % 256 = n - 256 * p /\ p % 256 = p - 256 * q /\ q % 256 = q - 256 * r
      /\ n < 256 => n % 256 = n
      /\ p < 256 => p % 256 = p
      /\ q < 256 => q % 256 = q
      /\ r < 256 => r % 256 = r
  BY SMT, <1>1, Quotients
<1> HIDE DEF digit, p, q, r
<1>9. Value(b) = n
  <2>1. CASE width = 1
    <3>1. digit(1) = n /\ digit(2) = 0 /\ digit(3) = 0 /\ digit(4) = 0
      BY SMT, <1>6, <1>7, <1>8, <2>1
    <3>2. n \in Nat /\ p \in Nat /\ q \in Nat /\ r \in Nat
      BY <1>1, <1>8
    <3> QED
      BY SMT, <1>5, <3>1, <3>2
  <2>2. CASE width = 2
    <3>1. digit(1) = n - 256 * p /\ digit(2) = p * 256 /\ digit(3) = 0 /\ digit(4) = 0
      BY SMT, <1>6, <1>7, <1>8, <2>2
    <3>2. n \in Nat /\ p \in Nat /\ q \in Nat /\ r \in Nat
      BY <1>1, <1>8
    <3> QED
      BY SMT, <1>5, <3>1, <3>2
  <2>3. CASE width = 3
    <3>1. digit(1) = n - 256 * p /\ digit(2) = (p - 256 * q) * 256 /\ digit(3) = q * 65536 /\ digit(4) = 0
      BY SMT, <1>6, <1>7, <1>8, <2>3
    <3>2. n \in Nat /\ p \in Nat /\ q \in Nat /\ r \in Nat
      BY <1>1, <1>8
    <3> QED
      BY SMT, <1>5, <3>1, <3>2
  <2>4. CASE width = 4
    <3>1. digit(1) = n - 256 * p /\ digit(2) = (p - 256 * q) * 256 /\ digit(3) = (q - 256 * r) * 65536
          /\ digit(4) = r * 16777216
      BY SMT, <1>6, <1>7, <1>8, <2>4
    <3>2. n \in Nat /\ p \in Nat /\ q \in Nat /\ r \in Nat
      BY <1>1, <1>8
    <3> QED
      BY SMT, <1>5, <3>1, <3>2
  <2> QED
    BY <2>1, <2>2, <2>3, <2>4
<1> QED
  BY SMT, <1>4, <1>9 DEF b

\* A byte fits in an int of any width.
LEMMA SmallInts ==
  ASSUME NEW width \in 1 .. 4, NEW n \in 0 .. 255
  PROVE  n \in Ints(width)
<1>1. Place[width] \in {1, 256, 65536, 16777216}
  BY PlaceValues
<1> QED
  BY <1>1 DEF Ints

\* Letters are bytes, one for every character.
LEMMA LettersAre ==
  ASSUME NEW n \in Nat
  PROVE  /\ Letters(n) \in Bytes /\ Len(Letters(n)) = n
         /\ \A i \in 1 .. n : Letters(n)[i] = 49
  BY DEF Letters, Bytes, Byte

=============================================================================
