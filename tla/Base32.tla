------------------------------- MODULE Base32 -------------------------------
(***************************************************************************)
(* The encoding of identifiers and digests: Bytes bytes, read as one       *)
(* big-endian number, as Digits digits.  encode divides the byte array by  *)
(* the radix once per digit, decode multiplies it and adds.                *)
(*                                                                         *)
(* A character is its code point.  The code works with 32 bytes of base    *)
(* 256, 52 digits of base 32 and code points beyond one byte.              *)
(***************************************************************************)
EXTENDS Naturals, Sequences

CONSTANTS
  Bytes, ByteBase,   \* length of a value and base of its elements
  Digits, Radix,     \* length of its spelling and base of a digit
  Alphabet           \* the code point of each digit, in order

ASSUME Base32Assumption ==
  /\ Bytes \in Nat \ {0} /\ Digits \in Nat \ {0}
  /\ ByteBase \in Nat \ {0, 1} /\ Radix \in 2 .. ByteBase
  /\ Alphabet \in [1 .. Radix -> 0 .. ByteBase - 1]
  /\ \A i, j \in 1 .. Radix : Alphabet[i] = Alphabet[j] => i = j

Power(base, n) ==
  LET power[i \in 0 .. n] == IF i = 0 THEN 1 ELSE power[i - 1] * base
  IN  power[n]

\* The first digit of a value is 0 or 1: 256 bits are 51 digits of five bits and
\* one bit.
ASSUME FitAssumption == Power(ByteBase, Bytes) <= 2 * Power(Radix, Digits - 1)

\* One pass of the division loop over a value, most significant byte first.
Remainder(num) ==
  LET rem[i \in 0 .. Bytes] ==
        IF i = 0 THEN 0 ELSE (rem[i - 1] * ByteBase + num[i]) % Radix
  IN  rem

\* Mutant: the remainder is not carried into the next byte.
QuotientUncarried(num) == [i \in 1 .. Bytes |-> num[i] \div Radix]

Quotient(num) ==
  [i \in 1 .. Bytes |-> ((Remainder(num)[i - 1] * ByteBase + num[i]) \div Radix) % ByteBase]

encode(bytes) ==
  LET num[k \in 0 .. Digits] == IF k = 0 THEN bytes ELSE Quotient(num[k - 1])
  IN  [d \in 1 .. Digits |-> Alphabet[Remainder(num[Digits - d])[Bytes] + 1]]

\* The digits, as a set, that a character is taken for.
DigitOf(ch) == {d \in 0 .. Radix - 1 : Alphabet[d + 1] = ch % ByteBase}

\* One pass of the multiplication loop, least significant byte first: the carry
\* out of each byte, where the digit is carried into the last one.
Carry(acc, digit) ==
  LET carry[i \in 0 .. Bytes] ==
        IF i = 0 THEN digit
        ELSE (acc[Bytes + 1 - i] * Radix + carry[i - 1]) \div ByteBase
  IN  carry

Product(acc, digit) ==
  [i \in 1 .. Bytes |-> (acc[i] * Radix + Carry(acc, digit)[Bytes - i]) % ByteBase]

\* Mutant: a carry out of the first byte is dropped.
AccumulateWrapping(acc, digit) == {Product(acc, digit)}

\* A value with one more digit, as a set, empty when it overflows.
Accumulate(acc, digit) ==
  {Product(a, digit) : a \in {x \in {acc} : Carry(x, digit)[Bytes] = 0}}

\* One pass of the loop over the characters, as sets.
Taken(accs, ch) == UNION {Accumulate(a, d) : a \in accs, d \in DigitOf(ch)}

\* The value of a spelling, as a set, empty when it is refused.
decode(s) ==
  LET acc[k \in 0 .. Digits] ==
        IF k = 0 THEN {[i \in 1 .. Bytes |-> 0]} ELSE Taken(acc[k - 1], s[k])
  IN  IF Len(s) = Digits THEN acc[Digits] ELSE {}

\* The first byte of a character beyond one byte is that of no digit.
is_canonical(s) == decode(s) # {} /\ s[1] \in {Alphabet[1], Alphabet[2]}
=============================================================================
