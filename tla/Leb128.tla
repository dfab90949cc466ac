------------------------------- MODULE Leb128 -------------------------------
(***************************************************************************)
(* read_LEB (parser.c): a number in base 2^PayloadBits, least digit first, *)
(* read into a register of 2 * IntBits bits.  A number is the set of its   *)
(* bits that are one, so that | is union and a shift moves the members.    *)
(* In the code a payload has 7 bits and an int 32.                         *)
(*                                                                         *)
(* C leaves a shift by the width or more undefined; the shift instructions *)
(* the code is compiled to take the count modulo the width.                *)
(***************************************************************************)
EXTENDS Numerals, Sequences

CONSTANTS PayloadBits, IntBits,
          Kinds     \* the reads there are: maxbits, and whether the number has a sign

ASSUME LebAssumption ==
  /\ PayloadBits \in Nat \ {0} /\ IntBits \in Nat \ {0}
  /\ Kinds \subseteq [maxbits : 1..2 * IntBits, sign : BOOLEAN]

VARIABLES
  kind,    \* of the number that is read
  bytes,   \* what has been read
  result, shift, bcnt,
  phase    \* "reading", "returned" or the exception

lebVars == <<kind, bytes, result, shift, bcnt, phase>>

Continues == PayloadBits       \* the bit 0x80
Negative  == PayloadBits - 1   \* the bit 0x40
Register  == 0..2 * IntBits - 1
Byte      == SUBSET (0..PayloadBits)
Payload(byte) == byte \ {Continues}

\* bits << n for a uint64_t; nothing is shifted out of the lower end.
Shifted(bits, n) == {b + (n % (2 * IntBits)) : b \in bits} \cap Register

\* -(1 << n) for an int, widened to 64 bits.
MinusOneShifted(n) == {b \in Register : b >= (n % IntBits)}

\* The digits a number of maxbits bits takes.
Ceiling == (kind.maxbits + PayloadBits - 1) \div PayloadBits

\* The digits that fit into maxbits bits.
Floor == kind.maxbits \div PayloadBits

\* One digit too many is let through.
MaxDigits == Ceiling

\* The sign is looked for in the place of the continuation.
ExtendedByTopBit(bits, n, byte) ==
  IF kind.sign /\ n < kind.maxbits /\ Continues \in byte THEN bits \cup MinusOneShifted(n)
  ELSE bits

Extended(bits, n, byte) ==
  IF kind.sign /\ n < kind.maxbits /\ Negative \in byte THEN bits \cup MinusOneShifted(n)
  ELSE bits

NextDigit == \E byte \in Byte :
  LET read == result \cup Shifted(Payload(byte), shift)
      next == shift + PayloadBits
  IN  /\ phase = "reading"
      /\ bytes' = Append(bytes, byte)
      /\ shift' = next
      /\ IF Continues \in byte
         THEN /\ bcnt' = bcnt + 1
              /\ result' = read
              /\ phase' = IF bcnt + 1 > MaxDigits THEN "LEB_OVERFLOW" ELSE "reading"
         ELSE /\ result' = Extended(read, next, byte)
              /\ phase' = "returned"
              /\ UNCHANGED bcnt
      /\ UNCHANGED kind

EndOfFile == /\ phase = "reading" /\ phase' = "EOF_BEFORE_FINISHED"
             /\ UNCHANGED <<kind, bytes, result, shift, bcnt>>

LebInit == /\ kind \in Kinds /\ bytes = << >> /\ result = {}
           /\ shift = 0 /\ bcnt = 0 /\ phase = "reading"

LebNext == NextDigit \/ EndOfFile

LebSpec == LebInit /\ [][LebNext]_lebVars

----------------------------------------------------------------------------
(* Properties *)

\* What next_u32, next_s32 and next_s64 make of the register.
Returned == result \cap 0..kind.maxbits - 1

\* The integer that n bits stand for.
Unsigned(bits, n) == Bitsum(bits, n)
Signed(bits, n)   == Unsigned(bits, n) - (IF n - 1 \in bits THEN Power(2, n) ELSE 0)

\* The integer the bytes encode, by the definition of LEB128.
Value ==
  NumberOf([i \in 0..Len(bytes) - 1 |-> Unsigned(Payload(bytes[i + 1]), PayloadBits)],
           Power(2, PayloadBits), Len(bytes))
  - (IF kind.sign /\ Negative \in bytes[Len(bytes)] THEN Power(2, PayloadBits * Len(bytes)) ELSE 0)

InRange == IF kind.sign
           THEN -Power(2, kind.maxbits - 1) <= Value /\ Value < Power(2, kind.maxbits - 1)
           ELSE Value < Power(2, kind.maxbits)

\* A negative number of more digits than an int has room for, and fewer than the
\* type has: 1 << shift has wrapped around.
SignMisplaced == /\ kind.sign /\ Negative \in bytes[Len(bytes)]
                 /\ shift >= IntBits /\ shift < kind.maxbits

\* Whichever way a number is written, padded digits included, the number is what
\* comes back, for each type, sign and length, if it fits the type at all
\* (parser.c:53-69).
ValueDecoded ==
  phase = "returned" /\ InRange /\ Len(bytes) <= Ceiling /\ ~SignMisplaced =>
    (IF kind.sign THEN Signed(Returned, kind.maxbits) ELSE Unsigned(Returned, kind.maxbits)) = Value

\* A number is refused for its length only when no encoding of the type begins
\* like this, and one that goes on too long is refused (parser.c:60-63).
OverlongRefused ==
  /\ phase = "LEB_OVERFLOW" => Len(bytes) > Ceiling
  /\ Len(bytes) <= Ceiling + 1
=============================================================================
