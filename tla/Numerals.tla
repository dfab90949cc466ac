------------------------------ MODULE Numerals ------------------------------
(***************************************************************************)
(* Positional numbers: the bytes of a word in memory, the digits of a      *)
(* LEB128 number, the bits of a register.  Powers and sums are recursive   *)
(* functions, so that there are proofs about them.                         *)
(***************************************************************************)
EXTENDS Integers

Power(b, n) == LET power[k \in Nat] == IF k = 0 THEN 1 ELSE b * power[k - 1]
               IN  power[n]

\* There are no digits but zeros beyond those there are.
DigitAt(digits, i) == IF i \in DOMAIN digits THEN digits[i] ELSE 0

\* The number that digits 0 to n - 1 stand for, the least first.
NumberOf(digits, b, n) ==
  LET sum[k \in Nat] == IF k = 0 THEN 0
                        ELSE sum[k - 1] + DigitAt(digits, k - 1) * Power(b, k - 1)
  IN  sum[n]

\* Bits 0 to n - 1, of which those in S are one.
BitsOf(S, n) == [b \in 0..n - 1 |-> IF b \in S THEN 1 ELSE 0]
Bitsum(S, n) == NumberOf(BitsOf(S, n), 2, n)

\* The digit that counts b^i.
Digit(value, b, i) == (value \div Power(b, i)) % b
=============================================================================
