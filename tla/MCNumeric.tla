----------------------------- MODULE MCNumeric ------------------------------
(* An i32 of four bits, with all of its values; an i64 of eight, with the  *)
(* small ones, which are the counts, and those at the ends; floats around  *)
(* zero and at the edge of what fits.                                      *)
EXTENDS Numeric

MCOperands == [i32 |-> 0..15,
               i64 |-> 0..9 \cup {16, 65, 85, 127, 128, 129, 170, 240, 254, 255}]

MCFloats == [neg : BOOLEAN, mag : {0, 1, 2, 3, 15, 16, 17, 31, 32, 600, Inf, NaN}]
=============================================================================
