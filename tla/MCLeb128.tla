------------------------------ MODULE MCLeb128 ------------------------------
(* Digits of 3 bits, an int of 4: u32, s32 and s64, scaled down. *)
EXTENDS Leb128

MCKinds == {[maxbits |-> 4, sign |-> FALSE], [maxbits |-> 4, sign |-> TRUE],
            [maxbits |-> 8, sign |-> TRUE]}
=============================================================================
