------------------------------ MODULE MCMemory ------------------------------
(* Eight addresses, pages of four bytes: a memory of one page, and one that *)
(* is as large as the address space.  A byte has one bit; i32 has two       *)
(* bytes, i64 four.                                                         *)
EXTENDS Memory

MCWidths == [i32 |-> {1, 2}, i64 |-> {1, 2, 4}]
=============================================================================
