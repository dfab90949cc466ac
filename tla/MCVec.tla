------------------------------- MODULE MCVec -------------------------------
(* A vector of up to three entries, with an iterator. *)
EXTENDS VecIterator
=============================================================================
