-------------------------------- MODULE Vec --------------------------------
(***************************************************************************)
(* The growable vector every other part of the interpreter is built on     *)
(* (vec.h, the functions CREATE_VEC_ expands to).  elements is the block   *)
(* _elements points to; slots at and above length are allocated but dead,  *)
(* and hold whatever the last calls left there.  One action per call; ret  *)
(* is what the call returned or raised.                                    *)
(***************************************************************************)
EXTENDS Naturals, Sequences

CONSTANTS Elem,         \* the elements callers store
          Zero,         \* the element memset writes: all bytes zero
          MaxLength,    \* bound on the length a call may ask for
          AllocMayFail  \* may realloc return NULL?

ASSUME VecAssumption == /\ MaxLength \in Nat \ {0}
                        /\ AllocMayFail \in BOOLEAN
                        /\ Zero # "void" /\ "void" \notin Elem

Element == Elem \cup {Zero}

VARIABLES length, capacity, elements, ret

vars == <<length, capacity, elements, ret>>

Ok(v)    == [status |-> "ok", value |-> v]
Void     == Ok("void")
Error    == [status |-> "VEC_ERROR", value |-> "void"]
Segfault == [status |-> "segfault", value |-> "void"]

Answers   == {Void, Error, Segfault} \cup {Ok(v) : v \in Element}
Fallbacks == {Error} \cup {Ok(d) : d \in Element}

Max(a, b) == IF a > b THEN a ELSE b

Alive == ret # Segfault

----------------------------------------------------------------------------
(* vec_resize *)

NewCapacity(n) == IF n > capacity THEN n ELSE capacity

\* A slip: memset from the new length on, which wipes what a pop returns.
ResizedClearingFromNewLength(mem, n) ==
  [i \in 0..NewCapacity(n) - 1 |-> IF i < n /\ i < length THEN mem[i] ELSE Zero]

\* The block after a resize: every slot that was dead before the call is
\* cleared, whether the vector grows or shrinks.  A shrink therefore leaves
\* the slots it gives up as they were.
Resized(mem, n) ==
  IF n = length THEN mem
  ELSE [i \in 0..NewCapacity(n) - 1 |-> IF i < length THEN mem[i] ELSE Zero]

\* A slip: forget to record the size of the block realloc returned.
ResizeToKeepingCapacity(n) == length' = n /\ UNCHANGED capacity

ResizeTo(n) == /\ length' = n
               /\ capacity' = NewCapacity(n)

\* The answer of realloc is stored without being looked at (the check tests
\* vec, not ptr), and memset then writes through NULL.
ReallocFails == /\ AllocMayFail /\ Alive
                /\ \E n \in 1..MaxLength : n > capacity
                /\ ret' = Segfault
                /\ UNCHANGED <<length, capacity, elements>>

----------------------------------------------------------------------------
(* The calls *)

Init == /\ length = 0 /\ capacity = 0
        /\ elements = [i \in {} |-> Zero]
        /\ ret = Void

Add(e) == /\ Alive /\ length < MaxLength
          /\ ResizeTo(length + 1)
          /\ elements' = [Resized(elements, length + 1) EXCEPT ![length] = e]
          /\ ret' = Void

Set(idx, e) ==
  LET n == Max(length, idx + 1)
  IN  /\ Alive /\ idx < MaxLength
      /\ ResizeTo(n)
      /\ elements' = [Resized(elements, n) EXCEPT ![idx] = e]
      /\ ret' = Void

\* The entries from idx up move one slot towards the end, last one first.
Insert(idx, e) ==
  LET n   == Max(length + 1, idx + 1)
      mem == Resized(elements, n)
  IN  /\ Alive /\ length < MaxLength /\ idx < MaxLength
      /\ ResizeTo(n)
      /\ elements' = [i \in DOMAIN mem |-> CASE i = idx            -> e
                                             [] i > idx /\ i < n   -> mem[i - 1]
                                             [] OTHER              -> mem[i]]
      /\ ret' = Void

\* memmove closes the gap; the last entry stays behind in the dead slot.
Remove(idx) ==
  /\ Alive
  /\ IF idx < length
     THEN /\ ResizeTo(length - 1)
          /\ elements' = Resized([i \in DOMAIN elements |->
                                    IF i >= idx /\ i < length - 1 THEN elements[i + 1]
                                    ELSE elements[i]], length - 1)
          /\ ret' = Ok(elements[idx])
     ELSE ret' = Error /\ UNCHANGED <<length, capacity, elements>>

\* vec_pop and vec_pop_or: the answer is read out of the slot just given up.
Pop(ifEmpty) ==
  /\ Alive
  /\ IF length > 0
     THEN /\ ResizeTo(length - 1)
          /\ elements' = Resized(elements, length - 1)
          /\ ret' = Ok(Resized(elements, length - 1)[length - 1])
     ELSE ret' = ifEmpty /\ UNCHANGED <<length, capacity, elements>>

\* vec_get, vec_getp and their _or forms.
Get(idx, ifAbsent) ==
  /\ Alive
  /\ ret' = IF idx < length THEN Ok(elements[idx]) ELSE ifAbsent
  /\ UNCHANGED <<length, capacity, elements>>

\* vec_peek, vec_peekp and their _or forms.
Peek(ifEmpty) ==
  /\ Alive
  /\ ret' = IF length > 0 THEN Ok(elements[length - 1]) ELSE ifEmpty
  /\ UNCHANGED <<length, capacity, elements>>

Next == \/ \E e \in Element : Add(e)
        \/ \E idx \in 0..MaxLength - 1, e \in Element : Set(idx, e)
        \/ \E idx \in 0..MaxLength - 1, e \in Element : Insert(idx, e)
        \/ \E idx \in 0..MaxLength : Remove(idx)
        \/ \E f \in Fallbacks : Pop(f)
        \/ \E idx \in 0..MaxLength, f \in Fallbacks : Get(idx, f)
        \/ \E f \in Fallbacks : Peek(f)
        \/ ReallocFails

Spec == Init /\ [][Next]_vars

----------------------------------------------------------------------------
(* Properties *)

\* The type invariant: the block has exactly capacity slots and the live ones
\* fit in it, so that no index below length reads outside the allocation.
TypeOK == /\ capacity \in 0..MaxLength
          /\ length \in 0..capacity
          /\ elements \in [0..capacity - 1 -> Element]
          /\ ret \in Answers

\* The list a caller sees: the live slots.
Live == [i \in 1..length |-> elements[i - 1]]

List == INSTANCE VecList WITH list <- Live

\* vec.h implements the list for as long as memory lasts: the dead slots, and
\* their reuse after a shrink (vec_resize clears before it grows, vec_pop reads
\* the slot it has just given up), never show in the list or in an answer.
ListUntilCrash == List!Init /\ [][List!Next \/ ret' = Segfault]_<<Live, ret>>
=============================================================================
