---------------------------- MODULE VecIterator ----------------------------
(***************************************************************************)
(* An iterator over the vector (vec.h), between any calls on the vector    *)
(* itself.  Its index stands on the entry that was answered last, so that  *)
(* it starts one before the first entry, which is 2^32 - 1 forwards, and   *)
(* all sums are of 32 bits.                                                *)
(***************************************************************************)
EXTENDS Vec, Integers

CONSTANTS Words,    \* numbers a u32 has
          MaxPast   \* bound: so far behind either end next is still called

ASSUME IteratorAssumption == MaxPast \in Nat /\ Words \in Nat /\ MaxLength + 2 * MaxPast + 3 < Words

VARIABLES
  it,       \* index and direction, or NoIterator
  answer,   \* of vec_has_next, until the next call
  seen,     \* what has been answered since the start
  steady    \* no turn and no change of the vector since then?

iterator_vars == <<length, capacity, elements, ret, it, answer, seen, steady>>

NoIterator == [idx |-> 0, dir |-> 0]
NoAnswer   == "none"
Directions == {1, -1}

Next_idx == (it.idx + it.dir) % Words

Answer(idx) == IF idx < length THEN "yes" ELSE "no"

\* What has been seen is no longer told.
Disturbed(how) == IF how /\ it # NoIterator THEN steady' = FALSE /\ seen' = << >>
                  ELSE UNCHANGED <<seen, steady>>

\* vec_iterator
StartAtLast(dir) == IF dir = 1 THEN 0 ELSE length - 1

Start(dir) == IF dir = 1 THEN Words - 1 ELSE length

Iterator(dir) == /\ Alive
                 /\ it' = [idx |-> Start(dir), dir |-> dir]
                 /\ answer' = NoAnswer /\ seen' = << >> /\ steady' = TRUE
                 /\ UNCHANGED vars

SetDirection(dir) == /\ Alive /\ it # NoIterator
                     /\ it' = [it EXCEPT !.dir = dir]
                     /\ Disturbed(dir # it.dir)
                     /\ answer' = NoAnswer /\ UNCHANGED vars

\* The sum as a signed number.
HasNextSigned == /\ Alive /\ it # NoIterator
                 /\ answer' = Answer((IF it.idx > Words \div 2 THEN it.idx - Words ELSE it.idx) + it.dir)
                 /\ UNCHANGED <<vars, it, seen, steady>>

HasNext == /\ Alive /\ it # NoIterator
           /\ answer' = Answer(Next_idx)
           /\ UNCHANGED <<vars, it, seen, steady>>

\* vec_next and vec_nextp: the index moves first, and stays there when there is
\* no such entry.
InReach == Next_idx \in 0..MaxLength + MaxPast \/ Next_idx >= Words - 1 - MaxPast

NextEntry == /\ Alive /\ it # NoIterator /\ InReach
             /\ it' = [it EXCEPT !.idx = Next_idx]
             /\ Get(Next_idx, Error)
             /\ seen' = IF steady /\ ret' # Error THEN Append(seen, ret'.value) ELSE seen
             /\ answer' = NoAnswer /\ UNCHANGED steady

\* Any call on the vector; the iterator is not told.
VecCall == /\ Next /\ UNCHANGED it
           /\ Disturbed(length' # length \/ elements' # elements)
           /\ answer' = NoAnswer

IteratorInit == Init /\ it = NoIterator /\ answer = NoAnswer /\ seen = << >> /\ steady = TRUE

IteratorNext == \/ \E dir \in Directions : Iterator(dir) \/ SetDirection(dir)
                \/ HasNext \/ NextEntry \/ VecCall

IteratorSpec == IteratorInit /\ [][IteratorNext]_iterator_vars

----------------------------------------------------------------------------
(* Properties *)

\* An iterator answers every entry once, in its direction, and says that there
\* is no next one exactly behind the last: at both ends, and for the empty
\* vector, that rests on sums that wrap around (vec.h:156-184).
EveryEntryOnce ==
  it # NoIterator /\ steady =>
    /\ Len(seen) <= length
    /\ \A i \in 1..Len(seen) : seen[i] = Live[IF it.dir = 1 THEN i ELSE length + 1 - i]
    /\ answer # NoAnswer => (answer = "yes" <=> Len(seen) < length)

\* What vec_has_next says is what vec_next does, also after a turn and when the
\* vector has shrunk under the iterator (vec.h:181-189).
HasNextHonest ==
  [][NextEntry /\ answer # NoAnswer => (answer = "yes" <=> ret'.status = "ok")]_iterator_vars
=============================================================================
