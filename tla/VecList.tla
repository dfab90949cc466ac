------------------------------ MODULE VecList ------------------------------
(***************************************************************************)
(* What vec.h promises its callers, without its memory: a list, indexed    *)
(* from 0, whose holes read as the all-zero element.  Every call leaves    *)
(* its answer in ret.                                                      *)
(***************************************************************************)
EXTENDS Naturals, Sequences

CONSTANTS Elem,      \* the elements callers store
          Zero,      \* the element whose bytes are all zero
          MaxLength  \* bound on the length a call may ask for

Element == Elem \cup {Zero}

VARIABLES list, ret

lvars == <<list, ret>>

Ok(v) == [status |-> "ok", value |-> v]
Void  == Ok("void")
Error == [status |-> "VEC_ERROR", value |-> "void"]

Max(a, b) == IF a > b THEN a ELSE b

\* The n first entries of the list, zeroes standing in for the missing ones.
Extended(n) == [i \in 1..n |-> IF i <= Len(list) THEN list[i] ELSE Zero]

Init == list = << >> /\ ret = Void

Add(e) == /\ Len(list) < MaxLength
          /\ list' = Append(list, e)
          /\ ret' = Void

Set(idx, e) == /\ idx < MaxLength
               /\ list' = [Extended(Max(Len(list), idx + 1)) EXCEPT ![idx + 1] = e]
               /\ ret' = Void

\* Entries at idx and above move up by one; past the end, zeroes fill the gap.
Insert(idx, e) ==
  /\ Len(list) < MaxLength /\ idx < MaxLength
  /\ list' = [i \in 1..Max(Len(list), idx) + 1 |->
                CASE i <= idx    -> Extended(idx)[i]
                  [] i = idx + 1 -> e
                  [] OTHER       -> list[i - 1]]
  /\ ret' = Void

Remove(idx) ==
  IF idx < Len(list)
  THEN /\ list' = [i \in 1..Len(list) - 1 |-> IF i <= idx THEN list[i] ELSE list[i + 1]]
       /\ ret' = Ok(list[idx + 1])
  ELSE ret' = Error /\ UNCHANGED list

\* A pop with a default answers the default where the plain one raises.
Pop(ifEmpty) ==
  IF list # << >>
  THEN /\ list' = [i \in 1..Len(list) - 1 |-> list[i]]
       /\ ret' = Ok(list[Len(list)])
  ELSE ret' = ifEmpty /\ UNCHANGED list

Get(idx, ifAbsent) ==
  /\ ret' = IF idx < Len(list) THEN Ok(list[idx + 1]) ELSE ifAbsent
  /\ UNCHANGED list

Peek(ifEmpty) ==
  /\ ret' = IF list # << >> THEN Ok(list[Len(list)]) ELSE ifEmpty
  /\ UNCHANGED list

\* A call that needs memory and gets none raises and changes nothing.
OutOfMemory == ret' = Error /\ UNCHANGED list

Fallbacks == {Error} \cup {Ok(d) : d \in Element}

Next == \/ \E e \in Element : Add(e)
        \/ \E idx \in 0..MaxLength - 1, e \in Element : Set(idx, e) \/ Insert(idx, e)
        \/ \E idx \in 0..MaxLength : Remove(idx)
        \/ \E idx \in 0..MaxLength, f \in Fallbacks : Get(idx, f)
        \/ \E f \in Fallbacks : Pop(f) \/ Peek(f)
        \/ OutOfMemory

Spec == Init /\ [][Next]_lvars
=============================================================================
