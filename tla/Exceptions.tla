----------------------------- MODULE Exceptions -----------------------------
(***************************************************************************)
(* TRY_CATCH and THROW_EXCEPTION (exception.h): one flag, one jump buffer  *)
(* and one code for the whole process, under C functions that call each    *)
(* other, try, throw and return in any order.  The only thing asked of     *)
(* them is that none returns from inside of a clause.                      *)
(***************************************************************************)
EXTENDS Naturals, Sequences

CONSTANTS Functions,   \* the names of the C functions
          MaxDepth,    \* bound: so many frames on the C stack
          Codes        \* exception_t, but for NO_EXCEPTION

NO_EXCEPTION == "none"

ASSUME ExceptionsAssumption == MaxDepth \in Nat /\ NO_EXCEPTION \notin Codes

VARIABLES
  stack,    \* the C stack, each frame with the clause of a TRY_CATCH it is in
  active, code,   \* of _exception_data
  buffer,   \* _exception_jump_buf: the depth of the frame of the last setjmp, 0 when that has returned
  process   \* "running", or how it ended

exception_vars == <<stack, active, code, buffer, process>>

Clauses == {"none", "try", "catch"}
Frames  == [function : Functions, clause : Clauses]
Ends    == {"exit 0", "exit 1", "abort", "killed", "wild"}

Running  == process = "running"
Depth    == Len(stack)
Innermost == stack[Depth]
InClause(c) == [stack EXCEPT ![Depth] = [function |-> Innermost.function, clause |-> c]]

\* The C stack cut back to the frame of the buffer, which goes on in its catch clause.
Unwound == [SubSeq(stack, 1, buffer) EXCEPT
              ![buffer] = [function |-> stack[buffer].function, clause |-> "catch"]]

End(how) == process' = how /\ UNCHANGED <<stack, active, code, buffer>>

Call(f) == /\ Running /\ Depth < MaxDepth
           /\ stack' = Append(stack, [function |-> f, clause |-> "none"])
           /\ UNCHANGED <<active, code, buffer, process>>

\* Returning does not touch the buffer, even if it is of this frame.
Return == /\ Running /\ Depth > 1 /\ Innermost.clause = "none"
          /\ stack' = SubSeq(stack, 1, Depth - 1)
          /\ buffer' = IF buffer = Depth THEN 0 ELSE buffer
          /\ UNCHANGED <<active, code, process>>

Try == /\ Running /\ Innermost.clause = "none"
       /\ IF active THEN End("abort")
          ELSE /\ buffer' = Depth
               /\ active' = TRUE /\ stack' = InClause("try")
               /\ UNCHANGED <<code, process>>

\* The flag is left set behind the try clause.
LeaveTryActive == /\ Running /\ Innermost.clause = "try"
                  /\ stack' = InClause("none")
                  /\ UNCHANGED <<active, code, buffer, process>>

LeaveTry == /\ Running /\ Innermost.clause = "try"
            /\ active' = FALSE /\ stack' = InClause("none")
            /\ UNCHANGED <<code, buffer, process>>

Throw(c) == /\ Running
            /\ IF ~active THEN End("abort")
               ELSE IF buffer = 0 THEN End("wild")
               ELSE /\ active' = FALSE /\ code' = c
                    /\ stack' = Unwound
                    /\ UNCHANGED <<buffer, process>>

LeaveCatch == /\ Running /\ Innermost.clause = "catch"
              /\ stack' = InClause("none")
              /\ UNCHANGED <<active, code, buffer, process>>

Stop == Running /\ \E how \in {"exit 0", "exit 1", "killed"} : End(how)

ExceptionsInit == /\ \E f \in Functions : stack = <<[function |-> f, clause |-> "none"]>>
                  /\ active = FALSE /\ code = NO_EXCEPTION
                  /\ buffer = 0
                  /\ process = "running"

ExceptionsNext == \/ \E f \in Functions : Call(f)
                  \/ \E c \in Codes : Throw(c)
                  \/ Return \/ Try \/ LeaveTry \/ LeaveCatch \/ Stop

ExceptionsSpec == ExceptionsInit /\ [][ExceptionsNext]_exception_vars

----------------------------------------------------------------------------
(* Properties *)

\* A longjmp never lands in a function that has returned: a buffer can be old,
\* but then the flag keeps throws away from it (exception.h:62-102).
JumpsAreSafe == process # "wild"
=============================================================================
