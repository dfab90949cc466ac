-------------------------------- MODULE Host --------------------------------
(***************************************************************************)
(* The process (main.c), from its options to its exit status.  parse and   *)
(* interpret_function catch what is thrown below them and return it as a   *)
(* code, init_interpreter is called without a net, and main looks at the   *)
(* codes.  What happens inside of the three is calls, returns and perhaps  *)
(* a throw from any depth; Work bounds the calls of the parser, the guest  *)
(* may go on for ever.                                                     *)
(***************************************************************************)
EXTENDS Exceptions, FiniteSets

CONSTANTS Commands,    \* command lines: sequences of options
          Arguments,   \* what an uninitialized argument may hold
          Results,     \* what a function may return
          Work         \* bound: calls below parse

NULL == "NULL"

VARIABLES
  command,   \* the options
  local,     \* the local variables of main
  ex,        \* the code parse or interpret_function has to return
  pc,        \* what main is doing: options, then parse, init, interpret, then print
  step,      \* how far it has come with it
  work, thrown   \* calls the parser has left; has anything been thrown?

vars == <<stack, active, code, buffer, process, command, local, ex, pc, step, work, thrown>>

Main  == Running /\ Depth = 1
Guarded == pc \in {"parse", "interpret"}

Bodyless  == UNCHANGED <<command, work, thrown>>
NoJumps   == UNCHANGED <<stack, active, code, buffer>>

Exit(how) == End(how) /\ UNCHANGED <<local, ex, pc, step>> /\ Bodyless
Goes(p, s) == pc' = p /\ step' = s /\ Bodyless

----------------------------------------------------------------------------
(* Options *)

Option  == command[local.optind]
Reading(kind) == Main /\ pc = "options" /\ local.optind <= Len(command) /\ Option.kind = kind

Sets(record) == /\ local' = [record EXCEPT !.optind = @ + 1]
                /\ NoJumps /\ UNCHANGED <<process, ex>> /\ Goes("options", "read")

OptionPath     == Reading("p") /\ local.path = NULL /\ Sets([local EXCEPT !.path = Option.value])
OptionFunction == Reading("f") /\ local.function = NULL /\ Sets([local EXCEPT !.function = Option.value])

\* parse_arg: an unknown type is reported and leaves a as it was; without a value
\* there is nothing for strtoul to read.
Parsed == IF Option.value = "unknown type" THEN local.a ELSE Option.value

\* The argument is added before it is parsed.
OptionArgumentEarly ==
  Reading("a") /\ Option.value # "no value"
    /\ Sets([local EXCEPT !.parameters = Append(@, local.a), !.a = Parsed])

OptionArgument ==
  Reading("a") /\ Option.value # "no value"
    /\ Sets([local EXCEPT !.a = Parsed, !.parameters = Append(@, Parsed)])

ArgumentWithoutValue == Reading("a") /\ Option.value = "no value" /\ Exit("killed")

\* An option twice or one there is not; an operand when the options are through.
Operands == \E i \in 1..Len(command) : command[i].kind = "operand"
Usage == /\ \/ Reading("p") /\ local.path # NULL
            \/ Reading("f") /\ local.function # NULL
            \/ Reading("?")
            \/ Main /\ pc = "options" /\ local.optind > Len(command) /\ Operands
         /\ Exit("exit 1")

\* getopt moves operands behind the options.
SkipOperand == Reading("operand") /\ Sets(local)

\* fopen: there may be no path at all.
Opening == Main /\ pc = "options" /\ local.optind > Len(command) /\ ~Operands

OpenFails == /\ Opening /\ local.path \in {NULL, "missing"}
             /\ \E how \in {"exit 1"} \cup (IF local.path = NULL THEN {"killed"} ELSE {}) : Exit(how)

Open == /\ Opening /\ local.path \notin {NULL, "missing"}
        /\ NoJumps /\ UNCHANGED <<process, local, ex>> /\ Goes("parse", "call")

----------------------------------------------------------------------------
(* parse, init_interpreter and interpret_function *)

ASSUME HostAssumption ==
  /\ {"main", "parse", "_parse", "init_interpreter", "interpret_function", "_interpret_function"}
       \subseteq Functions
  /\ \A c \in Commands : c \in Seq([kind : STRING, value : STRING])

Callee == [parse |-> "parse", init |-> "init_interpreter", interpret |-> "interpret_function"]
Body   == [parse |-> "_parse", interpret |-> "_interpret_function"]
Inner  == Functions \ {"main", "parse", "_parse", "init_interpreter", "interpret_function",
                        "_interpret_function"}

Begin == /\ Main /\ step = "call" /\ pc # "print" /\ Call(Callee[pc])
         /\ ex' = NO_EXCEPTION /\ UNCHANGED local
         /\ Goes(pc, IF Guarded THEN "enter" ELSE "body")

Enter == Running /\ step = "enter" /\ Try /\ UNCHANGED <<local, ex>> /\ Goes(pc, "try")

CallBody == /\ Running /\ step = "try" /\ Call(Body[pc])
            /\ UNCHANGED <<local, ex>> /\ Goes(pc, "body")

Bottom == IF Guarded THEN 3 ELSE 2

InnerCall == /\ Running /\ step = "body" /\ (pc = "parse" => work > 0)
             /\ \E f \in Inner : Call(f)
             /\ work' = IF pc = "parse" THEN work - 1 ELSE work
             /\ UNCHANGED <<command, local, ex, pc, step, thrown>>

InnerReturn == /\ Running /\ step = "body" /\ Depth > Bottom /\ Return
               /\ UNCHANGED <<local, ex, pc, step>> /\ Bodyless

\* A throw ends the process, or lands in the catch clause of the guard.
InnerThrow == /\ Running /\ step = "body" /\ \E c \in Codes : Throw(c)
              /\ thrown' = TRUE
              /\ step' = IF process' = "running" THEN "leave" ELSE step
              /\ UNCHANGED <<command, local, ex, pc, work>>

\* An assertion, a division or an address the processor refuses, no memory left.
Dies == Running /\ step = "body" /\ Exit("killed")

\* The body returns, the interpreter's with a result.
BodyReturns == /\ Running /\ step = "body" /\ Depth = Bottom /\ Return
               /\ \E r \in Results :
                    local' = IF pc = "interpret" THEN [local EXCEPT !.ret = r] ELSE local
               /\ UNCHANGED ex /\ Goes(pc, IF Guarded THEN "leave" ELSE "check")

\* A return statement in the try clause.
LeaveByReturn == /\ Running /\ step = "leave"
                 /\ stack' = SubSeq(stack, 1, Depth - 1) /\ step' = "check"
                 /\ UNCHANGED <<active, code, buffer, process, command, local, ex, pc, work, thrown>>

Leave == /\ Running /\ step = "leave"
         /\ \/ LeaveTry /\ UNCHANGED ex
            \/ LeaveCatch /\ ex' = code
         /\ UNCHANGED local /\ Goes(pc, "return")

Returns == Running /\ step = "return" /\ Return /\ UNCHANGED <<local, ex>> /\ Goes(pc, "check")

FollowedBy == [parse |-> "init", init |-> "interpret", interpret |-> "print"]

\* The code is not looked at.
GoOnAnyway == /\ Main /\ step = "check"
              /\ NoJumps /\ UNCHANGED <<process, local, ex>> /\ Goes(FollowedBy[pc], "call")

\* After a failure it is tried once more.
GoOnOrAgain == /\ Main /\ step = "check" /\ NoJumps /\ UNCHANGED <<process, local, ex>>
               /\ Goes(IF ex = NO_EXCEPTION THEN FollowedBy[pc] ELSE pc, "call")

GoOn == /\ Main /\ step = "check" /\ ex = NO_EXCEPTION
        /\ NoJumps /\ UNCHANGED <<process, local, ex>> /\ Goes(FollowedBy[pc], "call")

Report == Main /\ step = "check" /\ ex # NO_EXCEPTION /\ Exit("exit 1")

PrintResult == Main /\ pc = "print" /\ Exit("exit 0")

Init == /\ ExceptionsInit /\ stack[1].function = "main"
        /\ command \in Commands
        /\ \E garbage \in Arguments :
             local = [optind |-> 1, path |-> NULL, function |-> NULL, a |-> garbage,
                      parameters |-> << >>, ret |-> NULL]
        /\ ex = NO_EXCEPTION /\ pc = "options" /\ step = "read" /\ work = Work /\ thrown = FALSE

Next == \/ OptionPath \/ OptionFunction \/ OptionArgument \/ ArgumentWithoutValue \/ SkipOperand
        \/ Usage \/ OpenFails \/ Open \/ Begin \/ Enter \/ CallBody \/ InnerCall \/ InnerReturn
        \/ InnerThrow \/ Dies \/ BodyReturns \/ Leave \/ Returns \/ GoOn \/ Report \/ PrintResult

\* The processor does not stop; nobody else is waited for.
Spec == Init /\ [][Next]_vars /\ WF_vars(Next)

----------------------------------------------------------------------------
(* Properties *)

\* The frames of a C stack that are in such a clause.
Within(c, s) == {d \in 1..Len(s) : s[d].clause = c}

\* One step keeps to what FollowsProtocol says: who may abort, how many frames may
\* try, who may return and who may catch.
ProtocolStep ==
  /\ process' = "abort" => pc = "init" /\ thrown'
  /\ \A d, e \in Within("try", stack') : d = e
  /\ \A d \in 1..Len(stack) : stack[d].clause # "none" => d <= Len(stack')
  /\ \A d \in Within("catch", stack') \ Within("catch", stack) :
       d \in Within("try", stack) /\ stack[d].function = Callee[pc]

\* There is one flag and one buffer, and main calls two functions that use them
\* (parser.c:854-864, interpreter.c:67-77), with one between that throws without.
\* TRY_CATCH is never nested and never met with the flag still set by the last one, and
\* only init_interpreter throws with it clear: nothing else aborts.  A frame in a clause
\* is not returned from.  Whoever catches has tried, and is the function main is in:
\* no throw of the guest lands in parse.
FollowsProtocol == [][ProtocolStep]_exception_vars

\* An exception is never lost: one that is thrown while the guest is set up
\* ends the process, any other makes it fail with status 1, after the stack has
\* been cut back to the function that caught it (main.c:84-99).
ThrowsAreReported ==
  thrown /\ ~Running => CASE process = "abort"  -> pc = "init"
                          [] process = "exit 1" -> Guarded /\ ex \in Codes /\ Depth = 1
                          [] OTHER              -> FALSE

\* The guest is given the arguments of the command line, all of them and in
\* their order, if their types are known (main.c:61-64).
Given     == {i \in 1..Len(command) : command[i].kind = "a"}
GivenTo(i) == {j \in Given : j <= i}
Known     == \A i \in Given : command[i].value # "unknown type"
ArgumentsAsGiven ==
  pc = "interpret" /\ Known =>
    /\ Len(local.parameters) = Cardinality(Given)
    /\ \A i \in Given : local.parameters[Cardinality(GivenTo(i))] = command[i].value

\* The process ends, with whatever status, unless the guest runs for ever.
Stops == <>(~Running) \/ <>[](step = "body" /\ pc \in {"init", "interpret"})
=============================================================================
