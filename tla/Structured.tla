------------------------------ MODULE Structured ------------------------------
(***************************************************************************)
(* What the evaluation loop promises for a valid module, without its two   *)
(* stacks: every activation and every entered block is a context with a    *)
(* list of operands of its own.  There are no markers and nothing has to   *)
(* be popped down to: a context that is left takes its operands with it,   *)
(* but for the results, which the context below receives.  An instruction  *)
(* that does not find what it needs has no step.                           *)
(***************************************************************************)
EXTENDS Typing

VARIABLES
  prog,      \* the module, chosen once
  contexts,  \* the innermost last
  results,   \* what the outermost activation has left
  globals,
  mode,      \* "start", "run", "idle" or "dead", as in module Control
  outcome    \* how the last run ended

vars == <<prog, contexts, results, globals, mode, outcome>>

BlockContext(body, kind, rt) ==
  [instrs |-> body, ip |-> 0, kind |-> kind, result |-> rt, operands |-> << >>, locals |-> << >>]

FuncContext(f, args) ==
  [instrs |-> f.body, ip |-> 0, kind |-> "function", result |-> f.t2, operands |-> << >>,
   locals |-> args \o [k \in 1..Len(f.locals) |-> Value(f.locals[k], 0)]]

Depth      == Len(contexts)
Innermost  == contexts[Depth]
Operands   == Innermost.operands
Activation == CHOOSE a \in 1..Depth : /\ contexts[a].kind = "function"
                                      /\ \A k \in a + 1..Depth : contexts[k].kind # "function"
Locals     == contexts[Activation].locals

Running  == mode \in {"start", "run"}
AtEnd    == Innermost.ip >= Len(prog.code[Innermost.instrs])
Fetching == Running /\ contexts # << >> /\ ~AtEnd
Fetched  == prog.code[Innermost.instrs][Innermost.ip + 1]

----------------------------------------------------------------------------
(* What an instruction needs *)

\* Label l stands for the context l places below, in the same activation.
IsLabel(l) == l < Depth /\ Activation <= Depth - l
Carried(l) == IF contexts[Depth - l].kind = "loop" THEN << >> ELSE contexts[Depth - l].result
Labels(i)  == IF i.op = "br_table" THEN {i.default} \cup {i.labels[n] : n \in 1..Len(i.labels)}
              ELSE {i.label}

\* The type of the n-th operand from the top, for the opcodes that take any.
TypeAt(n) == IF n <= Len(Operands) THEN Popped(Operands, n).valtype ELSE "unknown"

Exists(i) ==
  CASE i.op \in {"local.get", "local.set", "local.tee"} -> i.idx < Len(Locals)
    [] i.op \in {"global.get", "global.set"}            -> i.idx < Len(globals)
    [] i.op \in {"load", "store", "memory.size"}        -> prog.memory
    [] i.op = "call"                                    -> i.func < Len(prog.funcs)
    [] i.op \in {"br", "br_if", "br_table"}             -> \A l \in Labels(i) : IsLabel(l)
    [] OTHER                                            -> TRUE

Needs(i) ==
  CASE i.op = "numeric"                          -> i.pops
    [] i.op = "bitcount"                         -> <<i.t>>
    [] i.op = "divide"                           -> <<i.t, i.t>>
    [] i.op = "store"                            -> <<"i32", i.t>>
    [] i.op \in {"load", "memory.grow", "if", "br_if", "br_table"} -> <<"i32">>
    [] i.op = "drop"                             -> <<TypeAt(1)>>
    [] i.op = "select"                           -> <<TypeAt(2), TypeAt(2), "i32">>
    [] i.op \in {"local.set", "local.tee"}       -> <<Locals[i.idx + 1].valtype>>
    [] i.op = "global.set"                       -> <<globals[i.idx + 1].valtype>>
    [] i.op = "return"                           -> contexts[Activation].result
    [] i.op = "call"                             -> prog.funcs[i.func + 1].t1
    [] i.op = "call_indirect"                    -> Append(i.t1, "i32")
    [] OTHER                                     -> << >>

Rest == Dropped(Operands, Len(Needs(Fetched)))

\* What a branch takes along lies below the condition.
Branches(i) == i.op \in {"br", "br_if", "br_table"} => \A l \in Labels(i) : Holds(Rest, Carried(l))

Ready(i) == Exists(i) /\ Holds(Operands, Needs(i)) /\ Branches(i)

At(ops) == Fetching /\ Fetched.op \in ops /\ Ready(Fetched)

----------------------------------------------------------------------------
(* Steps *)

Proceed == UNCHANGED <<prog, mode, outcome>>

\* The innermost context goes on, with other operands.
Onward(operands) == [contexts EXCEPT ![Depth] = [Innermost EXCEPT !.ip = Innermost.ip + 1,
                                                                  !.operands = operands]]

Push(values) == /\ contexts' = Onward(Rest \o values)
                /\ UNCHANGED results /\ Proceed

\* The contexts above n are left, and the one below receives the values.
LeaveTo(n, values) ==
  /\ IF n = 0 THEN contexts' = << >> /\ results' = values
     ELSE /\ contexts' = [SubSeq(contexts, 1, n) EXCEPT
                            ![n] = [contexts[n] EXCEPT !.operands = contexts[n].operands \o values]]
          /\ UNCHANGED results
  /\ UNCHANGED globals /\ Proceed

Const == At({"const"}) /\ Push(<<Value(Fetched.t, Fetched.v)>>) /\ UNCHANGED globals

Pushed(i) == CASE i.op = "numeric" -> i.push [] i.op = "memory.size" -> "i32" [] OTHER -> i.t

Compute == /\ At({"numeric", "bitcount", "divide", "load", "memory.size"})
           /\ \E v \in Val : Push(<<Value(Pushed(Fetched), v)>>)
           /\ UNCHANGED globals

Discard == At({"drop", "store", "nop"}) /\ Push(<< >>) /\ UNCHANGED globals

Select == /\ At({"select"})
          /\ Push(<<Popped(Operands, IF Popped(Operands, 1).val # 0 THEN 3 ELSE 2)>>)
          /\ UNCHANGED globals

LocalGet == At({"local.get"}) /\ Push(<<Locals[Fetched.idx + 1]>>) /\ UNCHANGED globals

\* local.tee leaves what it has stored.
LocalSet ==
  /\ At({"local.set", "local.tee"})
  /\ contexts' = [Onward(IF Fetched.op = "local.set" THEN Rest ELSE Operands)
                    EXCEPT ![Activation].locals[Fetched.idx + 1] = Popped(Operands, 1)]
  /\ UNCHANGED <<results, globals>> /\ Proceed

GlobalGet == At({"global.get"}) /\ Push(<<globals[Fetched.idx + 1]>>) /\ UNCHANGED globals

GlobalSet == /\ At({"global.set"}) /\ Push(<< >>)
             /\ globals' = [globals EXCEPT ![Fetched.idx + 1] = Popped(Operands, 1)]

Open(body, kind) == /\ contexts' = Append(Onward(Rest), BlockContext(body, kind, Fetched.rt))
                    /\ UNCHANGED <<results, globals>> /\ Proceed

EnterBlock == At({"block"}) /\ Open(Fetched.body, "control")
EnterLoop  == At({"loop"}) /\ Open(Fetched.body, "loop")
EnterThen  == At({"if"}) /\ Popped(Operands, 1).val # 0 /\ Open(Fetched.then, "control")
EnterElse  == At({"if"}) /\ Popped(Operands, 1).val = 0 /\ Fetched.else # NoBlock
                /\ Open(Fetched.else, "control")
SkipIf     == At({"if"}) /\ Popped(Operands, 1).val = 0 /\ Fetched.else = NoBlock
                /\ Push(<< >>) /\ UNCHANGED globals

End == /\ Running /\ contexts # << >> /\ AtEnd
       /\ Holds(Operands, Innermost.result)
       /\ LeaveTo(Depth - 1, Kept(Operands, Len(Innermost.result)))

\* A block is left with its results, a loop begins again with nothing.
Branch(l) ==
  IF contexts[Depth - l].kind = "loop"
  THEN /\ contexts' = [SubSeq(contexts, 1, Depth - l) EXCEPT
                         ![Depth - l] = [contexts[Depth - l] EXCEPT !.ip = 0, !.operands = << >>]]
       /\ UNCHANGED <<results, globals>> /\ Proceed
  ELSE LeaveTo(Depth - l - 1, Kept(Rest, Len(Carried(l))))

Br      == At({"br"}) /\ Branch(Fetched.label)
BrIf    == At({"br_if"}) /\ Popped(Operands, 1).val # 0 /\ Branch(Fetched.label)
NotBrIf == At({"br_if"}) /\ Popped(Operands, 1).val = 0 /\ Push(<< >>) /\ UNCHANGED globals

BrTable == LET v == Popped(Operands, 1).val
           IN  /\ At({"br_table"})
               /\ Branch(IF v < Len(Fetched.labels) THEN Fetched.labels[v + 1] ELSE Fetched.default)

Return == /\ At({"return"})
          /\ LeaveTo(Activation - 1, Kept(Operands, Len(Needs(Fetched))))

\* The arguments are the topmost operands.
Enter(f, operands) ==
  /\ contexts' = Append(Onward(Dropped(operands, Len(f.t1))), FuncContext(f, Kept(operands, Len(f.t1))))
  /\ UNCHANGED <<results, globals>> /\ Proceed

Call == At({"call"}) /\ Enter(prog.funcs[Fetched.func + 1], Operands)

\* The entry is there and has the signature the instruction names.
Callable(v) == /\ v < Len(prog.table) /\ prog.table[v + 1].initialized
               /\ LET f == prog.funcs[prog.table[v + 1].func + 1]
                  IN  f.t1 = Fetched.t1 /\ f.t2 = Fetched.t2

CallIndirect ==
  LET v == Popped(Operands, 1).val
  IN  /\ At({"call_indirect"}) /\ Callable(v)
      /\ Enter(prog.funcs[prog.table[v + 1].func + 1], Dropped(Operands, 1))

\* The exceptions an instruction may raise in a valid module.
TrapsOf(i) ==
  CASE i.op = "unreachable"       -> {"REACHED_OP_UNREACHABLE"}
    [] i.op \in {"load", "store"} -> {"MEMORY_ACCESS_OUT_OF_BOUNDS"}
    [] i.op = "memory.grow"       -> {"INVALID_INSTRUCTION"}
    [] i.op = "call_indirect"     -> IF Callable(Popped(Operands, 1).val) THEN {}
                                     ELSE {"VECTOR_EXCEPTION", "UNINITIALIZED"}
    [] OTHER                      -> {}

\* A trap leaves nothing behind; in the start function it takes the process down.
Trap == /\ Fetching /\ Ready(Fetched)
        /\ \E code \in TrapsOf(Fetched) :
             IF mode = "run" THEN mode' = "idle" /\ outcome' = code
             ELSE mode' = "dead" /\ outcome' = "unhandled"
        /\ contexts' = << >> /\ results' = << >>
        /\ UNCHANGED <<prog, globals>>

----------------------------------------------------------------------------
(* The host *)

Invoke == /\ mode = "idle"
          /\ \E k \in prog.exports :
               LET f == prog.funcs[k + 1]
               IN  \E args \in [1..Len(f.t1) -> Val] :
                     contexts' = <<FuncContext(f, [n \in 1..Len(f.t1) |-> Value(f.t1[n], args[n])])>>
          /\ mode' = "run" /\ outcome' = "none"
          /\ UNCHANGED <<prog, results, globals>>

InvokeUnknown == /\ mode = "idle" /\ outcome' = "NOT_FOUND"
                 /\ UNCHANGED <<prog, contexts, results, globals, mode>>

\* The result is handed over, and nothing else is there.
Finish == /\ Running /\ contexts = << >>
          /\ results' = << >> /\ mode' = "idle"
          /\ outcome' = IF mode = "run" THEN "returned" ELSE outcome
          /\ UNCHANGED <<prog, contexts, globals>>

Instantiated == /\ globals = prog.globals
                /\ results = << >> /\ outcome = "none"
                /\ IF prog.start = << >> THEN contexts = << >> /\ mode = "idle"
                   ELSE /\ contexts = <<FuncContext(prog.funcs[prog.start[1] + 1], << >>)>>
                        /\ mode = "start"

Init == prog \in Programs /\ Instantiated

Next == \/ Const \/ Compute \/ Discard \/ Select \/ LocalGet \/ LocalSet \/ GlobalGet \/ GlobalSet
        \/ EnterBlock \/ EnterLoop \/ EnterThen \/ EnterElse \/ SkipIf \/ End
        \/ Br \/ BrIf \/ NotBrIf \/ BrTable \/ Return \/ Call \/ CallIndirect
        \/ Trap \/ Invoke \/ InvokeUnknown \/ Finish

Spec == Init /\ [][Next]_vars

----------------------------------------------------------------------------
(* Properties *)

Types(operands) == [n \in 1..Len(operands) |-> operands[n].valtype]

\* What context k still expects from the one above it.
Awaits(k) == IF k = Depth THEN << >> ELSE contexts[k + 1].result

\* Every context, suspended or not, has the operands its next instruction was
\* validated against, no more and no fewer.
OperandsMatchTyping ==
  \A k \in 1..Depth :
    Types(contexts[k].operands) \o Awaits(k) = TypesOf(prog, contexts[k].instrs, contexts[k].ip + 1)

\* The labels of a context are the contexts below it: a branch finds its target
\* at the depth the label names, and never crosses an activation.
LabelsMatchContexts ==
  \A k \in 1..Depth :
    LET labels == prog.typing[contexts[k].instrs].labels
    IN  /\ Len(labels) <= k
        /\ \A l \in 0..Len(labels) - 1 :
             /\ contexts[k - l].instrs = labels[l + 1]
             /\ contexts[k - l].kind = "function" <=> l = Len(labels) - 1

\* Every instruction finds what it needs: its operands with their types, its
\* locals, globals and functions, and the targets of its branches; and a block
\* that ends has its result.
NeverStuck ==
  Running /\ contexts # << >> =>
    IF AtEnd THEN Types(Operands) = Innermost.result ELSE Ready(Fetched)
=============================================================================
