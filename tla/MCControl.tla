----------------------------- MODULE MCControl -----------------------------
(***************************************************************************)
(* Structured control inside one activation: every valid function of a     *)
(* bounded number of instructions, over four choices of opcodes.          *)
(***************************************************************************)
EXTENDS ControlTyping

CONSTANTS UnwindSize, LoopSize, IfSize, TableSize  \* instructions per function

G == INSTANCE Modules

Context(ops, consts, rt) ==
  [ops |-> ops, consts |-> consts, blocks |-> {<< >>, <<"i32">>}, labels |-> <<rt>>,
   results |-> rt, locals |-> <<"i32">>, globals |-> << >>, funcs |-> << >>]

\* The functions of type i32 -> rt over these opcodes.
Family(ops, consts, rt, size) ==
  {G!Assemble(<<[t1 |-> <<"i32">>, t2 |-> rt, locals |-> << >>, body |-> b]>>,
              {0}, << >>, << >>, << >>) : b \in G!BodiesUpTo(Context(ops, consts, rt), rt, size)}

\* Branches and returns that leave operands behind and carry a result out.
Unwinding == Family({"numeric", "block", "br", "return"}, {1}, <<"i32">>, UnwindSize)

\* Loops, left and repeated by branches at different depths.
Looping == Family({"loop", "block", "br", "br_if", "local.get"}, {}, << >>, LoopSize)

\* Conditionals, with branches out of both paths.
Choosing == Family({"if", "br", "br_if", "drop", "local.get"}, {1}, <<"i32">>, IfSize)

\* A choice between the labels of nested blocks, and a local set on the way.
Switching == Family({"block", "br_table", "local.get", "local.tee"}, {}, <<"i32">>, TableSize)

MCPrograms == Unwinding \cup (Looping \cup (Choosing \cup Switching))
=============================================================================
