------------------------------ MODULE MCCalls ------------------------------
(***************************************************************************)
(* Activations: every valid module of two functions, of a bounded number   *)
(* of instructions each, over three choices of opcodes.                     *)
(***************************************************************************)
EXTENDS ControlTyping

CONSTANTS CallerSize, CalleeSize, SharedSize, StartSize  \* instructions per function

G == INSTANCE Modules

Context(ops, consts, t1, t2, shared, funcs) ==
  [ops |-> ops, consts |-> consts, blocks |-> {t2}, labels |-> <<t2>>, results |-> t2,
   locals |-> t1, globals |-> shared, funcs |-> funcs]

Sig(t1, t2) == [t1 |-> t1, t2 |-> t2]

\* The functions of a signature over these opcodes.
Family(ops, consts, sig, shared, funcs, size) ==
  {[t1 |-> sig.t1, t2 |-> sig.t2, locals |-> << >>, body |-> b] :
     b \in G!BodiesUpTo(Context(ops, consts, sig.t1, sig.t2, shared, funcs), sig.t2, size)}

Outer == Sig(<<"i32">>, <<"i32">>)
Inner == Sig(<<"i64", "i32">>, <<"i32">>)
Plain == Sig(<< >>, << >>)

\* A caller that has operands of its own on the stack, and a callee with two
\* arguments that leaves operands behind, or traps.
Calling ==
  {G!Assemble(<<g, f>>, {1}, << >>, << >>, << >>) :
     f \in Family({"i64", "call", "numeric", "local.get"}, {}, Outer, << >>, <<Inner>>, CallerSize),
     g \in Family({"i64", "local.get", "local.set", "block", "return", "br", "unreachable"},
                  {}, Inner, << >>, << >>, CalleeSize)}

\* The same through a table with an entry for the callee, or none.
Indirect ==
  {G!Assemble(<<g, f>>, {1}, << >>, <<[initialized |-> set, func |-> 0]>>, << >>) :
     f \in {h \in Family({"i64", "call_indirect", "local.get"}, {}, Outer, << >>, <<Inner>>, CallerSize) :
              \E k \in 1..Len(h.body) : h.body[k].i.op = "call_indirect"},
     g \in Family({"local.get", "load"}, {}, Inner, << >>, << >>, 2),
     set \in BOOLEAN}

\* A recursive function and the start function, which share a global.
Sharing ==
  {G!Assemble(<<g, f>>, {1}, <<Value("i32", 0)>>, << >>, <<0>>) :
     f \in Family({"call", "global.get", "global.set", "select", "nop"}, {}, Outer, <<"i32">>,
                  <<Plain, Outer>>, SharedSize),
     g \in Family({"global.get", "global.set", "store", "unreachable"}, {1}, Plain, <<"i32">>,
                  << >>, StartSize)}

MCPrograms == Calling \cup (Indirect \cup Sharing)
=============================================================================
