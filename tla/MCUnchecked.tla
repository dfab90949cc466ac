---------------------------- MODULE MCUnchecked ----------------------------
(***************************************************************************)
(* Modules nobody validated, in a host that calls again after an           *)
(* exception: one function with one block in it, and a second function.    *)
(* The blocks run over their operands, drop markers, branch too far, index *)
(* out of bounds, and use what the interpreter gets wrong.                 *)
(***************************************************************************)
EXTENDS Control

CONSTANT InnerSize   \* instructions of the inner block

MCBlock == {"outer", "inner", "other", "second"}

SeqsUpTo(S, n) == UNION {[1..k -> S] : k \in 0..n}

Const1 == [op |-> "const", t |-> "i32", v |-> 1]
Long0  == [op |-> "const", t |-> "i64", v |-> 0]

Inside ==
  {Const1, Long0, [op |-> "drop"], [op |-> "select"], [op |-> "return"],
   [op |-> "bitcount", t |-> "i32"], [op |-> "memory.grow"],
   [op |-> "local.get", idx |-> 0], [op |-> "local.set", idx |-> 0],
   [op |-> "global.set", idx |-> 7], [op |-> "call", func |-> 1], [op |-> "call", func |-> 7],
   [op |-> "br", label |-> 0], [op |-> "br", label |-> 1], [op |-> "br", label |-> 7],
   [op |-> "br_if", label |-> 0],
   [op |-> "br_table", labels |-> <<1>>, default |-> 0],
   [op |-> "call_indirect", t1 |-> << >>, t2 |-> << >>]}

Inners == SeqsUpTo(Inside, InnerSize)

\* The block in the first function.  The if comes without an else, or with one
\* that adds what is there.
Entering(rt) ==
  {[op |-> "block", rt |-> rt, body |-> "inner"], [op |-> "loop", rt |-> rt, body |-> "inner"],
   [op |-> "if", rt |-> rt, then |-> "inner", else |-> NoBlock],
   [op |-> "if", rt |-> rt, then |-> "inner", else |-> "other"]}

Add == [op |-> "numeric", pops |-> <<"i32", "i32">>, push |-> "i32"]

Module(outer, inner, second, t2, memory) ==
  [code |-> [b \in MCBlock |-> CASE b = "outer" -> outer [] b = "inner" -> inner
                                 [] b = "other" -> <<Add>> [] b = "second" -> second],
   funcs |-> <<[t1 |-> <<"i32">>, t2 |-> t2, locals |-> <<"i64">>, body |-> "outer"],
               [t1 |-> <<"i32">>, t2 |-> << >>, locals |-> << >>, body |-> "second"]>>,
   exports |-> {0}, globals |-> <<Value("i32", 0)>>,
   table |-> <<[initialized |-> TRUE, func |-> 1], [initialized |-> TRUE, func |-> 7]>>,
   start |-> << >>, memory |-> memory]

Get == [op |-> "local.get", idx |-> 0]

Others == {<<Get, [op |-> "call", func |-> 1]>>, <<Get, [op |-> "load", t |-> "i32"]>>,
           <<Get, [op |-> "memory.size"]>>, <<Const1, Get, [op |-> "divide", t |-> "i32"]>>}

MCPrograms ==
  {Module(<<Get, enter>>, inner, << >>, << >>, FALSE) :
     enter \in Entering(<< >>) \cup Entering(<<"i32">>), inner \in Inners}
  \cup {Module(<<Get, enter>>, inner, <<[op |-> "unreachable"]>>, t2, memory) :
     enter \in Entering(<<"i32">>), inner \in Others,
     t2 \in {<<"i32">>, <<"i32", "i32">>}, memory \in BOOLEAN}
=============================================================================
