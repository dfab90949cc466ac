------------------------------ MODULE MCFlaws ------------------------------
(***************************************************************************)
(* Two small modules on which the interpreter does not do what its         *)
(* comments or its tests say.  Both are valid.                             *)
(***************************************************************************)
EXTENDS Control

CONSTANT Shown   \* which of the modules

MCBlock == {"body", "first", "callee"}

I32(v)     == [op |-> "const", t |-> "i32", v |-> v]
I64(v)     == [op |-> "const", t |-> "i64", v |-> v]
LocalAt(n) == [op |-> "local.get", idx |-> n]

Vectors(body, first) ==
  [b \in MCBlock |-> CASE b = "body" -> body [] b = "first" -> first [] b = "callee" -> <<I32(1)>>]

\* One exported function of type i32 -> t2, and a table with one entry for a
\* function of type nothing -> i32.
Module(t2, code) ==
  [code |-> code,
   funcs |-> <<[t1 |-> <<"i32">>, t2 |-> t2, locals |-> << >>, body |-> "body"],
               [t1 |-> << >>, t2 |-> <<"i32">>, locals |-> << >>, body |-> "callee"]>>,
   exports |-> {0}, globals |-> << >>, table |-> <<[initialized |-> TRUE, func |-> 1]>>,
   start |-> << >>, memory |-> TRUE]

\* A loop that is left or repeated by a br_table.
LoopOverTable ==
  Module(<< >>, Vectors(
    <<[op |-> "loop", rt |-> << >>, body |-> "first"]>>,
    <<LocalAt(0), [op |-> "br_table", labels |-> <<0>>, default |-> 1]>>))

\* call_indirect.wast, "dispatch": the entry is a function of another type.
Dispatch ==
  Module(<<"i64">>, Vectors(
    <<I64(1), LocalAt(0), [op |-> "call_indirect", t1 |-> <<"i64">>, t2 |-> <<"i64">>]>>,
    << >>))

MCPrograms == {IF Shown = "dispatch" THEN Dispatch ELSE LoopOverTable}

----------------------------------------------------------------------------
(* What the repository says *)

\* instruction.h:208: a br_table has labels that can be used as jump targets,
\* whenever it runs.
LabelsUsable == (Fetching /\ Fetched.op = "br_table") => Site \notin clobbered

\* call_indirect.wast:469: a function of another type is not called.
IndirectTypeChecked ==
  [][(Fetching /\ Fetched.op = "call_indirect" /\ Len(frames') > Len(frames)) =>
       LET f == prog.funcs[prog.table[Popped(opd, 1).val + 1].func + 1]
       IN  f.t1 = Fetched.t1 /\ f.t2 = Fetched.t2]_vars
=============================================================================
