-------------------------------- MODULE Code --------------------------------
(***************************************************************************)
(* Programs as the parser leaves them and instantiation completes them:    *)
(* functions, and one vector of instructions for each of their bodies and  *)
(* blocks.  Opcodes that pop the same types and push the same type are one *)
(* instruction.                                                            *)
(***************************************************************************)
EXTENDS Stack

CONSTANTS
  NoBlock,   \* the NULL elsepath of an if that has no else
  Programs   \* the instantiated modules the interpreter may be given

ValueTypes == Seq(ValType)
ResultType == {<< >>} \cup {<<t>> : t \in ValType}

\* Instructions; blocks are instruction vectors of their own, in the set B.
Instr(B) ==
  [op : {"const"}, t : ValType, v : Val]
    \cup [op : {"numeric"}, pops : ValueTypes, push : ValType]
    \cup [op : {"bitcount", "divide", "load", "store"}, t : ValType]
    \cup [op : {"drop", "select", "return", "unreachable", "nop", "memory.size", "memory.grow"}]
    \cup [op : {"local.get", "local.set", "local.tee", "global.get", "global.set"}, idx : Nat]
    \cup [op : {"block", "loop"}, rt : ResultType, body : B]
    \cup [op : {"if"}, rt : ResultType, then : B, else : B \cup {NoBlock}]
    \cup [op : {"br", "br_if"}, label : Nat]
    \cup [op : {"br_table"}, labels : Seq(Nat), default : Nat]
    \cup [op : {"call"}, func : Nat]
    \cup [op : {"call_indirect"}, t1 : ValueTypes, t2 : ValueTypes]

\* A function: its signature t1 -> t2, declared locals and body.
Func(B) == [t1 : ValueTypes, t2 : ValueTypes, locals : ValueTypes, body : B]

\* The vectors the parser allocated for the bodies of functions and blocks.
Blocks(p) == DOMAIN p.code

IsProgram(p) ==
  /\ NoBlock \notin Blocks(p)
  /\ p.code \in [Blocks(p) -> Seq(Instr(Blocks(p)))]
  /\ p.funcs \in Seq(Func(Blocks(p))) /\ p.exports \subseteq 0..Len(p.funcs) - 1
  /\ p.globals \in Seq(Values) /\ p.memory \in BOOLEAN
  /\ p.table \in Seq([initialized : BOOLEAN, func : Nat])
  /\ p.start \in Seq(Nat) /\ \A k \in 1..Len(p.start) :
       p.start[k] < Len(p.funcs) /\ p.funcs[p.start[k] + 1].t1 = << >>

ASSUME CodeAssumption == /\ Val \subseteq Nat /\ 0 \in Val
                         /\ \A p \in Programs : IsProgram(p)
=============================================================================
