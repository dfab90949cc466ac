------------------------------- MODULE Typing -------------------------------
(***************************************************************************)
(* What a valid module is, as in the WebAssembly specification, block by   *)
(* block.  The interpreter has no validator: validity is an assumption on  *)
(* its input.  A program carries its derivation in the field typing, which *)
(* no machine looks at: for every block its kind, result, function, the    *)
(* blocks its labels stand for (its own first, the function body last),    *)
(* and the operand types before each instruction and at the end, Dead      *)
(* where control cannot arrive.                                            *)
(***************************************************************************)
EXTENDS Code

Dead == <<"dead">>

\* A derivation for the blocks B, one entry each.
BlockTyping(B) == [kind : {"function", "control", "loop"}, rt : ResultType, func : Nat,
                   labels : Seq(B), types : Seq(ValueTypes \cup {Dead})]

TypesOf(p, b, k) == p.typing[b].types[k]
FuncOf(p, b)     == p.funcs[p.typing[b].func + 1]

\* The operands a branch to label l of block b takes along.
LabelTypes(p, b, l) ==
  LET t == p.typing[p.typing[b].labels[l + 1]]
  IN  IF t.kind = "loop" THEN << >> ELSE t.rt

LocalTypes(p, b) == FuncOf(p, b).t1 \o FuncOf(p, b).locals

Ends(ts, us)      == Len(ts) >= Len(us) /\ SubSeq(ts, Len(ts) - Len(us) + 1, Len(ts)) = us
Less(ts, us)      == SubSeq(ts, 1, Len(ts) - Len(us))
Turns(ts, us, vs, after) == Ends(ts, us) /\ after = Less(ts, us) \o vs

\* Block c is entered from block b, as a label of the given kind and result.
Nested(p, b, c, kind, rt) ==
  LET t == p.typing[c]
  IN  /\ t.kind = kind /\ t.rt = rt /\ t.func = p.typing[b].func
      /\ t.labels = <<c>> \o p.typing[b].labels

BranchTyped(p, b, l, ts) ==
  l < Len(p.typing[b].labels) /\ Ends(ts, LabelTypes(p, b, l))

\* Instruction i of block b takes the operand types ts to after.
InstrTyped(p, b, i, ts, after) ==
  CASE i.op = "const"    -> Turns(ts, << >>, <<i.t>>, after)
    [] i.op = "numeric"  -> Turns(ts, i.pops, <<i.push>>, after)
    [] i.op = "bitcount" -> Turns(ts, <<i.t>>, <<i.t>>, after)
    [] i.op = "divide"   -> Turns(ts, <<i.t, i.t>>, <<i.t>>, after)
    [] i.op = "load"     -> p.memory /\ Turns(ts, <<"i32">>, <<i.t>>, after)
    [] i.op = "store"    -> p.memory /\ Turns(ts, <<"i32", i.t>>, << >>, after)
    [] i.op = "memory.size" -> p.memory /\ Turns(ts, << >>, <<"i32">>, after)
    [] i.op = "memory.grow" -> p.memory /\ Turns(ts, <<"i32">>, <<"i32">>, after)
    [] i.op = "drop"     -> \E t \in ValType : Turns(ts, <<t>>, << >>, after)
    [] i.op = "select"   -> \E t \in ValType : Turns(ts, <<t, t, "i32">>, <<t>>, after)
    [] i.op = "nop"      -> Turns(ts, << >>, << >>, after)
    [] i.op = "unreachable" -> after = Dead
    [] i.op \in {"local.get", "local.set", "local.tee"} ->
         /\ i.idx < Len(LocalTypes(p, b))
         /\ LET t == LocalTypes(p, b)[i.idx + 1]
            IN  Turns(ts, IF i.op = "local.get" THEN << >> ELSE <<t>>,
                          IF i.op = "local.set" THEN << >> ELSE <<t>>, after)
    [] i.op \in {"global.get", "global.set"} ->
         /\ i.idx < Len(p.globals)
         /\ LET t == p.globals[i.idx + 1].valtype
            IN  IF i.op = "global.get" THEN Turns(ts, << >>, <<t>>, after)
                ELSE Turns(ts, <<t>>, << >>, after)
    [] i.op = "block" -> Nested(p, b, i.body, "control", i.rt) /\ Turns(ts, << >>, i.rt, after)
    [] i.op = "loop"  -> Nested(p, b, i.body, "loop", i.rt) /\ Turns(ts, << >>, i.rt, after)
    [] i.op = "if"    ->
         /\ Nested(p, b, i.then, "control", i.rt)
         /\ IF i.else = NoBlock THEN i.rt = << >> ELSE Nested(p, b, i.else, "control", i.rt)
         /\ Turns(ts, <<"i32">>, i.rt, after)
    [] i.op = "br"    -> BranchTyped(p, b, i.label, ts) /\ after = Dead
    [] i.op = "br_if" -> /\ Turns(ts, <<"i32">>, << >>, after)
                         /\ BranchTyped(p, b, i.label, after)
    [] i.op = "br_table" ->
         /\ Ends(ts, <<"i32">>) /\ after = Dead
         /\ \A l \in {i.default} \cup {i.labels[n] : n \in 1..Len(i.labels)} :
              BranchTyped(p, b, l, Less(ts, <<"i32">>))
    [] i.op = "return" -> Ends(ts, FuncOf(p, b).t2) /\ after = Dead
    [] i.op = "call"   -> /\ i.func < Len(p.funcs)
                          /\ Turns(ts, p.funcs[i.func + 1].t1, p.funcs[i.func + 1].t2, after)
    [] i.op = "call_indirect" -> Turns(ts, Append(i.t1, "i32"), i.t2, after)

BlockTyped(p, b) ==
  LET t    == p.typing[b]
      last == Len(p.code[b])
  IN  /\ t.labels # << >> /\ t.labels[1] = b
      /\ Len(t.types) = last + 1
      /\ TypesOf(p, b, 1) = << >>
      /\ TypesOf(p, b, last + 1) \in {t.rt, Dead}
      /\ \A k \in 1..last :
           IF TypesOf(p, b, k) = Dead THEN TypesOf(p, b, k + 1) = Dead
           ELSE InstrTyped(p, b, p.code[b][k], TypesOf(p, b, k), TypesOf(p, b, k + 1))

FuncTyped(p, n) ==
  LET f == p.funcs[n]
      t == p.typing[f.body]
  IN  /\ Len(f.t2) <= 1 /\ BlockTyped(p, f.body)
      /\ t.kind = "function" /\ t.rt = f.t2 /\ t.func = n - 1 /\ t.labels = <<f.body>>

Valid(p) == /\ p.typing \in [Blocks(p) -> BlockTyping(Blocks(p))]
            /\ \A n \in 1..Len(p.funcs) : FuncTyped(p, n)
            /\ \A b \in Blocks(p) : BlockTyped(p, b)
            /\ \A n \in 1..Len(p.table) : p.table[n].initialized => p.table[n].func < Len(p.funcs)
            /\ \A n \in 1..Len(p.globals) : p.globals[n].valtype \in ValType
            /\ \A n \in 1..Len(p.start) : p.funcs[p.start[n] + 1].t2 = << >>

ASSUME TypingAssumption == \A p \in Programs : Valid(p)
=============================================================================
