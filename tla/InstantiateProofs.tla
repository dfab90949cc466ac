-------------------------- MODULE InstantiateProofs --------------------------
(***************************************************************************)
(* For any modules, any size of a word and of a page: what init_interpreter *)
(* leaves behind is what the module says.  The invariant follows the        *)
(* operand stack, which is empty between two items of a valid module, and   *)
(* the payloads, which are those of the module's own constants.             *)
(***************************************************************************)
EXTENDS Instantiate, StackProofs

\* The payloads of a module's constants: no value of another payload can turn up
\* while it is instantiated.
ConstantsOf(e) == {e[n].v : n \in {k \in 1..Len(e) : e[k].op = "const"}}
Literals(m) ==
  (UNION {ConstantsOf(m.globals[n].e) : n \in 1..Len(m.globals)})
    \cup (UNION {ConstantsOf(m.elem[n].offset) : n \in 1..Len(m.elem)})
    \cup (UNION {ConstantsOf(m.data[n].expression) : n \in 1..Len(m.data)})

\* The constants of a module as they are pushed.
Literal == {x \in Values : x.val \in Literals(module)}

\* The types of the variables, with payloads of this module only.
Typed ==
  /\ module \in Modules
  /\ phase \in Phases /\ i \in Nat
  /\ opd \in Seq(Literal)
  /\ memory \in Seq(Nat) /\ Len(memory) <= 1
  /\ table \in Seq(TableEntry)
  /\ globals = << >> \/ \E gs \in Seq(Literal) : globals = <<gs>>
  /\ phase = "global" => globals # << >>
  /\ failure \in Failures
  /\ (phase = "failed") <=> (failure # "none")

\* What has been copied so far: at most one segment, inside of the memory if its
\* end is a number of a word.
Copied ==
  /\ copied \subseteq Nat
  /\ copied # {} => phase \in {"sections", "done", "failed"}

\* The items of a module are of their types.
LEMMA ItemsTyped ==
  ASSUME module \in Modules
  PROVE  /\ module.mems \in Seq(Nat)
         /\ module.tables \in Seq(Nat)
         /\ \A n \in 1..Len(module.elem) :
              module.elem[n] \in [table : Nat, offset : Seq(ConstInstr), init : Seq(Nat)]
         /\ \A n \in 1..Len(module.globals) : module.globals[n] \in [t : ValType, e : Seq(ConstInstr)]
         /\ \A n \in 1..Len(module.data) :
              module.data[n] \in [memidx : Nat, expression : Seq(ConstInstr), length : Nat]
         /\ Len(module.elem) \in Nat /\ Len(module.globals) \in Nat /\ Len(module.data) \in Nat
<1>1. IsModule(module)
  BY InstantiateAssumption
<1>2. ASSUME NEW S, NEW s \in Seq(S) PROVE Len(s) \in Nat /\ \A n \in 1..Len(s) : s[n] \in S
  OBVIOUS
<1>3. /\ module.elem \in Seq([table : Nat, offset : Seq(ConstInstr), init : Seq(Nat)])
      /\ module.globals \in Seq([t : ValType, e : Seq(ConstInstr)])
      /\ module.data \in Seq([memidx : Nat, expression : Seq(ConstInstr), length : Nat])
      /\ module.mems \in Seq(Nat) /\ module.tables \in Seq(Nat)
  BY <1>1, Zenon DEF IsModule
<1>4. /\ Len(module.elem) \in Nat
      /\ \A n \in 1..Len(module.elem) :
           module.elem[n] \in [table : Nat, offset : Seq(ConstInstr), init : Seq(Nat)]
  BY <1>2, <1>3, Zenon
<1>5. /\ Len(module.globals) \in Nat
      /\ \A n \in 1..Len(module.globals) : module.globals[n] \in [t : ValType, e : Seq(ConstInstr)]
  BY <1>2, <1>3, Zenon
<1>6. /\ Len(module.data) \in Nat
      /\ \A n \in 1..Len(module.data) :
           module.data[n] \in [memidx : Nat, expression : Seq(ConstInstr), length : Nat]
  BY <1>2, <1>3, Zenon
<1> QED
  BY <1>3, <1>4, <1>5, <1>6, Zenon

\* A constant expression of the module, as far as it is evaluated.
LEMMA EvaluatedTyped ==
  ASSUME NEW e \in Seq(ConstInstr), ConstantsOf(e) \subseteq Literals(module), CanEvalAll(e),
         globals = << >> \/ \E gs \in Seq(Literal) : globals = <<gs>>
  PROVE  EvalAll(e) \in Seq(Literal) /\ Len(EvalAll(e)) = Len(e)
<1>1. ASSUME NEW n \in 1..Len(e) PROVE Result(e[n]) \in Literal
  <2>1. CanEval(e[n]) /\ e[n] \in ConstInstr
    BY DEF CanEvalAll
  <2>2. CASE e[n].op = "const"
    <3>1. e[n].t \in ValType /\ e[n].v \in Val
      BY <2>1, <2>2 DEF ConstInstr
    <3>2. e[n].v \in Literals(module)
      BY <2>2 DEF ConstantsOf
    <3>3. Result(e[n]) = [marker |-> "value", valtype |-> e[n].t, val |-> e[n].v]
      BY <2>2 DEF Result, Value
    <3> QED
      BY <3>1, <3>2, <3>3 DEF Literal, Values, AnyType
  <2>3. CASE e[n].op # "const"
    <3>1. globals # << >> /\ e[n].idx < Len(globals[1]) /\ e[n].idx \in Nat
      BY <2>1, <2>3 DEF CanEval, ConstInstr
    <3>2. globals[1] \in Seq(Literal)
      BY <3>1
    <3>3. globals[1][e[n].idx + 1] \in Literal
      BY <3>1, <3>2
    <3> QED
      BY <2>3, <3>3 DEF Result
  <2> QED
    BY <2>2, <2>3
<1> QED
  BY <1>1 DEF EvalAll

\* A pop that passes its assertion, of the value pushed last.
LEMMA PoppedTyped ==
  ASSUME NEW S, NEW s \in Seq(S), NEW t, Holds(s, <<t>>)
  PROVE  /\ Len(s) >= 1 /\ Popped(s, 1) \in S /\ Popped(s, 1).valtype = t
         /\ Dropped(s, 1) \in Seq(S)
<1>1. Len(s) >= 1 /\ Len(s) \in Nat /\ s[Len(s) - 1 + 1].valtype = t
  BY DEF Holds
<1>2. Popped(s, 1) = s[Len(s)] /\ s[Len(s)] \in S /\ s[Len(s)].valtype = t
  BY <1>1 DEF Popped
<1> QED
  BY <1>1, <1>2, DroppedType

\* The constants of an item are constants of the module.
LEMMA ItemLiterals ==
  /\ \A n \in 1..Len(module.globals) : ConstantsOf(module.globals[n].e) \subseteq Literals(module)
  /\ \A n \in 1..Len(module.elem) : ConstantsOf(module.elem[n].offset) \subseteq Literals(module)
  /\ \A n \in 1..Len(module.data) : ConstantsOf(module.data[n].expression) \subseteq Literals(module)
BY Zenon DEF Literals

\* No values make the empty sequence.
LEMMA NoneIsEmpty == ASSUME NEW D, D = {}, NEW e PROVE [n \in D |-> e] = << >>
<1> DEFINE f == [n \in D |-> e]
<1>1. D = 1..0 /\ 0 \in Nat
  OBVIOUS
<1>2. f \in [1..0 -> {e}] /\ DOMAIN f = D
  BY <1>1, Zenon
<1>3. f \in UNION {[1..n -> {e}] : n \in Nat}
  BY <1>1, <1>2, Zenon
<1>4. f \in Seq({e})
  BY <1>3, SeqDef, Zenon
<1> HIDE DEF f
<1>5. DOMAIN f = 1..Len(f) /\ Len(f) \in Nat
  BY <1>4, LenProperties
<1>6. Len(f) = 0
  BY <1>2, <1>5
<1>7. f = << >>
  BY <1>4, <1>6, EmptySeq
<1> QED
  BY <1>7 DEF f

\* What the inner loop evaluates is the first instruction, some times or never.
LEMMA EvaluatedOffset ==
  ASSUME NEW offset \in Seq(ConstInstr), i \in Nat
  PROVE  /\ Evaluated(offset) \in Seq(ConstInstr) /\ Len(Evaluated(offset)) <= Len(offset)
         /\ ConstantsOf(Evaluated(offset)) \subseteq ConstantsOf(offset)
         /\ IndexAfter(offset) \in Nat
<1>1. Len(offset) \in Nat
  OBVIOUS
<1>2. CASE Len(offset) > i
  <2>1. Len(offset) - i \in Nat /\ 1 \in 1..Len(offset)
    BY <1>1, <1>2
  <2>2. offset[1] \in ConstInstr
    BY <2>1
  <2>3. /\ Evaluated(offset) \in Seq(ConstInstr) /\ Len(Evaluated(offset)) = Len(offset) - i
        /\ \A k \in 1..Len(offset) - i : Evaluated(offset)[k] = offset[1]
    BY <2>1, <2>2 DEF Evaluated
  <2>4. ConstantsOf(Evaluated(offset)) \subseteq ConstantsOf(offset)
    BY <2>1, <2>3 DEF ConstantsOf
  <2> QED
    BY <1>1, <2>3, <2>4 DEF IndexAfter
<1>3. CASE ~(Len(offset) > i)
  <2>1. 1..Len(offset) - i = {}
    BY <1>1, <1>3
  <2>2. Evaluated(offset) = << >>
    BY <2>1, NoneIsEmpty DEF Evaluated
  <2>3. ConstantsOf(<< >>) = {}
    BY DEF ConstantsOf
  <2> QED
    BY <1>1, <1>3, <2>2, <2>3 DEF IndexAfter
<1> QED
  BY <1>2, <1>3

\* The table after a segment: entries it writes are functions of the segment.
LEMMA StoredTyped ==
  ASSUME table \in Seq(TableEntry), NEW offset, NEW init \in Seq(Nat)
  PROVE  Stored(offset, init) \in Seq(TableEntry) /\ Len(Stored(offset, init)) = Len(table)
<1>1. Len(table) \in Nat /\ Len(init) \in Nat
  OBVIOUS
<1>2. ASSUME NEW n \in 1..Len(table) PROVE Stored(offset, init)[n] \in TableEntry
  <2> DEFINE here(j) == At(offset, j) = n - 1 /\ \A k \in 0..j : At(offset, k) < Len(table)
             J == CHOOSE j \in 0..Len(init) - 1 : At(offset, j) = n - 1
  <2>1. CASE \E j \in 0..Len(init) - 1 : here(j)
    <3>1. \E j \in 0..Len(init) - 1 : At(offset, j) = n - 1
      BY <2>1
    <3>2. J \in 0..Len(init) - 1
      BY <3>1
    <3>3. Stored(offset, init)[n] = [initialized |-> TRUE, funcidx |-> init[1 + J]]
      BY <2>1 DEF Stored
    <3> HIDE DEF J
    <3>4. init[1 + J] \in Nat
      BY <1>1, <3>2
    <3> QED
      BY <3>3, <3>4 DEF TableEntry
  <2>2. CASE ~\E j \in 0..Len(init) - 1 : here(j)
    <3>1. Stored(offset, init)[n] = table[n]
      BY <2>2 DEF Stored
    <3> QED
      BY <3>1
  <2> QED
    BY <2>1, <2>2
<1>3. Stored(offset, init) = [n \in 1..Len(table) |-> Stored(offset, init)[n]]
  BY DEF Stored
<1> QED
  BY <1>1, <1>2, <1>3, IsASeq

\* The type invariant, put together after a step.
LEMMA TypedAgain ==
  ASSUME Typed, module' = module, memory' \in Seq(Nat), Len(memory') <= 1,
         i' \in Nat, opd' \in Seq(Literal), table' \in Seq(TableEntry),
         globals' = << >> \/ \E gs \in Seq(Literal) : globals' = <<gs>>,
         phase' \in Phases, phase' = "global" => globals' # << >>,
         failure' \in Failures, (phase' = "failed") <=> (failure' # "none")
  PROVE  Typed'
<1>1. Literal' = Literal
  BY DEF Literal
<1> QED
  BY <1>1 DEF Typed

\* An element segment leaves types behind, whatever its offset evaluates to.
LEMMA TypedElement == ASSUME Typed, InitElement PROVE Typed'
<1> DEFINE elem   == module.elem[i + 1]
           pushed == opd \o EvalAll(Evaluated(elem.offset))
           offset == Popped(pushed, 1).val
<1>1. /\ i \in Nat /\ i + 1 \in 1..Len(module.elem) /\ module \in Modules /\ phase = "elements"
      /\ UNCHANGED <<module, memory, globals, copied>>
  BY ItemsTyped DEF Typed, InitElement
<1>2. elem.offset \in Seq(ConstInstr) /\ elem.init \in Seq(Nat)
  BY <1>1, ItemsTyped
<1>3. ConstantsOf(elem.offset) \subseteq Literals(module)
  BY <1>1, ItemLiterals
<1> HIDE DEF elem
<1>4. /\ Evaluated(elem.offset) \in Seq(ConstInstr) /\ IndexAfter(elem.offset) \in Nat
      /\ ConstantsOf(Evaluated(elem.offset)) \subseteq Literals(module)
  BY <1>1, <1>2, <1>3, EvaluatedOffset
<1>5. \/ /\ Fail("INVALID_SECTION") \/ EvalFails \/ PopFails(pushed, "i32")
         /\ UNCHANGED <<i, opd, table>>
      \/ /\ CanEvalAll(Evaluated(elem.offset)) /\ Holds(pushed, <<"i32">>)
         /\ opd' = Dropped(pushed, 1) /\ i' = IndexAfter(elem.offset) + 1
         /\ table' = Stored(offset, elem.init)
         /\ GoOn("elements") \/ Fail("VECTOR_EXCEPTION")
  BY DEF InitElement, elem
<1>6. CASE /\ Fail("INVALID_SECTION") \/ EvalFails \/ PopFails(pushed, "i32")
           /\ UNCHANGED <<i, opd, table>>
  <2>1. phase' = "failed" /\ failure' \in Failures \ {"none"}
    BY <1>6 DEF Fail, EvalFails, PopFails, Failures
  <2>2. phase' \in Phases
    BY <2>1 DEF Phases
  <2> QED
    BY <1>1, <1>6, <2>1, <2>2, TypedAgain DEF Typed
<1>7. CASE /\ CanEvalAll(Evaluated(elem.offset)) /\ Holds(pushed, <<"i32">>)
           /\ opd' = Dropped(pushed, 1) /\ i' = IndexAfter(elem.offset) + 1
           /\ table' = Stored(offset, elem.init)
           /\ GoOn("elements") \/ Fail("VECTOR_EXCEPTION")
  <2>1. EvalAll(Evaluated(elem.offset)) \in Seq(Literal)
    BY <1>4, <1>7, EvaluatedTyped DEF Typed
  <2>2. pushed \in Seq(Literal)
    BY <2>1 DEF Typed
  <2> HIDE DEF pushed, offset
  <2>3. opd' \in Seq(Literal)
    BY <1>7, <2>2, PoppedTyped
  <2>4. table' \in Seq(TableEntry)
    BY <1>2, <1>7, StoredTyped DEF Typed
  <2>5. i' \in Nat
    BY <1>4, <1>7
  <2>6. /\ phase' \in Phases /\ failure' \in Failures /\ ((phase' = "failed") <=> (failure' # "none"))
        /\ phase' # "global"
    BY <1>1, <1>7 DEF GoOn, Fail, Typed, Phases, Failures
  <2> QED
    BY <1>1, <1>7, <2>3, <2>4, <2>5, <2>6, TypedAgain DEF Typed
<1> QED
  BY <1>5, <1>6, <1>7

\* So does the initializer of a global.
LEMMA TypedGlobal == ASSUME Typed, InitGlobal PROVE Typed'
<1>1. PICK gs \in Seq(Literal) : globals = <<gs>>
  BY DEF Typed, InitGlobal
<1> DEFINE g      == module.globals[Len(gs) + 1]
           pushed == opd \o EvalAll(g.e)
<1>2. /\ Len(gs) \in Nat /\ Len(gs) + 1 \in 1..Len(module.globals) /\ module \in Modules
      /\ UNCHANGED <<module, i, memory, table, copied>>
  <2>1. globals[1] = gs
    BY <1>1
  <2> QED
    BY <2>1, ItemsTyped DEF Typed, InitGlobal
<1>3. g.e \in Seq(ConstInstr) /\ g.t \in ValType
  BY <1>2, ItemsTyped
<1>4. ConstantsOf(g.e) \subseteq Literals(module)
  BY <1>2, ItemLiterals
<1>5. \/ ~CanEvalAll(g.e) /\ EvalFails /\ UNCHANGED <<opd, globals>>
      \/ ~Holds(pushed, <<g.t>>) /\ PopFails(pushed, g.t) /\ UNCHANGED <<opd, globals>>
      \/ /\ CanEvalAll(g.e) /\ Holds(pushed, <<g.t>>)
         /\ opd' = Dropped(pushed, 1)
         /\ globals' = <<Append(gs, Value(g.t, Popped(pushed, 1).val))>>
         /\ phase' = "global" /\ failure' = failure
  <2>1. globals[1] = gs
    BY <1>1
  <2> QED
    BY <2>1 DEF InitGlobal, GoOn
<1> HIDE DEF g
<1>6. CASE EvalFails /\ UNCHANGED <<opd, globals>>
  <2>1. phase' \in Phases /\ failure' \in Failures /\ phase' = "failed" /\ failure' # "none"
    BY <1>6 DEF EvalFails, Fail, Phases, Failures
  <2> QED
    BY <1>2, <1>6, <2>1, TypedAgain DEF Typed
<1>7. CASE PopFails(pushed, g.t) /\ UNCHANGED <<opd, globals>>
  <2>1. phase' \in Phases /\ failure' \in Failures /\ phase' = "failed" /\ failure' # "none"
    BY <1>7 DEF PopFails, Fail, Phases, Failures
  <2> QED
    BY <1>2, <1>7, <2>1, TypedAgain DEF Typed
<1>8. CASE /\ CanEvalAll(g.e) /\ Holds(pushed, <<g.t>>)
           /\ opd' = Dropped(pushed, 1)
           /\ globals' = <<Append(gs, Value(g.t, Popped(pushed, 1).val))>>
           /\ phase' = "global" /\ failure' = failure
  <2>1. EvalAll(g.e) \in Seq(Literal)
    BY <1>3, <1>4, <1>8, EvaluatedTyped DEF Typed
  <2>2. pushed \in Seq(Literal)
    BY <2>1 DEF Typed
  <2> HIDE DEF pushed
  <2>3. opd' \in Seq(Literal) /\ Popped(pushed, 1) \in Literal
    BY <1>8, <2>2, PoppedTyped
  <2>4. Value(g.t, Popped(pushed, 1).val) \in Literal
    BY <1>3, <2>3 DEF Value, Literal, Values, AnyType
  <2>5. Append(gs, Value(g.t, Popped(pushed, 1).val)) \in Seq(Literal)
    BY <2>4
  <2>6. /\ globals' # << >> /\ \E hs \in Seq(Literal) : globals' = <<hs>>
        /\ phase' \in Phases /\ failure' \in Failures /\ ((phase' = "failed") <=> (failure' # "none"))
    BY <1>8, <2>5 DEF Typed, Phases, InitGlobal
  <2> QED
    BY <1>2, <1>8, <2>3, <2>6, TypedAgain DEF Typed
<1> QED
  BY <1>5, <1>6, <1>7, <1>8

\* The data segment is evaluated like an initializer; its offset is a constant of
\* the module.
LEMMA TypedData ==
  ASSUME Typed, InitData
  PROVE  /\ Typed'
         /\ copied' = copied \/ \E offset \in Literals(module) \cap Val :
              /\ memory # << >> /\ phase' = "sections"
              /\ DataFits(offset, module.data[1].length)
              /\ copied' = offset..offset + module.data[1].length - 1
<1> DEFINE data   == module.data[1]
           pushed == opd \o EvalAll(data.expression)
           offset == Popped(pushed, 1).val
<1>1. /\ 1 \in 1..Len(module.data) /\ module \in Modules /\ phase = "data"
      /\ UNCHANGED <<module, i, memory, table, globals>>
  <2>1. module.data # << >> /\ module \in Modules /\ phase = "data"
        /\ UNCHANGED <<module, i, memory, table, globals>>
    BY DEF Typed, InitData
  <2>2. IsModule(module)
    BY <2>1, InstantiateAssumption
  <2>3. module.data \in Seq([memidx : Nat, expression : Seq(ConstInstr), length : Nat])
    BY <2>2, Zenon DEF IsModule
  <2>4. Len(module.data) \in Nat \ {0}
    BY <2>1, <2>3, EmptySeq
  <2> QED
    BY <2>1, <2>4
<1>2. data.expression \in Seq(ConstInstr) /\ data.length \in Nat
  BY <1>1, ItemsTyped
<1>3. ConstantsOf(data.expression) \subseteq Literals(module)
  BY <1>1, ItemLiterals
<1>5. \/ /\ Fail("INVALID_SECTION") \/ Fail("NO_MEMORY") \/ EvalFails
            \/ PopFails(pushed, "i32")
         /\ UNCHANGED <<opd, copied>>
      \/ /\ CanEvalAll(data.expression) /\ Holds(pushed, <<"i32">>) /\ memory # << >>
         /\ opd' = Dropped(pushed, 1)
         /\ \/ /\ DataFits(offset, data.length)
               /\ copied' = offset..offset + data.length - 1 /\ GoOn("sections")
            \/ Fail("INVALID_SECTION") /\ UNCHANGED copied
  BY DEF InitData
<1>6. CASE /\ Fail("INVALID_SECTION") \/ Fail("NO_MEMORY") \/ EvalFails
              \/ PopFails(pushed, "i32")
           /\ UNCHANGED <<opd, copied>>
  <2>1. phase' = "failed" /\ failure' \in Failures \ {"none"}
    BY <1>6 DEF Fail, EvalFails, PopFails, Failures
  <2>2. phase' \in Phases
    BY <2>1 DEF Phases
  <2> QED
    BY <1>1, <1>6, <2>1, <2>2, TypedAgain DEF Typed
<1>7. CASE /\ CanEvalAll(data.expression) /\ Holds(pushed, <<"i32">>) /\ memory # << >>
           /\ opd' = Dropped(pushed, 1)
           /\ \/ /\ DataFits(offset, data.length)
                 /\ copied' = offset..offset + data.length - 1 /\ GoOn("sections")
              \/ Fail("INVALID_SECTION") /\ UNCHANGED copied
  <2> HIDE DEF data
  <2>1. EvalAll(data.expression) \in Seq(Literal)
    BY <1>2, <1>3, <1>7, EvaluatedTyped DEF Typed
  <2>2. pushed \in Seq(Literal)
    BY <2>1 DEF Typed
  <2> HIDE DEF pushed
  <2>3. opd' \in Seq(Literal) /\ Popped(pushed, 1) \in Literal
    BY <1>7, <2>2, PoppedTyped
  <2>4. offset \in Literals(module) \cap Val
    BY <2>3 DEF Literal, Values
  <2> HIDE DEF offset
  <2>5. /\ phase' \in Phases /\ failure' \in Failures /\ ((phase' = "failed") <=> (failure' # "none"))
        /\ phase' # "global"
    BY <1>1, <1>7 DEF GoOn, Fail, Typed, Phases, Failures
  <2>6. Typed'
    BY <1>1, <2>3, <2>5, TypedAgain DEF Typed
  <2>7. copied' = copied \/ (DataFits(offset, data.length) /\ copied' = offset..offset + data.length - 1
                             /\ phase' = "sections" /\ memory # << >>)
    BY <1>7 DEF GoOn
  <2> QED
    BY <2>4, <2>6, <2>7 DEF data
<1> QED
  BY <1>5, <1>6, <1>7

LEMMA TypedInit == Init => Typed
<1> SUFFICES ASSUME Init PROVE Typed
  OBVIOUS
<1>1. << >> \in Seq(Literal) /\ << >> \in Seq(Nat) /\ << >> \in Seq(TableEntry) /\ Len(<< >>) = 0
  BY EmptySeq
<1> QED
  BY <1>1 DEF Init, Typed, Phases, Failures

LEMMA TypedStep == Typed /\ [Next]_vars => Typed'
<1> SUFFICES ASSUME Typed, [Next]_vars PROVE Typed'
  OBVIOUS
<1>1. CASE InitMemory
  <2>1. /\ module.mems \in Seq(Nat)
        /\ phase = "memory" /\ UNCHANGED <<module, i, opd, table, globals, copied>>
        /\ \/ memory' = memory
           \/ memory' = module.mems /\ ~(Len(module.mems) > 1)
        /\ GoOn("imports") \/ Fail("INVALID_SECTION") \/ Fail("VECTOR_EXCEPTION")
    BY <1>1, ItemsTyped DEF Typed, InitMemory
  <2>2. memory' \in Seq(Nat) /\ Len(memory') <= 1
    BY <2>1 DEF Typed
  <2>3. /\ phase' \in Phases /\ failure' \in Failures /\ ((phase' = "failed") <=> (failure' # "none"))
        /\ phase' # "global"
    BY <2>1 DEF Typed, GoOn, Fail, Phases, Failures
  <2> QED
    BY <2>1, <2>2, <2>3, TypedAgain DEF Typed
<1>2. CASE InitImports
  <2>1. /\ phase = "imports" /\ UNCHANGED <<module, i, opd, memory, table, globals, copied>>
        /\ GoOn("tables") \/ Fail("INVALID_IMPORT") \/ Fail("NO_MEMORY") \/ Fail("INVALID_MEMORY")
    BY <1>2 DEF InitImports
  <2>2. /\ phase' \in Phases /\ failure' \in Failures /\ ((phase' = "failed") <=> (failure' # "none"))
        /\ phase' # "global"
    BY <2>1 DEF Typed, GoOn, Fail, Phases, Failures
  <2> QED
    BY <2>1, <2>2, TypedAgain DEF Typed
<1>3. CASE InitTable
  <2>1. /\ phase = "tables" /\ UNCHANGED <<module, i, opd, memory, globals, copied>>
        /\ GoOn("globals") \/ GoOn("elements") \/ Fail("INVALID_SECTION") \/ Fail("VECTOR_EXCEPTION")
        /\ \/ table' = table
           \/ module.tables # << >> /\ table' = [n \in 1..module.tables[1] |-> Unset]
    BY <1>3 DEF InitTable
  <2>2. /\ phase' \in Phases /\ failure' \in Failures /\ ((phase' = "failed") <=> (failure' # "none"))
        /\ phase' # "global"
    BY <2>1 DEF Typed, GoOn, Fail, Phases, Failures
  <2>3. table' \in Seq(TableEntry)
    <3>1. CASE table' = table
      BY <3>1 DEF Typed
    <3>2. CASE module.tables # << >> /\ table' = [n \in 1..module.tables[1] |-> Unset]
      <4>1. module.tables \in Seq(Nat)
        BY ItemsTyped DEF Typed
      <4>2. module.tables[1] \in Nat
        BY <3>2, <4>1
      <4>3. Unset \in TableEntry
        BY DEF Unset, TableEntry
      <4> QED
        BY <3>2, <4>2, <4>3, IsASeq
    <3> QED
      BY <2>1, <3>1, <3>2
  <2> QED
    BY <2>1, <2>2, <2>3, TypedAgain DEF Typed
<1>4. CASE InitElement
  BY <1>4, TypedElement
<1>5. CASE ElementsDone \/ GlobalsDone \/ NoData \/ RequireSections
  <2>1. /\ phase \in {"elements", "global", "data", "sections"}
        /\ UNCHANGED <<module, i, opd, memory, table, globals, copied>>
        /\ GoOn("globals") \/ GoOn("data") \/ GoOn("sections") \/ GoOn("done") \/ Fail("INVALID_SECTION")
    BY <1>5 DEF ElementsDone, GlobalsDone, NoData, RequireSections
  <2>2. /\ phase' \in Phases /\ failure' \in Failures /\ ((phase' = "failed") <=> (failure' # "none"))
        /\ phase' # "global"
    BY <2>1 DEF Typed, GoOn, Fail, Phases, Failures
  <2> QED
    BY <2>1, <2>2, TypedAgain DEF Typed
<1>6. CASE CreateGlobals
  <2>1. /\ phase = "globals" /\ UNCHANGED <<module, i, opd, memory, table, copied>>
        /\ globals' = << << >> >>
        /\ GoOn("global") \/ GoOn("data")
    BY <1>6 DEF CreateGlobals
  <2>2. << >> \in Seq(Literal)
    BY EmptySeq
  <2>3. /\ phase' \in Phases /\ failure' \in Failures /\ ((phase' = "failed") <=> (failure' # "none"))
        /\ globals' # << >> /\ \E gs \in Seq(Literal) : globals' = <<gs>>
    BY <2>1, <2>2 DEF Typed, GoOn, Phases, Failures
  <2> QED
    BY <2>1, <2>3, TypedAgain DEF Typed
<1>7. CASE InitGlobal
  BY <1>7, TypedGlobal
<1>8. CASE InitData
  BY <1>8, TypedData
<1>9. CASE UNCHANGED vars
  BY <1>9 DEF vars, Typed, Literal
<1> QED
  BY <1>1, <1>2, <1>3, <1>4, <1>5, <1>6, <1>7, <1>8, <1>9 DEF Next

\* The type invariant of the instantiation, and the data segment.
LEMMA CopiedStep == Typed /\ Copied /\ [Next]_vars => Copied'
<1> SUFFICES ASSUME Typed, Copied, [Next]_vars PROVE Copied'
  OBVIOUS
<1>1. CASE InitData
  <2>1. CASE copied' = copied
    <3>1. copied = {}
      BY <1>1 DEF Copied, InitData
    <3> QED
      BY <2>1, <3>1 DEF Copied
  <2>2. CASE copied' # copied
    <3>1. PICK offset \in Literals(module) \cap Val :
            phase' = "sections" /\ copied' = offset..offset + module.data[1].length - 1
      BY <1>1, <2>2, TypedData
    <3>2. offset \in Nat
      BY InstantiateAssumption
    <3>3. module.data[1].length \in Nat
      <4>1. IsModule(module) /\ module.data # << >>
        BY <1>1, InstantiateAssumption DEF Typed, InitData
      <4>2. module.data \in Seq([memidx : Nat, expression : Seq(ConstInstr), length : Nat])
        BY <4>1, Zenon DEF IsModule
      <4>3. 1 \in 1..Len(module.data)
        BY <4>1, <4>2, EmptySeq
      <4> QED
        BY <4>3, ItemsTyped DEF Typed
    <3> QED
      BY <3>1, <3>2, <3>3 DEF Copied
  <2> QED
    BY <2>1, <2>2
<1>2. CASE InitMemory \/ InitImports \/ InitTable \/ InitElement \/ ElementsDone
  <2>1. copied' = copied /\ phase \in {"memory", "imports", "tables", "elements"}
    BY <1>2 DEF InitMemory, InitImports, InitTable, InitElement, ElementsDone
  <2> QED
    BY <2>1 DEF Copied
<1>3. CASE CreateGlobals \/ InitGlobal \/ GlobalsDone \/ NoData
  <2>1. copied' = copied /\ phase \in {"globals", "global", "data"}
    BY <1>3 DEF CreateGlobals, InitGlobal, GlobalsDone, NoData
  <2> QED
    BY <2>1 DEF Copied
<1>4. CASE RequireSections
  BY <1>4 DEF RequireSections, Copied, GoOn, Fail
<1>5. CASE UNCHANGED vars
  BY <1>5 DEF vars, Copied
<1> QED
  BY <1>1, <1>2, <1>3, <1>4, <1>5 DEF Next

LEMMA TypedInvariant == Spec => [](Typed /\ Copied)
<1>1. Init => Typed /\ Copied
  BY TypedInit DEF Init, Copied
<1>2. Typed /\ Copied /\ [Next]_vars => (Typed /\ Copied)'
  BY TypedStep, CopiedStep
<1> QED
  BY <1>1, <1>2, PTL DEF Spec

\* The type invariant: stack, table, globals and memory are always of their types,
\* whichever section is missing or wrong (interpreter.c:38-126, table.c:13-54).
THEOREM TypeCorrect == Spec => []TypeOK
<1>1. Typed /\ Copied => TypeOK
  <2> SUFFICES ASSUME Typed, Copied PROVE TypeOK
    OBVIOUS
  <2>1. Literal \subseteq Values
    BY DEF Literal
  <2>2. Seq(Literal) \subseteq Seq(Values)
    BY <2>1, SeqMonotonic
  <2>3. Len(globals) <= 1 /\ \A n \in 1..Len(globals) : globals[n] \in Seq(Values)
    <3>1. CASE globals = << >>
      BY <3>1, EmptySeq
    <3>2. CASE globals # << >>
      <4>1. PICK gs \in Seq(Literal) : globals = <<gs>>
        BY <3>2 DEF Typed
      <4>2. Len(globals) = 1 /\ globals[1] = gs
        BY <4>1
      <4> QED
        BY <2>2, <4>2
    <3> QED
      BY <3>1, <3>2
  <2> QED
    BY <2>2, <2>3 DEF Typed, Copied, TypeOK
<1> QED
  BY <1>1, TypedInvariant, PTL

----------------------------------------------------------------------------
(* Sums that do not wrap *)

\* The end of a data segment is a number of a word, wherever a constant of the
\* module puts it: the check of interpreter.c:107 adds in 32 bits.
DataEndsInWord(m) ==
  \A v \in Literals(m) : \A n \in 1..Len(m.data) : v + m.data[n].length < Word

\* The same for element segments, of which there is at most one: the loops over the
\* segments and over their instructions share an index (table.c:36).
TableFitsWord(m) ==
  /\ Len(m.elem) <= 1
  /\ \A v \in Literals(m) : \A n \in 1..Len(m.elem) : v + Len(m.elem[n].init) < Word

\* A number that fits into a word, and one that may not.
LEMMA RestOfWord ==
  ASSUME NEW n \in Nat
  PROVE  n % Word <= n /\ (n < Word => n % Word = n)
BY InstantiateAssumption

LEMMA DataStep ==
  ASSUME Typed, Copied, DataInBounds, [Next]_vars, DataEndsInWord(module)
  PROVE  DataInBounds'
<1>1. CASE copied' = {}
  BY <1>1 DEF DataInBounds
<1>2. CASE copied' # {} /\ copied' # copied
  <2>1. InitData
    BY <1>2 DEF Next, vars, InitMemory, InitImports, InitTable, InitElement, ElementsDone, CreateGlobals,
       InitGlobal, GlobalsDone, NoData, RequireSections
  <2>2. PICK offset \in Literals(module) \cap Val :
          /\ memory # << >>
          /\ DataFits(offset, module.data[1].length)
          /\ copied' = offset..offset + module.data[1].length - 1
    BY <1>2, <2>1, TypedData
  <2>3. memory' = memory /\ module.data # << >> /\ IsModule(module)
    BY <2>1, InstantiateAssumption DEF InitData, Typed
  <2>4. module.data \in Seq([memidx : Nat, expression : Seq(ConstInstr), length : Nat])
    BY <2>3, Zenon DEF IsModule
  <2>5. 1 \in 1..Len(module.data)
    BY <2>3, <2>4, EmptySeq
  <2>6. module.data[1].length \in Nat
    BY <2>5, ItemsTyped DEF Typed
  <2>7. PICK length \in Nat : length = module.data[1].length
    BY <2>6
  <2>8. memory[1] \in Nat
    BY <2>2 DEF Typed
  <2>9. PICK pages \in Nat : pages = memory[1]
    BY <2>8
  <2>10. pages * PageSize \in Nat
    BY InstantiateAssumption
  <2>11. PICK bytes \in Nat : bytes = pages * PageSize
    BY <2>10
  <2>12. offset \in Nat /\ offset + length \in Nat /\ offset + length < Word
    <3>1. offset \in Nat
      BY InstantiateAssumption
    <3> QED
      BY <2>2, <2>5, <2>7, <3>1 DEF DataEndsInWord
  <2>13. bytes % Word >= (offset + length) % Word
    BY <2>2, <2>7, <2>9, <2>11 DEF DataFits
  <2>14. bytes % Word <= bytes /\ (offset + length) % Word = offset + length /\ bytes % Word \in Nat
    BY <2>12, RestOfWord, InstantiateAssumption
  <2>15. bytes >= offset + length
    BY <2>12, <2>13, <2>14
  <2>16. \A b \in offset..offset + length - 1 : b < bytes
    BY <2>12, <2>15
  <2> QED
    BY <2>2, <2>3, <2>7, <2>9, <2>11, <2>16 DEF DataInBounds
<1>3. CASE copied' # {} /\ copied' = copied
  <2>1. phase \in {"sections", "done", "failed"}
    BY <1>3 DEF Copied
  <2>2. memory' = memory
    BY <2>1 DEF Next, vars, InitMemory, InitImports, InitTable, InitElement, ElementsDone, CreateGlobals,
       InitGlobal, GlobalsDone, NoData, InitData, RequireSections
  <2> QED
    BY <1>3, <2>2 DEF DataInBounds
<1> QED
  BY <1>1, <1>2, <1>3

\* The data segment never writes outside of the memory, as long as its end does not
\* wrap around (interpreter.c:108-112).
THEOREM DataStaysInside ==
  ASSUME \A m \in Modules : DataEndsInWord(m)
  PROVE  Spec => []DataInBounds
<1>1. Init => DataInBounds
  BY DEF Init, DataInBounds
<1>2. Typed /\ Copied /\ DataInBounds /\ [Next]_vars => DataInBounds'
  BY DataStep DEF Typed
<1> QED
  BY <1>1, <1>2, TypedInvariant, PTL DEF Spec

----------------------------------------------------------------------------
(* The globals *)

\* Between two items of a valid module no operand is left over.
Emptied == ModuleValid => opd = << >>

\* The value of the n-th global, those before it being gs.
GlobalOf(n, gs) ==
  LET c == module.globals[n].e[1]
  IN  IF c.op = "const" THEN Value(module.globals[n].t, c.v)
      ELSE Value(module.globals[n].t, gs[c.idx + 1].val)

GlobalsSoFar ==
  /\ phase \in {"global", "data", "sections", "done"} => globals # << >>
  /\ ModuleValid /\ globals # << >> =>
       /\ Len(globals[1]) <= Len(module.globals)
       /\ \A n \in 1..Len(globals[1]) : globals[1][n] = GlobalOf(n, globals[1])
       /\ phase \in {"data", "sections", "done"} /\ "global" \in module.has =>
            Len(globals[1]) = Len(module.globals)

\* One value pushed on nothing and popped leaves nothing.
LEMMA PoppedAlone ==
  ASSUME opd = << >>, NEW e \in Seq(ConstInstr), Len(e) <= 1, EvalAll(e) \in Seq(Literal),
         Len(EvalAll(e)) = Len(e), NEW t, Holds(opd \o EvalAll(e), <<t>>)
  PROVE  /\ Dropped(opd \o EvalAll(e), 1) = << >>
         /\ Len(e) = 1 /\ Popped(opd \o EvalAll(e), 1) = Result(e[1])
<1>1. opd \o EvalAll(e) = EvalAll(e)
  BY ConcatEmptySeq
<1>2. PICK v \in Seq(Literal) : v = EvalAll(e)
  OBVIOUS
<1>3. Len(v) >= 1 /\ Len(v) <= 1 /\ Len(v) \in Nat
  BY <1>1, <1>2 DEF Holds
<1>4. Len(v) = 1 /\ Popped(v, 1) = v[1]
  BY <1>3 DEF Popped
<1>5. Dropped(v, 1) \in Seq(Literal) /\ Len(Dropped(v, 1)) = 0
  <2>1. 1 \in Nat /\ 1 <= Len(v) /\ Len(v) - 1 = 0
    BY <1>4
  <2>2. Dropped(v, 1) \in Seq(Literal) /\ Len(Dropped(v, 1)) = Len(v) - 1
    BY <2>1, DroppedType
  <2> QED
    BY <2>1, <2>2
<1>6. Dropped(v, 1) = << >>
  BY <1>5, EmptySeq
<1>7. v[1] = Result(e[1])
  BY <1>2, <1>4 DEF EvalAll
<1> QED
  BY <1>1, <1>2, <1>4, <1>6, <1>7

\* The initializers of a valid module, item by item.
LEMMA ValidItems ==
  ASSUME module \in Modules, ModuleValid
  PROVE  /\ \A n \in 1..Len(module.globals) :
              /\ Len(module.globals[n].e) = 1
              /\ module.globals[n].e[1].op # "const" =>
                   /\ module.globals[n].e[1].idx \in Nat
                   /\ module.globals[n].e[1].idx < n - 1
         /\ \A n \in 1..Len(module.elem) :
              /\ Len(module.elem[n].offset) = 1
              /\ module.elem[n].offset[1].op = "const"
         /\ \A n \in 1..Len(module.data) : Len(module.data[n].expression) = 1
<1>1. ASSUME NEW e \in Seq(ConstInstr), Len(e) = 1
      PROVE  e[1].op # "const" => e[1].idx \in Nat
  <2>1. e[1] \in ConstInstr
    BY <1>1
  <2> QED
    BY <2>1 DEF ConstInstr
<1>2. ASSUME NEW n \in 1..Len(module.globals)
      PROVE  /\ Len(module.globals[n].e) = 1
             /\ module.globals[n].e[1].op # "const" =>
                  module.globals[n].e[1].idx \in Nat /\ module.globals[n].e[1].idx < n - 1
  <2>1. module.globals[n].e \in Seq(ConstInstr)
    BY ItemsTyped
  <2>2. InitializerValid(module.globals[n].e, module.globals[n].t, n - 1)
    BY DEF ModuleValid
  <2>3. /\ Len(module.globals[n].e) = 1
        /\ module.globals[n].e[1].op # "const" => module.globals[n].e[1].idx < n - 1
    BY <2>2, Zenon DEF InitializerValid
  <2> QED
    BY <1>1, <2>1, <2>3
<1>3. ASSUME NEW n \in 1..Len(module.elem)
      PROVE  Len(module.elem[n].offset) = 1 /\ module.elem[n].offset[1].op = "const"
  <2>1. module.elem[n].offset \in Seq(ConstInstr)
    BY ItemsTyped
  <2>2. InitializerValid(module.elem[n].offset, "i32", 0)
    BY DEF ModuleValid
  <2>3. /\ Len(module.elem[n].offset) = 1
        /\ module.elem[n].offset[1].op # "const" => module.elem[n].offset[1].idx < 0
    BY <2>2, Zenon DEF InitializerValid
  <2>4. module.elem[n].offset[1].op # "const" => module.elem[n].offset[1].idx \in Nat
    BY <1>1, <2>1, <2>3
  <2> QED
    BY <2>3, <2>4
<1>4. ASSUME NEW n \in 1..Len(module.data)
      PROVE  Len(module.data[n].expression) = 1
  BY Zenon DEF ModuleValid, InitializerValid
<1> QED
  BY <1>2, <1>3, <1>4

\* An initializer leaves the stack empty and appends the value of its global.
LEMMA GlobalStep ==
  ASSUME Typed, Emptied, GlobalsSoFar, ModuleValid, InitGlobal
  PROVE  /\ opd' = << >>
         /\ \/ globals' = globals /\ phase' = "failed"
            \/ /\ phase' = "global" /\ \E v : globals' = <<Append(globals[1], v)>>
               /\ Len(globals[1]) < Len(module.globals)
               /\ globals'[1][Len(globals[1]) + 1] = GlobalOf(Len(globals[1]) + 1, globals[1])
<1>1. PICK gs \in Seq(Literal) : globals = <<gs>>
  BY DEF Typed, InitGlobal
<1> DEFINE n      == Len(gs) + 1
           g      == module.globals[n]
           pushed == opd \o EvalAll(g.e)
<1>2. /\ Len(gs) \in Nat /\ n \in 1..Len(module.globals) /\ module \in Modules
      /\ Len(gs) < Len(module.globals) /\ globals[1] = gs
  <2>1. globals[1] = gs
    BY <1>1
  <2> QED
    BY <2>1, ItemsTyped DEF Typed, InitGlobal
<1>3. g.e \in Seq(ConstInstr) /\ Len(g.e) = 1 /\ ConstantsOf(g.e) \subseteq Literals(module)
  BY <1>2, ItemsTyped, ItemLiterals, ValidItems
<1>4. \/ (EvalFails \/ PopFails(pushed, g.t)) /\ UNCHANGED <<opd, globals>>
      \/ /\ CanEvalAll(g.e) /\ Holds(pushed, <<g.t>>)
         /\ opd' = Dropped(pushed, 1)
         /\ globals' = <<Append(gs, Value(g.t, Popped(pushed, 1).val))>>
         /\ phase' = "global"
  BY <1>2 DEF InitGlobal, GoOn
<1>5. CASE (EvalFails \/ PopFails(pushed, g.t)) /\ UNCHANGED <<opd, globals>>
  BY <1>5 DEF EvalFails, PopFails, Fail, Emptied
<1>6. CASE /\ CanEvalAll(g.e) /\ Holds(pushed, <<g.t>>)
           /\ opd' = Dropped(pushed, 1)
           /\ globals' = <<Append(gs, Value(g.t, Popped(pushed, 1).val))>>
           /\ phase' = "global"
  <2>1. EvalAll(g.e) \in Seq(Literal) /\ Len(EvalAll(g.e)) = Len(g.e)
    BY <1>3, <1>6, EvaluatedTyped DEF Typed
  <2>2. Dropped(pushed, 1) = << >> /\ Popped(pushed, 1) = Result(g.e[1])
    <3>1. opd = << >> /\ Len(g.e) <= 1
      BY <1>3 DEF Emptied
    <3> QED
      BY <1>3, <1>6, <2>1, <3>1, PoppedAlone
  <2>3. Value(g.t, Result(g.e[1]).val) = GlobalOf(n, gs)
    BY <1>2 DEF Result, GlobalOf, Value
  <2> DEFINE v == Value(g.t, Popped(pushed, 1).val)
  <2>4. v = GlobalOf(n, gs)
    BY <2>2, <2>3
  <2>5. globals' = <<Append(gs, v)>> /\ opd' = << >> /\ phase' = "global"
    BY <1>6, <2>2
  <2>6. v \in Literal
    <3>1. pushed \in Seq(Literal)
      BY <2>1 DEF Typed
    <3>2. Popped(pushed, 1) \in Literal
      BY <1>6, <3>1, PoppedTyped
    <3>3. g.t \in ValType
      BY <1>2, ItemsTyped
    <3> QED
      BY <3>2, <3>3 DEF Value, Literal, Values, AnyType
  <2> HIDE DEF v, n, g, pushed
  <2>7. globals'[1] = Append(gs, v) /\ Append(gs, v)[Len(gs) + 1] = v
    BY <2>5, <2>6
  <2> QED
    BY <1>2, <2>4, <2>5, <2>7 DEF n
<1> QED
  BY <1>4, <1>5, <1>6

\* An element segment of a valid module: nothing is left over, and a segment that
\* is stored is the first of them, from its constant on.
LEMMA ElementStep ==
  ASSUME Typed, Emptied, ModuleValid, InitElement
  PROVE  /\ opd' = << >>
         /\ phase' \in {"elements", "failed"}
         /\ phase' = "elements" =>
              /\ i = 0 /\ i' # 0
              /\ table' = Stored(module.elem[1].offset[1].v, module.elem[1].init)
<1> DEFINE elem   == module.elem[i + 1]
           pushed == opd \o EvalAll(Evaluated(elem.offset))
           offset == Popped(pushed, 1).val
<1>1. i \in Nat /\ i + 1 \in 1..Len(module.elem) /\ module \in Modules
  BY ItemsTyped DEF Typed, InitElement
<1>2. /\ elem.offset \in Seq(ConstInstr) /\ Len(elem.offset) = 1 /\ elem.offset[1].op = "const"
      /\ ConstantsOf(elem.offset) \subseteq Literals(module)
  BY <1>1, ItemsTyped, ItemLiterals, ValidItems
<1>3. \/ /\ Fail("INVALID_SECTION") \/ EvalFails \/ PopFails(pushed, "i32")
         /\ UNCHANGED <<i, opd, table>>
      \/ /\ CanEvalAll(Evaluated(elem.offset)) /\ Holds(pushed, <<"i32">>)
         /\ opd' = Dropped(pushed, 1) /\ i' = IndexAfter(elem.offset) + 1
         /\ table' = Stored(offset, elem.init)
         /\ GoOn("elements") \/ Fail("VECTOR_EXCEPTION")
  BY DEF InitElement
<1>4. CASE /\ Fail("INVALID_SECTION") \/ EvalFails \/ PopFails(pushed, "i32")
           /\ UNCHANGED <<i, opd, table>>
  BY <1>4 DEF EvalFails, PopFails, Fail, Emptied
<1>5. CASE /\ CanEvalAll(Evaluated(elem.offset)) /\ Holds(pushed, <<"i32">>)
           /\ opd' = Dropped(pushed, 1) /\ i' = IndexAfter(elem.offset) + 1
           /\ table' = Stored(offset, elem.init)
           /\ GoOn("elements") \/ Fail("VECTOR_EXCEPTION")
  <2> HIDE DEF elem
  <2> DEFINE e == Evaluated(elem.offset)
  <2>1. /\ e \in Seq(ConstInstr) /\ Len(e) <= 1 /\ IndexAfter(elem.offset) \in Nat
        /\ ConstantsOf(e) \subseteq Literals(module)
    BY <1>1, <1>2, EvaluatedOffset
  <2>2. EvalAll(e) \in Seq(Literal) /\ Len(EvalAll(e)) = Len(e)
    BY <1>5, <2>1, EvaluatedTyped DEF Typed
  <2>3. opd = << >> /\ Holds(opd \o EvalAll(e), <<"i32">>)
    BY <1>5 DEF Emptied
  <2>4. Dropped(pushed, 1) = << >> /\ Len(e) = 1 /\ Popped(pushed, 1) = Result(e[1])
    <3> HIDE DEF e
    <3>1. /\ Dropped(opd \o EvalAll(e), 1) = << >> /\ Len(e) = 1
          /\ Popped(opd \o EvalAll(e), 1) = Result(e[1])
      BY <2>1, <2>2, <2>3, PoppedAlone
    <3> QED
      BY <3>1 DEF e
  <2>5. i = 0 /\ e[1] = elem.offset[1]
    <3>1. CASE 1 > i
      <4>1. i = 0 /\ Len(elem.offset) - i = 1
        BY <1>1, <1>2, <3>1
      <4> QED
        BY <4>1 DEF Evaluated
    <3>2. CASE ~(1 > i)
      <4>1. 1..Len(elem.offset) - i = {}
        BY <1>1, <1>2, <3>2
      <4>2. e = << >>
        BY <4>1, NoneIsEmpty DEF Evaluated
      <4> HIDE DEF e
      <4> QED
        BY <2>4, <4>2, EmptySeq
    <3> QED
      BY <3>1, <3>2
  <2>6. offset = elem.offset[1].v
    BY <1>2, <2>4, <2>5 DEF Result, Value
  <2>7. phase' \in {"elements", "failed"} /\ opd' = << >>
    BY <1>5, <2>4 DEF GoOn, Fail
  <2>8. i' # 0 /\ elem = module.elem[1]
    BY <1>5, <2>1, <2>5 DEF elem
  <2>9. table' = Stored(elem.offset[1].v, elem.init)
    BY <1>5, <2>6
  <2> HIDE DEF pushed, offset, e
  <2> QED
    BY <2>5, <2>7, <2>8, <2>9
<1> QED
  BY <1>3, <1>4, <1>5

LEMMA EmptiedStep == Typed /\ Emptied /\ GlobalsSoFar /\ [Next]_vars => Emptied'
<1> SUFFICES ASSUME Typed, Emptied, GlobalsSoFar, [Next]_vars, ModuleValid' PROVE opd' = << >>
  BY DEF Emptied
<1>0. module' = module
  BY DEF Next, vars, InitMemory, InitImports, InitTable, InitElement, ElementsDone, CreateGlobals,
     InitGlobal, GlobalsDone, NoData, InitData, RequireSections
<1>1. ModuleValid /\ opd = << >>
  BY <1>0 DEF ModuleValid, InitializerValid, Emptied
<1>2. CASE InitElement
  BY <1>1, <1>2, ElementStep
<1>3. CASE InitGlobal
  BY <1>1, <1>3, GlobalStep
<1>4. CASE InitData
  <2> DEFINE data   == module.data[1]
             pushed == opd \o EvalAll(data.expression)
  <2>1. \/ opd' = opd
        \/ /\ CanEvalAll(data.expression) /\ Holds(pushed, <<"i32">>)
           /\ opd' = Dropped(pushed, 1)
    BY <1>4 DEF InitData
  <2>2. CASE opd' = opd
    BY <1>1, <2>2
  <2>3. CASE /\ CanEvalAll(data.expression) /\ Holds(pushed, <<"i32">>)
             /\ opd' = Dropped(pushed, 1)
    <3>1. module \in Modules /\ module.data # << >> /\ IsModule(module)
      BY <1>4, InstantiateAssumption DEF Typed, InitData
    <3>2. module.data \in Seq([memidx : Nat, expression : Seq(ConstInstr), length : Nat])
      BY <3>1, Zenon DEF IsModule
    <3>3. 1 \in 1..Len(module.data)
      BY <3>1, <3>2, EmptySeq
    <3>4. data.expression \in Seq(ConstInstr)
      BY <3>1, <3>3, ItemsTyped
    <3>5. Len(data.expression) <= 1
      <4>1. Len(data.expression) = 1
        BY <1>1, <3>1, <3>3, ValidItems
      <4> QED
        BY <4>1
    <3>6. ConstantsOf(data.expression) \subseteq Literals(module)
      BY <3>3, ItemLiterals
    <3>7. EvalAll(data.expression) \in Seq(Literal) /\ Len(EvalAll(data.expression)) = Len(data.expression)
      BY <2>3, <3>4, <3>6, EvaluatedTyped DEF Typed
    <3> HIDE DEF data
    <3> QED
      BY <1>1, <2>3, <3>4, <3>5, <3>7, PoppedAlone
  <2> QED
    BY <2>1, <2>2, <2>3
<1>5. CASE InitMemory \/ InitImports \/ InitTable \/ ElementsDone \/ CreateGlobals
  BY <1>1, <1>5 DEF InitMemory, InitImports, InitTable, ElementsDone, CreateGlobals
<1>6. CASE GlobalsDone \/ NoData \/ RequireSections \/ UNCHANGED vars
  BY <1>1, <1>6 DEF GlobalsDone, NoData, RequireSections, vars
<1> QED
  BY <1>2, <1>3, <1>4, <1>5, <1>6 DEF Next

LEMMA GlobalsSoFarStep == Typed /\ Emptied /\ GlobalsSoFar /\ [Next]_vars => GlobalsSoFar'
<1> SUFFICES ASSUME Typed, Emptied, GlobalsSoFar, [Next]_vars PROVE GlobalsSoFar'
  OBVIOUS
<1>0. module' = module /\ (ModuleValid' <=> ModuleValid)
  <2>1. module' = module
    BY DEF Next, vars, InitMemory, InitImports, InitTable, InitElement, ElementsDone, CreateGlobals,
       InitGlobal, GlobalsDone, NoData, InitData, RequireSections
  <2> QED
    BY <2>1 DEF ModuleValid, InitializerValid
<1>1. \A n, gs : GlobalOf(n, gs)' = GlobalOf(n, gs')
  BY <1>0 DEF GlobalOf
<1>2. CASE InitGlobal
  <2>0. globals # << >> /\ phase = "global"
    BY <1>2 DEF Typed, InitGlobal
  <2>1. globals' # << >>
    BY <1>2, TypedGlobal, <2>0 DEF Typed, InitGlobal, Fail, EvalFails, PopFails
  <2>2. CASE ModuleValid
    <3>1. CASE globals' = globals /\ phase' = "failed"
      BY <1>0, <1>1, <2>0, <2>2, <3>1 DEF GlobalsSoFar, GlobalOf
    <3>2. CASE ~(globals' = globals /\ phase' = "failed")
      <4>1. PICK v :
              /\ globals' = <<Append(globals[1], v)>> /\ phase' = "global"
              /\ Len(globals[1]) < Len(module.globals)
              /\ globals'[1][Len(globals[1]) + 1] = GlobalOf(Len(globals[1]) + 1, globals[1])
        BY <1>2, <2>2, <3>2, GlobalStep
      <4>2. PICK gs \in Seq(Literal) : globals = <<gs>>
        BY <2>0 DEF Typed
      <4>3. globals[1] = gs /\ Len(gs) \in Nat
        BY <4>2
      <4>4. PICK hs \in Seq(Literal) : globals' = <<hs>>
        <5>1. Typed'
          BY <1>2, TypedGlobal
        <5>2. Literal' = Literal
          BY <1>0 DEF Literal
        <5>3. \E hs \in Seq(Literal') : globals' = <<hs>>
          BY <2>1, <5>1 DEF Typed
        <5> QED
          BY <5>2, <5>3
      <4>5. hs = Append(gs, v) /\ globals'[1] = hs
        BY <4>1, <4>3, <4>4
      <4>6. Len(hs) = Len(gs) + 1 /\ \A n \in 1..Len(gs) : hs[n] = gs[n]
        BY <4>5
      <4>7. ASSUME NEW n \in 1..Len(hs) PROVE hs[n] = GlobalOf(n, hs)
        <5>1. n \in 1..Len(module.globals)
          BY <4>1, <4>3, <4>6, ItemsTyped DEF Typed
        <5>2. module.globals[n].e[1].op # "const" =>
                module.globals[n].e[1].idx \in Nat /\ module.globals[n].e[1].idx < n - 1
          BY <2>2, <5>1, ValidItems DEF Typed
        <5>3. GlobalOf(n, hs) = GlobalOf(n, gs)
          <6>1. CASE module.globals[n].e[1].op = "const"
            BY <6>1 DEF GlobalOf
          <6>2. CASE module.globals[n].e[1].op # "const"
            <7>1. module.globals[n].e[1].idx + 1 \in 1..Len(gs)
              BY <4>3, <4>6, <5>2, <6>2
            <7> QED
              BY <4>6, <6>2, <7>1 DEF GlobalOf
          <6> QED
            BY <6>1, <6>2
        <5>4. CASE n \in 1..Len(gs)
          BY <2>0, <2>2, <4>3, <4>6, <5>3, <5>4 DEF GlobalsSoFar
        <5>5. CASE n = Len(gs) + 1
          BY <4>1, <4>3, <4>5, <5>3, <5>5
        <5> QED
          BY <4>3, <4>6, <5>4, <5>5
      <4>8. Len(hs) <= Len(module.globals)
        BY <4>1, <4>3, <4>6, ItemsTyped DEF Typed
      <4>9. \A n \in 1..Len(globals'[1]) : globals'[1][n] = GlobalOf(n, globals[1])'
        BY <1>1, <4>5, <4>7
      <4> QED
        BY <1>0, <4>1, <4>5, <4>8, <4>9, <2>1 DEF GlobalsSoFar
    <3> QED
      BY <3>1, <3>2
  <2>3. CASE ~ModuleValid
    BY <1>0, <2>1, <2>3 DEF GlobalsSoFar
  <2> QED
    BY <2>2, <2>3
<1>3. CASE CreateGlobals
  <2>1. globals' = << << >> >> /\ phase' = IF "global" \in module.has THEN "global" ELSE "data"
    BY <1>3 DEF CreateGlobals, GoOn
  <2>2. globals' # << >> /\ globals'[1] = << >> /\ Len(<< >>) = 0
    BY <2>1, EmptySeq
  <2>3. Len(module.globals) \in Nat
    BY ItemsTyped DEF Typed
  <2> QED
    BY <1>0, <2>1, <2>2, <2>3 DEF GlobalsSoFar
<1>4. CASE GlobalsDone
  <2>1. globals' = globals /\ Len(globals[1]) = Len(module.globals) /\ globals # << >>
    BY <1>4 DEF GlobalsDone, Typed
  <2> QED
    BY <1>0, <1>1, <2>1 DEF GlobalsSoFar, GlobalOf
<1>5. CASE InitData \/ NoData \/ RequireSections
  <2>1. globals' = globals /\ phase \in {"data", "sections"}
    BY <1>5 DEF InitData, NoData, RequireSections
  <2> QED
    BY <1>0, <1>1, <2>1 DEF GlobalsSoFar, GlobalOf
<1>6. CASE InitMemory \/ InitImports \/ InitTable \/ InitElement \/ ElementsDone
  <2>1. globals' = globals /\ phase' \notin {"global", "data", "sections", "done"}
    BY <1>6 DEF InitMemory, InitImports, InitTable, InitElement, ElementsDone, GoOn, Fail, EvalFails, PopFails
  <2> QED
    BY <1>0, <1>1, <2>1 DEF GlobalsSoFar, GlobalOf
<1>7. CASE UNCHANGED vars
  BY <1>0, <1>1, <1>7 DEF vars, GlobalsSoFar, GlobalOf
<1> QED
  BY <1>2, <1>3, <1>4, <1>5, <1>6, <1>7 DEF Next

\* The equations of the globals have one solution: the least number two solutions
\* differ at would refer to a lesser one.
LEMMA OneInitial ==
  ASSUME module \in Modules, ModuleValid,
         NEW f, f = [n \in 1..Len(module.globals) |-> GlobalOf(n, f)],
         NEW g, g = [n \in 1..Len(module.globals) |-> GlobalOf(n, g)]
  PROVE  f = g
<1> DEFINE N == Len(module.globals)
           D == {n \in 1..N : f[n] # g[n]}
<1>1. N \in Nat
  BY ItemsTyped
<1>2. CASE D # {}
  <2>1. PICK m \in D : \A n \in D : m <= n
    <3>1. D \subseteq Nat
      BY <1>1
    <3> HIDE DEF D
    <3> QED
      BY <1>2, <3>1, NatMin
  <2>2. m \in 1..N /\ f[m] # g[m] /\ \A n \in 1..N : n < m => f[n] = g[n]
    <3>1. m \in 1..N /\ f[m] # g[m]
      BY <2>1, Zenon
    <3>2. ASSUME NEW n \in 1..N, n < m, f[n] # g[n] PROVE FALSE
      <4>1. n \in D
        BY <3>2, Zenon
      <4>2. m <= n
        BY <2>1, <4>1, Zenon
      <4> HIDE DEF D
      <4>3. \A k \in Nat : \A x, y \in 1..k : ~(x < y /\ y <= x)
        OBVIOUS
      <4> QED
        BY <1>1, <3>1, <3>2, <4>2, <4>3, Zenon
    <3> QED
      BY <3>1, <3>2, Zenon
  <2>3. f[m] = GlobalOf(m, f) /\ g[m] = GlobalOf(m, g)
    BY <2>2, Zenon
  <2>4. CASE module.globals[m].e[1].op = "const"
    BY <2>2, <2>3, <2>4 DEF GlobalOf
  <2>5. CASE module.globals[m].e[1].op # "const"
    <3>1. module.globals[m].e[1].idx \in Nat /\ module.globals[m].e[1].idx < m - 1
      BY <2>2, <2>5, ValidItems
    <3>2. PICK k \in Nat : k = module.globals[m].e[1].idx
      BY <3>1
    <3>3. k + 1 \in 1..N /\ k + 1 < m
      BY <1>1, <2>2, <3>1, <3>2
    <3>4. f[k + 1] = g[k + 1]
      BY <2>2, <3>3
    <3>5. GlobalOf(m, f) = GlobalOf(m, g)
      BY <2>5, <3>2, <3>4, Zenon DEF GlobalOf
    <3> QED
      BY <2>2, <2>3, <3>5
  <2> QED
    BY <2>4, <2>5
<1>3. CASE D = {}
  <2>1. \A n \in 1..N : f[n] = g[n]
    BY <1>3
  <2>2. DOMAIN f = 1..N /\ DOMAIN g = 1..N /\ f = [n \in 1..N |-> f[n]] /\ g = [n \in 1..N |-> g[n]]
    <3>1. ASSUME NEW S, NEW F(_), NEW h, h = [n \in S |-> F(n)] PROVE DOMAIN h = S /\ h = [n \in S |-> h[n]]
      BY <3>1
    <3> QED
      BY Zenon
  <2> QED
    BY <2>1, <2>2, Zenon
<1> QED
  BY <1>2, <1>3

\* Whatever solves the equations is what the module says.
LEMMA SolvedIsInitial ==
  ASSUME module \in Modules, ModuleValid,
         NEW f, f = [n \in 1..Len(module.globals) |-> GlobalOf(n, f)]
  PROVE  f = Initial
<1> DEFINE Solves(h) == h = [n \in 1..Len(module.globals) |-> GlobalOf(n, h)]
<1>1. Initial = CHOOSE h : Solves(h)
  BY DEF Initial, GlobalOf
<1>2. Solves(f)
  OBVIOUS
<1>3. Solves(Initial)
  <2> HIDE DEF Solves
  <2> QED
    BY <1>1, <1>2, Zenon
<1> QED
  BY <1>2, <1>3, OneInitial

LEMMA GlobalsInvariant == Spec => []((Typed /\ Copied) /\ Emptied /\ GlobalsSoFar)
<1>1. Init => Emptied /\ GlobalsSoFar
  BY DEF Init, Emptied, GlobalsSoFar
<1>2. (Typed /\ Copied) /\ Emptied /\ GlobalsSoFar /\ [Next]_vars => Emptied' /\ GlobalsSoFar'
  BY EmptiedStep, GlobalsSoFarStep
<1> QED
  BY <1>1, <1>2, TypedInvariant, PTL DEF Spec

\* Every global of a valid module has its own initial value when the instantiation
\* is over, the values of the globals it refers to included, and no operand is left
\* for the first call (interpreter.c:65-92).
THEOREM GlobalsRight == Spec => []GlobalsInitialized
<1>1. (Typed /\ Copied) /\ Emptied /\ GlobalsSoFar => GlobalsInitialized
  <2> SUFFICES ASSUME Typed, Emptied, GlobalsSoFar, ModuleValid, phase = "done"
               PROVE  /\ opd = << >>
                      /\ "global" \in module.has =>
                           globals[1] = [n \in 1..Len(module.globals) |-> Initial[n]]
    BY DEF GlobalsInitialized
  <2>1. opd = << >>
    BY DEF Emptied
  <2>2. ASSUME "global" \in module.has
        PROVE  globals[1] = [n \in 1..Len(module.globals) |-> Initial[n]]
    <3>1. globals # << >>
      BY DEF GlobalsSoFar
    <3>2. PICK gs \in Seq(Literal) : globals = <<gs>>
      BY <3>1 DEF Typed
    <3>3. globals[1] = gs
      BY <3>2
    <3>4. Len(gs) = Len(module.globals) /\ \A n \in 1..Len(gs) : gs[n] = GlobalOf(n, gs)
      BY <2>2, <3>1, <3>3 DEF GlobalsSoFar
    <3>5. gs = [n \in 1..Len(gs) |-> gs[n]]
      OBVIOUS
    <3>6. gs = [n \in 1..Len(module.globals) |-> GlobalOf(n, gs)]
      BY <3>4, <3>5, Zenon
    <3>7. module \in Modules
      BY DEF Typed
    <3>8. gs = Initial
      BY <3>6, <3>7, SolvedIsInitial
    <3> QED
      BY <3>3, <3>4, <3>5, <3>8, Zenon
  <2> QED
    BY <2>1, <2>2
<1> QED
  BY <1>1, GlobalsInvariant, PTL

----------------------------------------------------------------------------
(* The table *)

\* The n-th entry is what the segments say.
Filled(n) ==
  LET writers == {k \in 1..Len(module.elem) : Writes(module.elem[k], n)}
  IN  IF writers = {} THEN ~table[n].initialized
      ELSE LET elem == module.elem[CHOOSE k \in writers : \A other \in writers : other <= k]
           IN  table[n] = [initialized |-> TRUE, funcidx |-> elem.init[n - elem.offset[1].v]]

\* Before the first segment the table is unset; after it, and wherever the table is
\* not touched any more, it is filled.
TableSoFar ==
  /\ phase \in {"memory", "imports", "tables"} => i = 0
  /\ ModuleValid /\ {"table", "element"} \subseteq module.has =>
       /\ phase = "elements" /\ i = 0 =>
            module.tables[1] \in Nat /\ table = [n \in 1..module.tables[1] |-> Unset]
       /\ phase \in {"globals", "global", "data", "sections", "done"} \/ (phase = "elements" /\ i # 0) =>
            \A n \in 1..module.tables[1] : Filled(n)

\* A segment that does not wrap around writes its functions, and nothing else.
LEMMA StoredRight ==
  ASSUME table \in Seq(TableEntry), NEW offset \in Nat, NEW init \in Seq(Nat),
         offset + Len(init) < Word, NEW n \in 1..Len(table)
  PROVE  /\ offset < n /\ n <= offset + Len(init) =>
              Stored(offset, init)[n] = [initialized |-> TRUE, funcidx |-> init[n - offset]]
         /\ ~(offset < n /\ n <= offset + Len(init)) => Stored(offset, init)[n] = table[n]
<1> DEFINE here(j) == At(offset, j) = n - 1 /\ \A k \in 0..j : At(offset, k) < Len(table)
           J == CHOOSE j \in 0..Len(init) - 1 : At(offset, j) = n - 1
<1>1. Len(table) \in Nat /\ Len(init) \in Nat /\ n \in Nat /\ n <= Len(table)
  OBVIOUS
<1>2. PICK size \in Nat : size = Len(table)
  BY <1>1
<1>3. PICK length \in Nat : length = Len(init)
  BY <1>1
<1>4. ASSUME NEW j \in 0..length - 1 PROVE At(offset, j) = offset + j
  <2>1. offset + j \in Nat /\ offset + j < Word
    BY <1>3, InstantiateAssumption
  <2> QED
    BY <2>1, RestOfWord DEF At
<1>5. CASE offset < n /\ n <= offset + length
  <2>1. n - 1 - offset \in 0..length - 1
    BY <1>1, <1>5
  <2>2. PICK j \in 0..length - 1 : j = n - 1 - offset
    BY <2>1
  <2>3. offset + j = n - 1 /\ 1 + j = n - offset
    BY <1>1, <2>2
  <2>4. \A k \in 0..j : k \in 0..length - 1 /\ offset + k < size
    BY <1>1, <1>2, <2>2, <2>3
  <2>5. \A k \in 0..j : At(offset, k) < size
    BY <1>4, <2>4
  <2>6. At(offset, j) = n - 1
    BY <1>4, <2>3
  <2>7. \E k \in 0..Len(init) - 1 : here(k)
    BY <1>2, <1>3, <2>5, <2>6
  <2>8. J \in 0..length - 1 /\ At(offset, J) = n - 1
    BY <1>3, <2>6
  <2>9. Stored(offset, init)[n] = [initialized |-> TRUE, funcidx |-> init[1 + J]]
    BY <2>7 DEF Stored
  <2> HIDE DEF J
  <2>10. J = j
    <3>1. offset + J = n - 1
      BY <1>4, <2>8
    <3> QED
      BY <1>1, <2>2, <2>8, <3>1
  <2> QED
    BY <1>3, <1>5, <2>3, <2>9, <2>10
<1>6. CASE ~(offset < n /\ n <= offset + length)
  <2>1. ASSUME NEW j \in 0..Len(init) - 1 PROVE ~here(j)
    <3>1. At(offset, j) = offset + j
      BY <1>3, <1>4
    <3> QED
      BY <1>1, <1>3, <1>6, <3>1
  <2>2. Stored(offset, init)[n] = table[n]
    BY <2>1 DEF Stored
  <2> QED
    BY <1>3, <1>6, <2>2
<1> QED
  BY <1>5, <1>6

\* The only segment of a valid module, stored into the unset table.
LEMMA FilledByElement ==
  ASSUME Typed, Emptied, TableSoFar, ModuleValid, {"table", "element"} \subseteq module.has,
         TableFitsWord(module), InitElement, phase' = "elements"
  PROVE  i' # 0 /\ \A n \in 1..module.tables[1] : Filled(n)'
<1> DEFINE elem == module.elem[1]
<1>1. i = 0 /\ i' # 0 /\ table' = Stored(elem.offset[1].v, elem.init)
  BY ElementStep
<1>2. module \in Modules /\ module' = module /\ phase = "elements" /\ i < Len(module.elem)
  BY DEF Typed, InitElement
<1>3. Len(module.elem) = 1
  <2>1. Len(module.elem) <= 1
    BY DEF TableFitsWord
  <2>2. Len(module.elem) \in Nat
    BY <1>2, ItemsTyped
  <2>3. 0 < Len(module.elem)
    BY <1>1, <1>2, Zenon
  <2>4. \A n \in Nat : n <= 1 /\ 0 < n => n = 1
    OBVIOUS
  <2> QED
    BY <2>1, <2>2, <2>3, <2>4, Zenon
<1>4. /\ elem.offset \in Seq(ConstInstr) /\ elem.init \in Seq(Nat)
      /\ Len(elem.offset) = 1 /\ elem.offset[1].op = "const"
      /\ ConstantsOf(elem.offset) \subseteq Literals(module)
  <2>1. 1 \in 1..Len(module.elem)
    BY <1>3
  <2> QED
    BY <1>2, <2>1, ItemsTyped, ItemLiterals, ValidItems
<1>5. elem.offset[1].v \in Literals(module) /\ elem.offset[1].v \in Nat
  <2>1. 1 \in 1..Len(elem.offset) /\ elem.offset[1] \in ConstInstr
    BY <1>4
  <2>2. elem.offset[1].v \in Val
    BY <1>4, <2>1 DEF ConstInstr
  <2>3. elem.offset[1].v \in ConstantsOf(elem.offset)
    BY <1>4, <2>1 DEF ConstantsOf
  <2> QED
    BY <1>4, <2>2, <2>3, InstantiateAssumption
<1>6. elem.offset[1].v + Len(elem.init) < Word
  <2>1. 1 \in 1..Len(module.elem)
    BY <1>3
  <2> QED
    BY <1>5, <2>1 DEF TableFitsWord
<1>7. module.tables[1] \in Nat /\ table = [n \in 1..module.tables[1] |-> Unset]
  BY <1>1, <1>2 DEF TableSoFar
<1>8. Len(table) = module.tables[1] /\ table \in Seq(TableEntry)
  <2>1. table \in Seq(TableEntry)
    BY DEF Typed
  <2>2. DOMAIN table = 1..module.tables[1]
    BY <1>7, Zenon
  <2>3. DOMAIN table = 1..Len(table) /\ Len(table) \in Nat
    BY <2>1, LenProperties
  <2> QED
    BY <1>7, <2>1, <2>2, <2>3
<1>9. ASSUME NEW n \in 1..module.tables[1] PROVE Filled(n)'
  <2> DEFINE writers == {k \in 1..Len(module.elem) : Writes(module.elem[k], n)}
  <2>1. table[n] = Unset
    BY <1>7, Zenon
  <2>2. /\ Writes(elem, n) =>
             table'[n] = [initialized |-> TRUE, funcidx |-> elem.init[n - elem.offset[1].v]]
        /\ ~Writes(elem, n) => table'[n] = table[n]
    <3>1. n \in 1..Len(table)
      BY <1>8
    <3> HIDE DEF elem
    <3> QED
      BY <1>1, <1>4, <1>5, <1>6, <1>8, <3>1, StoredRight DEF Writes
  <2>3. CASE Writes(elem, n)
    <3>1. writers = {1}
      BY <1>3, <2>3
    <3>2. (CHOOSE k \in writers : \A other \in writers : other <= k) = 1
      BY <3>1
    <3> QED
      BY <1>2, <2>2, <2>3, <3>1, <3>2, Zenon DEF Filled
  <2>4. CASE ~Writes(elem, n)
    <3>1. writers = {}
      BY <1>3, <2>4
    <3>2. ~table'[n].initialized
      BY <2>1, <2>2, <2>4 DEF Unset
    <3> QED
      BY <1>2, <3>1, <3>2 DEF Filled
  <2> QED
    BY <2>3, <2>4
<1> QED
  BY <1>1, <1>9

LEMMA TableSoFarStep ==
  Typed /\ Emptied /\ TableSoFar /\ TableFitsWord(module) /\ [Next]_vars => TableSoFar'
<1> SUFFICES ASSUME Typed, Emptied, TableSoFar, TableFitsWord(module), [Next]_vars PROVE TableSoFar'
  OBVIOUS
<1>0. module' = module /\ (ModuleValid' <=> ModuleValid)
  <2>1. module' = module
    BY DEF Next, vars, InitMemory, InitImports, InitTable, InitElement, ElementsDone, CreateGlobals,
       InitGlobal, GlobalsDone, NoData, InitData, RequireSections
  <2> QED
    BY <2>1 DEF ModuleValid, InitializerValid
<1>1. table' = table => \A n : Filled(n)' = Filled(n)
  BY <1>0 DEF Filled, Writes
<1>2. CASE InitElement
  <2>1. CASE phase' = "elements"
    <3>1. ModuleValid /\ {"table", "element"} \subseteq module.has =>
            i' # 0 /\ \A n \in 1..module.tables[1] : Filled(n)'
      BY <1>2, <2>1, FilledByElement
    <3> QED
      BY <1>0, <2>1, <3>1 DEF TableSoFar
  <2>2. CASE phase' # "elements"
    <3>1. phase' = "failed"
      BY <1>2, <2>2 DEF InitElement, EvalFails, PopFails, Fail, GoOn
    <3> QED
      BY <3>1 DEF TableSoFar
  <2> QED
    BY <2>1, <2>2
<1>3. CASE InitTable
  <2>1. i' = i /\ i = 0 /\ phase = "tables"
    BY <1>3 DEF InitTable, TableSoFar
  <2>2. CASE ~({"table", "element"} \subseteq module.has)
    <3>1. phase' = "globals"
      BY <1>3, <2>2 DEF InitTable, GoOn
    <3> QED
      BY <1>0, <2>2, <3>1 DEF TableSoFar
  <2>3. CASE {"table", "element"} \subseteq module.has
    <3>1. \/ phase' = "failed"
          \/ /\ phase' = "elements" /\ table' = [n \in 1..module.tables[1] |-> Unset]
             /\ module.tables # << >>
      BY <1>3, <2>3 DEF InitTable, GoOn, Fail
    <3>2. module.tables # << >> => module.tables[1] \in Nat
      <4>1. module.tables \in Seq(Nat)
        BY ItemsTyped DEF Typed
      <4> QED
        BY <4>1
    <3> QED
      BY <1>0, <2>1, <3>1, <3>2 DEF TableSoFar
  <2> QED
    BY <2>2, <2>3
<1>4. CASE ElementsDone
  <2>1. phase = "elements" /\ phase' = "globals" /\ i >= Len(module.elem) /\ UNCHANGED <<i, table>>
    BY <1>4 DEF ElementsDone, GoOn
  <2>2. CASE i # 0
    BY <1>0, <1>1, <2>1, <2>2 DEF TableSoFar
  <2>3. CASE i = 0
    <3>1. Len(module.elem) = 0
      BY <2>1, <2>3, ItemsTyped DEF Typed
    <3>2. ASSUME ModuleValid, {"table", "element"} \subseteq module.has, NEW n \in 1..module.tables[1]
          PROVE  Filled(n)
      <4>1. table[n] = Unset
        BY <2>1, <2>3, <3>2 DEF TableSoFar
      <4>2. ~table[n].initialized
        BY <4>1 DEF Unset
      <4>3. {k \in 1..Len(module.elem) : Writes(module.elem[k], n)} = {}
        BY <3>1
      <4> QED
        BY <4>2, <4>3 DEF Filled
    <3> QED
      BY <1>0, <1>1, <2>1, <3>2 DEF TableSoFar
  <2> QED
    BY <2>2, <2>3
<1>5. CASE InitMemory \/ InitImports
  <2>1. phase \in {"memory", "imports"} /\ i' = i /\ phase' \in {"imports", "tables", "failed"}
    BY <1>5 DEF InitMemory, InitImports, GoOn, Fail
  <2> QED
    BY <2>1 DEF TableSoFar
<1>6. CASE CreateGlobals \/ InitGlobal \/ GlobalsDone \/ NoData \/ InitData \/ RequireSections
  <2>1. /\ phase \in {"globals", "global", "data", "sections"} /\ UNCHANGED <<i, table>>
        /\ phase' \in {"global", "data", "sections", "done", "failed"}
    BY <1>6 DEF CreateGlobals, InitGlobal, GlobalsDone, NoData, InitData, RequireSections, GoOn, Fail,
       EvalFails, PopFails
  <2> QED
    BY <1>0, <1>1, <2>1 DEF TableSoFar
<1>7. CASE UNCHANGED vars
  BY <1>0, <1>1, <1>7 DEF vars, TableSoFar
<1> QED
  BY <1>2, <1>3, <1>4, <1>5, <1>6, <1>7 DEF Next

\* The table of a valid module holds what its element segment says: functions where
\* it writes, unset entries elsewhere (table.c:13-54).
THEOREM TableRight ==
  ASSUME \A m \in Modules : TableFitsWord(m)
  PROVE  Spec => []TableFilled
<1>1. Init => TableSoFar
  BY DEF Init, TableSoFar
<1>2. (Typed /\ Copied) /\ Emptied /\ GlobalsSoFar /\ TableSoFar /\ [Next]_vars => TableSoFar'
  BY TableSoFarStep DEF Typed
<1>3. TableSoFar => TableFilled
  BY DEF TableSoFar, TableFilled, Filled
<1> QED
  BY <1>1, <1>2, <1>3, GlobalsInvariant, PTL DEF Spec
=============================================================================
