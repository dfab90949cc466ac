---------------------------- MODULE Instantiate ----------------------------
(***************************************************************************)
(* What happens to a parsed module before a function of it can be called:  *)
(* init_interpreter with init_memory, init_tables, init_globals and        *)
(* init_datas.  One action per section or per item of a section; the       *)
(* constant expressions run on the operand stack of Stack, outside of any  *)
(* frame.  The call of the start function is module Control's.             *)
(***************************************************************************)
EXTENDS Stack, Integers

CONSTANTS
  Modules,   \* the parsed modules
  Word,      \* one more than the greatest u32
  PageSize

Sections == {"memory", "import", "table", "element", "global", "data", "export", "type", "code"}

\* The instructions of constant expressions.
ConstInstr == [op : {"const"}, t : ValType, v : Val] \cup [op : {"global.get"}, idx : Nat]

\* A module: the sections it has (the others are NULL), and their items.
IsModule(m) ==
  /\ m.has \subseteq Sections
  /\ m.mems \in Seq(Nat)
  /\ m.memImports \in Seq([min : Nat, max : Seq(Nat)])
  /\ m.tables \in Seq(Nat)
  /\ m.elem \in Seq([table : Nat, offset : Seq(ConstInstr), init : Seq(Nat)])
  /\ m.globals \in Seq([t : ValType, e : Seq(ConstInstr)])
  /\ m.data \in Seq([memidx : Nat, expression : Seq(ConstInstr), length : Nat])

ASSUME InstantiateAssumption ==
  /\ Val \subseteq Nat /\ Word \in Nat \ {0} /\ PageSize \in Nat
  /\ \A m \in Modules : IsModule(m)

VARIABLES
  module,    \* the module, chosen once
  phase,     \* where init_interpreter is
  i,         \* the loop counter of init_tables
  opd,       \* eval_state->opd_stack
  memory,    \* << >> for NULL, or the size in pages
  table,     \* eval_state->table
  globals,   \* << >> for NULL, or the vector of globals
  copied,    \* the bytes of the memory init_datas writes
  failure    \* the exception or the end of the process

vars == <<module, phase, i, opd, memory, table, globals, copied, failure>>

Phases == {"memory", "imports", "tables", "elements", "globals", "global", "data",
           "sections", "done", "failed"}

TableEntry  == [initialized : BOOLEAN, funcidx : Int]
Failures == {"none", "INVALID_SECTION", "INVALID_IMPORT", "INVALID_MEMORY", "NO_MEMORY",
             "VECTOR_EXCEPTION", "assertion"}

----------------------------------------------------------------------------
(* Helpers *)

\* A throw that returns to its caller.
FailAndStay(cause) == UNCHANGED phase /\ failure' = cause

\* init_interpreter runs outside of every TRY: a throw ends the process.
Fail(cause) == phase' = "failed" /\ failure' = cause

GoOn(next) == phase' = next /\ UNCHANGED failure

\* eval_instr: i32.const and its kin push; global.get asks the vector for an entry,
\* and before init_globals there is none: NULL or too short, both are refused.
CanEval(c) == c.op = "const" \/ (globals # << >> /\ c.idx < Len(globals[1]))
EvalFails == Fail("VECTOR_EXCEPTION")
Result(c) == IF c.op = "const" THEN Value(c.t, c.v) ELSE globals[1][c.idx + 1]

\* A sequence of instructions, one after the other.
CanEvalAll(e) == \A n \in 1..Len(e) : CanEval(e[n])
EvalAll(e)    == [n \in 1..Len(e) |-> Result(e[n])]

\* The pop of a value of type t fails, the stack being s.
PopFails(s, t) == Fail(IF Mismatch(s, <<t>>) THEN "assertion" ELSE "VECTOR_EXCEPTION")

----------------------------------------------------------------------------
(* Memory *)

InitMemory ==
  /\ phase = "memory"
  /\ UNCHANGED <<module, i, opd, table, globals, copied>>
  /\ IF "memory" \notin module.has THEN GoOn("imports") /\ UNCHANGED memory
     ELSE CASE Len(module.mems) > 1 -> Fail("INVALID_SECTION") /\ UNCHANGED memory
            [] module.mems = << >>  -> Fail("VECTOR_EXCEPTION") /\ UNCHANGED memory
            [] OTHER -> memory' = module.mems /\ GoOn("imports")

\* A memory import is only compared with the module's own memory, whose maximum
\* create_memory never sets: the comparison may come out either way.
InitImports ==
  LET imported == IF "import" \in module.has THEN module.memImports ELSE << >>
  IN  /\ phase = "imports"
      /\ UNCHANGED <<module, i, opd, memory, table, globals, copied>>
      /\ CASE Len(imported) > 1 -> Fail("INVALID_IMPORT")
           [] imported = << >>  -> GoOn("tables")
           [] OTHER ->
                IF memory = << >> THEN Fail("NO_MEMORY")
                ELSE IF imported[1].min > memory[1] THEN Fail("INVALID_MEMORY")
                ELSE GoOn("tables") \/ (imported[1].max # << >> /\ Fail("INVALID_MEMORY"))

----------------------------------------------------------------------------
(* init_tables *)

Unset == [initialized |-> FALSE, funcidx |-> 0 - 1]

InitTable ==
  /\ phase = "tables"
  /\ UNCHANGED <<module, i, opd, memory, globals, copied>>
  /\ IF ~({"table", "element"} \subseteq module.has) THEN GoOn("globals") /\ UNCHANGED table
     ELSE CASE Len(module.tables) > 1 -> Fail("INVALID_SECTION") /\ UNCHANGED table
            [] module.tables = << >>  -> Fail("VECTOR_EXCEPTION") /\ UNCHANGED table
            [] OTHER -> table' = [n \in 1..module.tables[1] |-> Unset] /\ GoOn("elements")

\* The inner loop over the offset of the segment at i tests and counts in i, and
\* evaluates the first instruction every time.
Evaluated(offset) == [n \in 1..Len(offset) - i |-> offset[1]]
IndexAfter(offset) == IF Len(offset) > i THEN Len(offset) ELSE i

\* Counted from one.
AtFromOne(offset, j) == (offset + j + 1) % Word

\* The entries written from offset on, up to the first that is out of bounds.
At(offset, j) == (offset + j) % Word
Stored(offset, init) ==
  [n \in 1..Len(table) |->
     IF \E j \in 0..Len(init) - 1 : At(offset, j) = n - 1 /\ \A k \in 0..j : At(offset, k) < Len(table)
     THEN [initialized |-> TRUE,
           funcidx |-> init[1 + CHOOSE j \in 0..Len(init) - 1 : At(offset, j) = n - 1]]
     ELSE table[n]]

\* One turn of the outer loop.
InitElement ==
  /\ phase = "elements" /\ i < Len(module.elem)
  /\ UNCHANGED <<module, memory, globals, copied>>
  /\ LET elem   == module.elem[i + 1]
         pushed == opd \o EvalAll(Evaluated(elem.offset))
         offset == Popped(pushed, 1).val
     IN  IF elem.table # 0 THEN Fail("INVALID_SECTION") /\ UNCHANGED <<i, opd, table>>
         ELSE IF ~CanEvalAll(Evaluated(elem.offset))
         THEN EvalFails /\ UNCHANGED <<i, opd, table>>
         ELSE IF ~Holds(pushed, <<"i32">>)
         THEN PopFails(pushed, "i32") /\ UNCHANGED <<i, opd, table>>
         ELSE /\ opd' = Dropped(pushed, 1)
              /\ i' = IndexAfter(elem.offset) + 1
              /\ table' = Stored(offset, elem.init)
              /\ IF \A j \in 0..Len(elem.init) - 1 : At(offset, j) < Len(table)
                 THEN GoOn("elements") ELSE Fail("VECTOR_EXCEPTION")

ElementsDone == /\ phase = "elements" /\ i >= Len(module.elem)
                /\ GoOn("globals")
                /\ UNCHANGED <<module, i, opd, memory, table, globals, copied>>

----------------------------------------------------------------------------
(* init_globals *)

\* eval_state->globals exists from here on.
CreateGlobals == /\ phase = "globals"
                 /\ globals' = << << >> >>
                 /\ GoOn(IF "global" \in module.has THEN "global" ELSE "data")
                 /\ UNCHANGED <<module, i, opd, memory, table, copied>>

\* The value read, but not popped.
InitGlobalPeeking ==
  /\ phase = "global" /\ Len(globals[1]) < Len(module.globals)
  /\ UNCHANGED <<module, i, memory, table, copied>>
  /\ LET g      == module.globals[Len(globals[1]) + 1]
         pushed == opd \o EvalAll(g.e)
     IN  IF ~CanEvalAll(g.e) THEN EvalFails /\ UNCHANGED <<opd, globals>>
         ELSE IF ~Holds(pushed, <<g.t>>) THEN PopFails(pushed, g.t) /\ UNCHANGED <<opd, globals>>
         ELSE /\ opd' = pushed
              /\ globals' = <<Append(globals[1], Value(g.t, Popped(pushed, 1).val))>>
              /\ GoOn("global")

\* A global may refer to those before it.
InitGlobal ==
  /\ phase = "global" /\ Len(globals[1]) < Len(module.globals)
  /\ UNCHANGED <<module, i, memory, table, copied>>
  /\ LET g      == module.globals[Len(globals[1]) + 1]
         pushed == opd \o EvalAll(g.e)
     IN  IF ~CanEvalAll(g.e) THEN EvalFails /\ UNCHANGED <<opd, globals>>
         ELSE IF ~Holds(pushed, <<g.t>>) THEN PopFails(pushed, g.t) /\ UNCHANGED <<opd, globals>>
         ELSE /\ opd' = Dropped(pushed, 1)
              /\ globals' = <<Append(globals[1], Value(g.t, Popped(pushed, 1).val))>>
              /\ GoOn("global")

GlobalsDone == /\ phase = "global" /\ Len(globals[1]) = Len(module.globals)
               /\ GoOn("data")
               /\ UNCHANGED <<module, i, opd, memory, table, globals, copied>>

----------------------------------------------------------------------------
(* init_datas, and the rest of init_interpreter *)

NoData == /\ phase = "data" /\ ("data" \notin module.has \/ module.data = << >>)
          /\ GoOn("sections")
          /\ UNCHANGED <<module, i, opd, memory, table, globals, copied>>

\* The length forgotten.
OffsetFits(offset, length) == (memory[1] * PageSize) % Word >= offset

\* Both sides of the comparison are u32.
DataFits(offset, length) == (memory[1] * PageSize) % Word >= (offset + length) % Word

InitData ==
  /\ phase = "data" /\ "data" \in module.has /\ module.data # << >>
  /\ UNCHANGED <<module, i, memory, table, globals>>
  /\ LET data   == module.data[1]
         pushed == opd \o EvalAll(data.expression)
         offset == Popped(pushed, 1).val
     IN  IF Len(module.data) > 1 THEN Fail("INVALID_SECTION") /\ UNCHANGED <<opd, copied>>
         ELSE IF memory = << >> THEN Fail("NO_MEMORY") /\ UNCHANGED <<opd, copied>>
         ELSE IF data.memidx # 0 THEN Fail("INVALID_SECTION") /\ UNCHANGED <<opd, copied>>
         ELSE IF ~CanEvalAll(data.expression)
         THEN EvalFails /\ UNCHANGED <<opd, copied>>
         ELSE IF ~Holds(pushed, <<"i32">>) THEN PopFails(pushed, "i32") /\ UNCHANGED <<opd, copied>>
         ELSE /\ opd' = Dropped(pushed, 1)
              /\ IF DataFits(offset, data.length)
                 THEN copied' = offset..offset + data.length - 1 /\ GoOn("sections")
                 ELSE Fail("INVALID_SECTION") /\ UNCHANGED copied

\* After the start function.
RequireSections ==
  /\ phase = "sections"
  /\ IF {"export", "type", "code"} \subseteq module.has THEN GoOn("done") ELSE Fail("INVALID_SECTION")
  /\ UNCHANGED <<module, i, opd, memory, table, globals, copied>>

Init == /\ module \in Modules
        /\ phase = "memory" /\ i = 0 /\ opd = << >> /\ memory = << >> /\ table = << >>
        /\ globals = << >> /\ copied = {} /\ failure = "none"

Next == \/ InitMemory \/ InitImports \/ InitTable \/ InitElement \/ ElementsDone
        \/ CreateGlobals \/ InitGlobal \/ GlobalsDone \/ NoData \/ InitData \/ RequireSections

Spec == Init /\ [][Next]_vars

----------------------------------------------------------------------------
(* Properties *)

\* The type invariant.
TypeOK ==
  /\ phase \in Phases /\ i \in Nat /\ opd \in Seq(Values)
  /\ memory \in Seq(Nat) /\ Len(memory) <= 1
  /\ table \in Seq(TableEntry)
  /\ Len(globals) <= 1 /\ \A n \in 1..Len(globals) : globals[n] \in Seq(Values)
  /\ copied \subseteq Nat /\ failure \in Failures
  /\ (phase = "failed") <=> (failure # "none")

\* What the items of the module stand for, the globals first: an initializer is
\* one instruction, a constant or an earlier global.
Initial[n \in 1..Len(module.globals)] ==
  LET c == module.globals[n].e[1]
  IN  IF c.op = "const" THEN Value(module.globals[n].t, c.v)
      ELSE Value(module.globals[n].t, Initial[c.idx + 1].val)

\* The initializers are valid: one instruction of the right type each, globals
\* after those they refer to.
InitializerValid(e, t, before) ==
  /\ Len(e) = 1
  /\ IF e[1].op = "const" THEN e[1].t = t
     ELSE e[1].idx < before /\ module.globals[e[1].idx + 1].t = t

ModuleValid ==
  /\ \A n \in 1..Len(module.globals) : InitializerValid(module.globals[n].e, module.globals[n].t, n - 1)
  /\ \A n \in 1..Len(module.elem) : InitializerValid(module.elem[n].offset, "i32", 0)
  /\ \A n \in 1..Len(module.data) :
       InitializerValid(module.data[n].expression, "i32", Len(module.globals))

\* Every global ends up with its own initial value, and no operand is left over
\* for the first call, which would take it for its own.
GlobalsInitialized ==
  ModuleValid /\ phase = "done" =>
    /\ opd = << >>
    /\ "global" \in module.has =>
         globals[1] = [n \in 1..Len(module.globals) |-> Initial[n]]

\* The table holds what the element segments say, the last one that writes an
\* entry, and nothing else.
Writes(elem, n) == elem.offset[1].v < n /\ n <= elem.offset[1].v + Len(elem.init)
TableFilled ==
  ModuleValid /\ phase = "done" /\ {"table", "element"} \subseteq module.has =>
    \A n \in 1..module.tables[1] :
      LET writers == {k \in 1..Len(module.elem) : Writes(module.elem[k], n)}
      IN  IF writers = {} THEN ~table[n].initialized
          ELSE LET elem == module.elem[CHOOSE k \in writers : \A other \in writers : other <= k]
               IN  table[n] = [initialized |-> TRUE, funcidx |-> elem.init[n - elem.offset[1].v]]

\* The data segment is copied into the memory, or not at all.
DataInBounds == copied # {} => \A b \in copied : b < memory[1] * PageSize
=============================================================================
