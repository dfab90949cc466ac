------------------------------- MODULE Parser -------------------------------
(***************************************************************************)
(* The parser (parser.c): recursive descent over the bytes of a file, with *)
(* one byte of lookahead and errors thrown from any depth.  calls is the C *)
(* stack: one frame per next_ function that has not returned, with what it *)
(* has yet to read and what it has read, fields in the order they are read.*)
(*                                                                         *)
(* An element of the input is a byte; where the parser reads a number, it  *)
(* is the whole LEB128 number (module Leb128), and Overlong is one with    *)
(* too many digits.                                                        *)
(***************************************************************************)
EXTENDS Naturals, Sequences

CONSTANTS Inputs,   \* the files the parser may be given
          Magic,    \* the bytes a module begins with,
          Version   \* and those that follow

Overlong == 255
Bytes    == 0..255

ASSUME ParserAssumption == /\ Inputs \subseteq Seq(Bytes)
                           /\ Magic \in Seq(Bytes) /\ Version \in Seq(Bytes)

VARIABLES
  input,     \* the file
  pos,       \* how many of its bytes have been read
  calls,     \* the active next_ functions, the innermost last
  sections,  \* the sections next_section has returned
  module,    \* module_t by section id, << >> for a NULL or unset field
  types,     \* func->type of the functions of the module, once assigned
  phase,
  failure

vars == <<input, pos, calls, sections, module, types, phase, failure>>

Failures == {"EOF_BEFORE_FINISHED", "LEB_OVERFLOW", "UNEXPECTED_VALTYPE", "UNKNOWN_OPCODE",
             "UNKNOWN_LIMIT_TYPE", "UNEXPECTED_OPCODE", "UNKNOWN_ELEMENT_TYPE",
             "UNKNOWN_MUTABILITY_TYPE", "UNKNOWN_IMPORTDESC_TYPE", "UNKNOWN_EXPORTDESC_TYPE",
             "INVALID_SECTION_ID", "INVALID_TYPEIDX_FOR_CALL_INDIRECT", "MEMORY_INDEX_NOT_ZERO",
             "UNKNOWN_MAGIC_VALUE", "VERSION_NOT_SUPPORTED", "VECTOR_EXCEPTION"}

----------------------------------------------------------------------------
(* What there is to read *)

U32           == [do |-> "u32"]
Raw(n)        == [do |-> "raw", n |-> n]             \* n bytes as they are
On(what)      == [do |-> "choose", on |-> what]      \* a byte that selects what follows
VecOf(item)   == [do |-> "vec", of |-> item]         \* MAKE_NEXT_VEC
Struct(parts) == [do |-> "struct", parts |-> parts]
Until(stop)   == [do |-> "until", stop |-> stop]     \* instructions, up to one of these bytes
End           == [do |-> "end"]
ElsePath      == [do |-> "else"]
Skipped       == [do |-> "skip"]

OP_BLOCK == 2
OP_LOOP == 3
OP_IF == 4
OP_ELSE == 5
OP_END == 11
OP_BR == 12
OP_BR_IF == 13
OP_BR_TABLE == 14
OP_CALL == 16
OP_CALL_INDIRECT == 17
OP_I32_CONST == 65
OP_I64_CONST == 66
OP_F32_CONST == 67
OP_F64_CONST == 68

Variables == 32..36
Accesses  == 40..62          \* loads and stores
Sizes     == {63, 64}        \* memory.size, memory.grow
Plain     == {0, 1, 15, 26, 27} \cup 69..191
Opcodes   == Plain \cup Variables \cup Accesses \cup Sizes
               \cup {OP_BLOCK, OP_LOOP, OP_IF, OP_BR, OP_BR_IF, OP_BR_TABLE, OP_CALL,
                     OP_CALL_INDIRECT, OP_I32_CONST, OP_I64_CONST, OP_F32_CONST, OP_F64_CONST}

Valtypes == 124..127

CUSTOM == 0
TYPE == 1
IMPORT == 2
FUNCTION == 3
TABLE == 4
MEMORY == 5
GLOBAL == 6
EXPORT == 7
START == 8
ELEMENT == 9
CODE == 10
DATA == 11

Name       == VecOf(Raw(1))
Valtype    == On("valtype")
Limit      == On("limit")
TableType  == On("tabletype")
GlobalType == Struct(<<Valtype, On("mutability")>>)
Expression == Struct(<<Until({OP_END}), End>>)
Import     == Struct(<<Name, Name, On("importdesc")>>)
Global     == Struct(<<GlobalType, Expression>>)
Export     == Struct(<<Name, On("exportdesc")>>)
Element    == Struct(<<U32, Expression, VecOf(U32)>>)
Locals     == Struct(<<U32, Valtype>>)
Func       == Struct(<<U32, VecOf(Locals), Expression>>)
Data       == Struct(<<U32, Expression, VecOf(Raw(1))>>)

\* The bytes each selection accepts, and what it throws at the others.
Accepts == [valtype    |-> Valtypes,
            blocktype  |-> Valtypes \cup {64},
            mutability |-> {0, 1},
            limit      |-> {0, 1},
            functype   |-> {96},
            tabletype  |-> {112},
            importdesc |-> 0..3,
            exportdesc |-> 0..3,
            tableidx   |-> {0},
            memoryidx  |-> {0},
            opcode     |-> Opcodes,
            section    |-> 0..11]

Refusal == [valtype    |-> "UNEXPECTED_VALTYPE",
            blocktype  |-> "UNEXPECTED_VALTYPE",
            mutability |-> "UNKNOWN_MUTABILITY_TYPE",
            limit      |-> "UNKNOWN_LIMIT_TYPE",
            functype   |-> "UNEXPECTED_OPCODE",
            tabletype  |-> "UNKNOWN_ELEMENT_TYPE",
            importdesc |-> "UNKNOWN_IMPORTDESC_TYPE",
            exportdesc |-> "UNKNOWN_EXPORTDESC_TYPE",
            tableidx   |-> "INVALID_TYPEIDX_FOR_CALL_INDIRECT",
            memoryidx  |-> "MEMORY_INDEX_NOT_ZERO",
            opcode     |-> "UNKNOWN_OPCODE",
            section    |-> "INVALID_SECTION_ID"]

\* The loop of next_insn_if stops at the end only.
ImmediatesWithoutElse(op) ==
  CASE op = OP_IF  -> <<On("blocktype"), Struct(<<Until({OP_END})>>), ElsePath>>
    [] OTHER       -> << >>

\* The switch of next_instruction.
Immediates(op) ==
  CASE op \in {OP_BLOCK, OP_LOOP}     -> <<On("blocktype"), Expression>>
    [] op = OP_IF                     -> <<On("blocktype"), Struct(<<Until({OP_ELSE, OP_END})>>), ElsePath>>
    [] op \in {OP_BR, OP_BR_IF, OP_CALL, OP_I32_CONST, OP_I64_CONST} \cup Variables -> <<U32>>
    [] op = OP_BR_TABLE               -> <<VecOf(U32), U32>>
    [] op = OP_CALL_INDIRECT          -> <<U32, On("tableidx")>>
    [] op \in Accesses                -> <<U32, U32>>
    [] op \in Sizes                   -> <<On("memoryidx")>>
    [] op = OP_F32_CONST              -> <<Raw(4)>>
    [] op = OP_F64_CONST              -> <<Raw(8)>>
    [] OTHER                          -> << >>

\* The switch of next_section.
Content(id) ==
  CASE id = CUSTOM   -> Skipped
    [] id = TYPE     -> VecOf(On("functype"))
    [] id = IMPORT   -> VecOf(Import)
    [] id = FUNCTION -> VecOf(U32)
    [] id = TABLE    -> VecOf(TableType)
    [] id = MEMORY   -> VecOf(Limit)
    [] id = GLOBAL   -> VecOf(Global)
    [] id = EXPORT   -> VecOf(Export)
    [] id = START    -> U32
    [] id = ELEMENT  -> VecOf(Element)
    [] id = CODE     -> VecOf(Func)
    [] id = DATA     -> VecOf(Data)

\* What follows byte b where a selection has read it.
Follows(what, b) ==
  CASE what = "limit"      -> IF b = 0 THEN <<U32>> ELSE <<U32, U32>>
    [] what = "functype"   -> <<VecOf(Valtype), VecOf(Valtype)>>
    [] what = "tabletype"  -> <<Limit>>
    [] what = "importdesc" -> <<(<<U32, TableType, Limit, GlobalType>>)[b + 1]>>
    [] what = "exportdesc" -> <<U32>>
    [] what = "opcode"     -> Immediates(b)
    [] what = "section"    -> <<U32, Content(b)>>
    [] OTHER               -> << >>

----------------------------------------------------------------------------
(* Frames *)

Frame(todo, read) == [todo |-> todo, read |-> read]

Top      == calls[Len(calls)]
Below    == SubSeq(calls, 1, Len(calls) - 1)
Reading  == phase = "section" /\ calls # << >> /\ Top.todo # << >>
Now      == Head(Top.todo)
Doing(d) == Reading /\ Now.do = d

\* The caller has read value v and goes on.
Got(v)       == Append(Below, Frame(Tail(Top.todo), Append(Top.read, v)))
\* It goes on to read other things first, or in place of what it was about to.
Instead(gs)  == Append(Below, Frame(gs \o Tail(Top.todo), Top.read))
\* It calls a function that is to read gs, and has read vs.
Enter(gs, vs) == Append(Append(Below, Frame(Tail(Top.todo), Top.read)), Frame(gs, vs))

Left    == Len(input) - pos
Ahead(n) == SubSeq(input, pos + 1, pos + n)
Peek    == input[pos + 1]

Keep  == UNCHANGED <<input, sections, module, types>>
Going == UNCHANGED <<phase, failure>>

\* THROW_EXCEPTION: the frames are gone, the caller of parse gets the code.
Throw(code) == /\ phase' = "failed" /\ failure' = code /\ calls' = << >>
               /\ UNCHANGED <<input, pos, sections, module, types>>

\* next_byte or peek_byte at the end of the file.
Needs(goal) == CASE goal.do \in {"u32", "vec", "choose", "until", "end", "else"} -> 1
                 [] goal.do = "raw"  -> goal.n
                 [] goal.do = "skip" -> Top.read[2]
                 [] OTHER            -> 0

\* The end of the file is seen by next_byte, not by peek_byte: the loops go on.
EndOfFileUnlessPeeking ==
  Reading /\ Now.do # "until" /\ Left < Needs(Now) /\ Throw("EOF_BEFORE_FINISHED")

EndOfFile == Reading /\ Left < Needs(Now) /\ Throw("EOF_BEFORE_FINISHED")

\* One of the things to read is there.
At(d) == Doing(d) /\ Left >= Needs(Now)

----------------------------------------------------------------------------
(* Numbers, bytes and selections *)

Overflow == (At("u32") \/ At("vec")) /\ Peek = Overlong /\ Throw("LEB_OVERFLOW")

ReadU32 == /\ At("u32") /\ Peek # Overlong
           /\ pos' = pos + 1 /\ calls' = Got(Peek)
           /\ Keep /\ Going

ReadRaw == /\ At("raw")
           /\ pos' = pos + Now.n
           /\ calls' = Got(IF Now.n = 1 THEN Peek ELSE Ahead(Now.n))
           /\ Keep /\ Going

Select == /\ At("choose")
          /\ IF Peek \in Accepts[Now.on]
             THEN /\ pos' = pos + 1
                  /\ calls' = Enter(Follows(Now.on, Peek), <<Peek>>)
                  /\ Keep /\ Going
             ELSE Throw(Refusal[Now.on])

\* The custom section: the content is read and dropped; sections keeps it.
Skip == /\ At("skip")
        /\ pos' = pos + Top.read[2] /\ calls' = Got(Ahead(Top.read[2]))
        /\ Keep /\ Going

----------------------------------------------------------------------------
(* Vectors, records and instruction vectors *)

ReadCount == /\ At("vec") /\ Peek # Overlong
             /\ pos' = pos + 1
             /\ calls' = Enter(<<[do |-> "items", of |-> Now.of, left |-> Peek]>>, << >>)
             /\ Keep /\ Going

\* One turn of the loop in MAKE_NEXT_VEC; vec_add when the item has been read.
NextItem == /\ Doing("items")
            /\ calls' = Instead(IF Now.left = 0 THEN << >>
                                ELSE <<Now.of, [Now EXCEPT !.left = @ - 1]>>)
            /\ UNCHANGED pos /\ Keep /\ Going

Begin == /\ Doing("struct")
         /\ calls' = Enter(Now.parts, << >>)
         /\ UNCHANGED pos /\ Keep /\ Going

\* A function returns what it has read.
Return == /\ phase = "section" /\ Len(calls) > 1 /\ Top.todo = << >>
          /\ LET caller == calls[Len(calls) - 1]
             IN  calls' = Append(SubSeq(calls, 1, Len(calls) - 2),
                                 Frame(caller.todo, Append(caller.read, Top.read)))
          /\ UNCHANGED pos /\ Keep /\ Going

\* The loops of next_expression, next_insn_block and next_insn_if: peek_byte
\* decides, and does not consume.
NextInstruction == /\ At("until")
                   /\ calls' = Instead(IF Peek \in Now.stop THEN << >> ELSE <<On("opcode"), Now>>)
                   /\ UNCHANGED pos /\ Keep /\ Going

ReadEnd == /\ At("end")
           /\ pos' = pos + 1 /\ calls' = Instead(<< >>)
           /\ Keep /\ Going

\* After the path that is taken: the else, whose body ends the if, or the end.
ReadElse == /\ At("else")
            /\ pos' = pos + 1
            /\ calls' = IF Peek = OP_ELSE THEN Instead(<<Struct(<<Expression>>)>>)
                        ELSE Got(<< >>)
            /\ Keep /\ Going

----------------------------------------------------------------------------
(* _parse *)

\* Where the file ends, the header differs.
CompareToEnd(expected, next, code) ==
  IF Left < Len(expected) \/ Ahead(Len(expected)) # expected THEN Throw(code)
  ELSE /\ pos' = pos + Len(expected) /\ phase' = next
       /\ UNCHANGED <<calls, failure>> /\ Keep

\* A header is compared byte by byte, and the comparison stops at the first
\* that differs.
Compare(expected, next, code) ==
  LET n == IF Left < Len(expected) THEN Left ELSE Len(expected)
  IN  IF Ahead(n) # SubSeq(expected, 1, n) THEN Throw(code)
      ELSE IF n < Len(expected) THEN Throw("EOF_BEFORE_FINISHED")
      ELSE /\ pos' = pos + n /\ phase' = next
           /\ UNCHANGED <<calls, failure>> /\ Keep

CheckMagic   == phase = "magic" /\ Compare(Magic, "version", "UNKNOWN_MAGIC_VALUE")
CheckVersion == phase = "version" /\ Compare(Version, "between", "VERSION_NOT_SUPPORTED")

\* The byte that was looked at is not put back.
NextSectionWithoutUngetc ==
  /\ phase = "between" /\ Left > 0
  /\ phase' = "section" /\ calls' = <<Frame(<<On("section")>>, << >>)>>
  /\ pos' = pos + 1
  /\ UNCHANGED failure /\ Keep

NextSection == /\ phase = "between" /\ Left > 0
               /\ phase' = "section" /\ calls' = <<Frame(<<On("section")>>, << >>)>>
               /\ UNCHANGED <<pos, failure>> /\ Keep

\* A section already there is kept.
StoredFirst(section) ==
  IF section[1] = CUSTOM \/ module[section[1]] # << >> THEN module
  ELSE [module EXCEPT ![section[1]] = <<section[3]>>]

\* The section takes the place of any other with its id.
Stored(section) ==
  IF section[1] = CUSTOM THEN module
  ELSE [module EXCEPT ![section[1]] = <<section[3]>>]

StoreSection ==
  /\ phase = "section" /\ Len(calls) = 1 /\ Top.todo = << >>
  /\ sections' = Append(sections, Top.read[1])
  /\ module' = Stored(Top.read[1])
  /\ phase' = "between" /\ calls' = << >>
  /\ UNCHANGED <<input, pos, types, failure>>

\* The end of the file is looked for between sections only.  Then the functions
\* get their types by index; without a function section there is no vector to
\* ask for its length.
AssignTypes ==
  /\ phase = "between" /\ Left = 0
  /\ LET functions == module[FUNCTION]
         funcs     == module[CODE]
     IN  IF \/ functions = << >>
            \/ functions[1] # << >> /\ (funcs = << >> \/ Len(funcs[1]) < Len(functions[1]))
         THEN Throw("VECTOR_EXCEPTION")
         ELSE /\ types' = IF funcs = << >> THEN << >>
                          ELSE [i \in 1..Len(funcs[1]) |->
                                  IF i <= Len(functions[1]) THEN functions[1][i] ELSE 0]
              /\ phase' = "done"
              /\ UNCHANGED <<input, pos, calls, sections, module, failure>>

Init == /\ input \in Inputs /\ pos = 0 /\ calls = << >>
        /\ sections = << >> /\ module = [id \in 1..11 |-> << >>] /\ types = << >>
        /\ phase = "magic" /\ failure = "none"

Step == \/ CheckMagic \/ CheckVersion \/ NextSection \/ EndOfFile \/ Overflow
        \/ ReadU32 \/ ReadRaw \/ Select \/ Skip \/ ReadCount \/ NextItem \/ Begin \/ Return
        \/ NextInstruction \/ ReadEnd \/ ReadElse \/ StoreSection \/ AssignTypes

\* A loop over the input, with nobody to wait for.
Spec == Init /\ [][Step]_vars /\ WF_vars(Step)

----------------------------------------------------------------------------
(* Properties *)

\* The content of the last section of a kind.
LastOf(id) ==
  LET those == {k \in 1..Len(sections) : sections[k][1] = id}
  IN  IF those = {} THEN << >>
      ELSE <<sections[CHOOSE k \in those : \A j \in those : j <= k][3]>>

\* Sections may come in any order and more than once: each field of the module
\* is what the last section of its kind says, and unset without one; and body i
\* has the type the i-th entry of the function section names, wherever the two
\* sections stood (parser.c:802-851).
LastSectionWins ==
  phase = "done" =>
    /\ \A id \in 1..11 : module[id] = LastOf(id)
    /\ LastOf(CODE) # << >> => Len(types) = Len(LastOf(CODE)[1])
    /\ \A i \in 1..Len(LastOf(FUNCTION)[1]) : types[i] = LastOf(FUNCTION)[1][i]
=============================================================================
