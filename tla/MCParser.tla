------------------------------ MODULE MCParser ------------------------------
(***************************************************************************)
(* Files for the parser: every small body in a module that has little      *)
(* else, every sequence of up to MaxSections small sections, and a few     *)
(* modules with each of their bytes changed, or cut off before it.         *)
(***************************************************************************)
EXTENDS BinaryFormat

CONSTANTS MaxInstructions, MaxSections

MCMagic   == <<0, 97>>
MCVersion == <<1, 0>>

Seqs(S, n) == UNION {[1..k -> S] : k \in 0..n}

Void == <<64>>
I32  == <<127>>

Simple == {<<1>>, <<OP_I32_CONST, 5>>, <<32, 11>>, <<OP_BR_TABLE, <<11, 5>>, 2>>,
           <<OP_CALL_INDIRECT, 0, <<0>>>>, <<63, <<0>>>>}

Others == {<<OP_BR, 0>>, <<OP_BR_TABLE, << >>, 0>>, <<OP_CALL, 2>>, <<40, 2, 11>>, <<64, <<0>>>>,
           <<OP_I64_CONST, 11>>, <<OP_F32_CONST, <<11, 5, 2, 255>>>>, <<191>>,
           <<OP_F64_CONST, <<4, 11, 5, 2, 64, 0, 0, 11>>>>}

\* Bodies of exactly n instructions, those of nested blocks included.
RECURSIVE Bodies(_)
Bodies(n) ==
  IF n = 0 THEN {<< >>}
  ELSE {<<i>> \o r : i \in Simple, r \in Bodies(n - 1)}
       \cup UNION {{<<<<op, t, b>>>> \o r : op \in {OP_BLOCK, OP_LOOP}, t \in {Void, I32},
                                        b \in Bodies(k), r \in Bodies(n - 1 - k)} : k \in 0..n - 1}
       \cup UNION {{<<<<OP_IF, Void, b, e>>>> \o r :
                      b \in Bodies(q[1]), e \in {<< >>} \cup {<<x>> : x \in Bodies(q[2])},
                      r \in Bodies(n - 1 - q[1] - q[2])} :
                   q \in {p \in (0..n - 1) \X (0..n - 1) : p[1] + p[2] < n}}

FuncOf(locals, body) == <<2, locals, body>>

WithBodies == {<<Section(FUNCTION, <<7>>), Section(CODE, <<FuncOf(<< >>, b)>>)>> :
                 b \in UNION {Bodies(n) : n \in 0..MaxInstructions} \cup {<<i>> : i \in Others}}

Offset == <<<<OP_I32_CONST, 1>>>>

Small == {Section(CUSTOM, << >>), Section(CUSTOM, <<3, 11>>),
          Section(TYPE, <<<<96, <<I32>>, << >>>>, <<96, << >>, <<I32, I32>>>>>>),
          Section(IMPORT, <<<<<<9>>, << >>, <<0, 4>>>>, <<<< >>, <<8>>, <<1, <<112, <<0, 1>>>>>>>>,
                            <<<< >>, << >>, <<2, <<1, 1, 2>>>>>>, <<<< >>, << >>, <<3, <<I32, <<1>>>>>>>>>>),
          Section(FUNCTION, << >>), Section(FUNCTION, <<3>>), Section(FUNCTION, <<4, 5>>),
          Section(TABLE, <<<<112, <<1, 2, 3>>>>>>), Section(MEMORY, <<<<0, 1>>>>),
          Section(GLOBAL, <<<<<<I32, <<0>>>>, Offset>>>>),
          Section(EXPORT, <<<<<<7, 7>>, <<0, 0>>>>, <<<< >>, <<3, 1>>>>>>),
          Section(START, 1), Section(START, 0),
          Section(ELEMENT, <<<<0, Offset, <<1, 0>>>>>>),
          Section(CODE, << >>), Section(CODE, <<FuncOf(<<<<2, I32>>>>, <<<<1>>>>)>>),
          Section(CODE, <<FuncOf(<< >>, << >>), FuncOf(<< >>, <<<<0>>>>)>>),
          Section(DATA, <<<<0, Offset, <<6, 11>>>>>>)}

\* Modules with every construct in them, to be broken.
Bases == {<<Section(FUNCTION, <<7>>), Section(CODE, <<FuncOf(<<<<2, I32>>>>, b)>>)>> :
            b \in {<<<<OP_IF, Void, <<<<1>>>>, <<<<<<1>>>>>>>>>>,
                   <<<<OP_LOOP, I32, <<<<OP_I32_CONST, 5>>>>>>>>, <<<<OP_BR_TABLE, <<11, 5>>, 2>>>>,
                   <<<<OP_CALL_INDIRECT, 0, <<0>>>>, <<63, <<0>>>>>>,
                   <<<<OP_F32_CONST, <<11, 5, 2, 255>>>>>>}}
          \cup {<<Section(FUNCTION, << >>), s>> : s \in {x \in Small : Len(x) = 3}}

MCModules == WithBodies \cup Bases \cup Seqs(Small, MaxSections)

Changed(bytes) == {[bytes EXCEPT ![i] = b] : i \in 1..Len(bytes),
                                            b \in {0, 1, 2, 4, 5, 11, 40, 64, 96, 112, 127, Overlong}}
Cut(bytes) == {SubSeq(bytes, 1, n) : n \in 0..Len(bytes)}

MCInputs == {ModuleBytes(ss) : ss \in MCModules}
              \cup UNION {Changed(ModuleBytes(ss)) \cup Cut(ModuleBytes(ss)) : ss \in Bases}
=============================================================================
