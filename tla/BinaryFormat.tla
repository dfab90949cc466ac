---------------------------- MODULE BinaryFormat ----------------------------
(***************************************************************************)
(* The binary format, written as its encoder: the bytes a section stands   *)
(* for, and what the parser owes to them.  A record is the tuple of its    *)
(* fields, a choice begins with the byte that selects it.                  *)
(***************************************************************************)
EXTENDS Parser

LOCAL INSTANCE SequencesExt

CONSTANT Modules   \* sequences of sections, in any order and number

Encoded(items, Of(_)) == FlattenSeq([i \in 1..Len(items) |-> Of(items[i])])
Counted(items, Of(_)) == <<Len(items)>> \o Encoded(items, Of)

Itself(bytes) == bytes
OneByte(b)    == <<b>>

RECURSIVE Instruction(_)
Instructions(is) == Encoded(is, Instruction)
Body(is)         == Instructions(is) \o <<OP_END>>

Instruction(i) ==
  CASE i[1] \in {OP_BLOCK, OP_LOOP} -> <<i[1]>> \o i[2] \o Body(i[3])
    [] i[1] = OP_IF /\ i[4] = << >> -> <<i[1]>> \o i[2] \o Body(i[3])
    [] i[1] = OP_IF /\ i[4] # << >> ->
         <<i[1]>> \o i[2] \o Instructions(i[3]) \o <<OP_ELSE>> \o Body(i[4][1])
    [] i[1] = OP_BR_TABLE           -> <<i[1]>> \o Counted(i[2], OneByte) \o <<i[3]>>
    [] i[1] = OP_CALL_INDIRECT      -> <<i[1], i[2]>> \o i[3]
    [] i[1] \in Sizes \cup {OP_F32_CONST, OP_F64_CONST} -> <<i[1]>> \o i[2]
    [] OTHER                        -> i

FuncTypeBytes(t) == <<t[1]>> \o Counted(t[2], Itself) \o Counted(t[3], Itself)
TableTypeBytes(t) == <<t[1]>> \o t[2]
GlobalTypeBytes(g) == g[1] \o g[2]
Described(d) ==
  <<d[1]>> \o CASE d[1] = 0 -> <<d[2]>>          [] d[1] = 1 -> TableTypeBytes(d[2])
                [] d[1] = 2 -> d[2]              [] d[1] = 3 -> GlobalTypeBytes(d[2])
ImportBytes(i)  == Counted(i[1], OneByte) \o Counted(i[2], OneByte) \o Described(i[3])
GlobalBytes(g)  == GlobalTypeBytes(g[1]) \o Body(g[2])
ExportBytes(e)  == Counted(e[1], OneByte) \o e[2]
ElementBytes(e) == <<e[1]>> \o Body(e[2]) \o Counted(e[3], OneByte)
LocalsBytes(l)  == <<l[1]>> \o l[2]
FuncBytes(f)    == <<f[1]>> \o Counted(f[2], LocalsBytes) \o Body(f[3])
DataBytes(d)    == <<d[1]>> \o Body(d[2]) \o Counted(d[3], OneByte)

ContentBytes(id, content) ==
  CASE id = CUSTOM   -> content
    [] id = TYPE     -> Counted(content, FuncTypeBytes)
    [] id = IMPORT   -> Counted(content, ImportBytes)
    [] id = FUNCTION -> Counted(content, OneByte)
    [] id = TABLE    -> Counted(content, TableTypeBytes)
    [] id = MEMORY   -> Counted(content, Itself)
    [] id = GLOBAL   -> Counted(content, GlobalBytes)
    [] id = EXPORT   -> Counted(content, ExportBytes)
    [] id = START    -> <<content>>
    [] id = ELEMENT  -> Counted(content, ElementBytes)
    [] id = CODE     -> Counted(content, FuncBytes)
    [] id = DATA     -> Counted(content, DataBytes)

SectionBytes(s) == <<s[1], s[2]>> \o ContentBytes(s[1], s[3])

\* The section of that id and content, with its true size.
Section(id, content) == <<id, Len(ContentBytes(id, content)), content>>

ModuleBytes(ss) == Magic \o Version \o Encoded(ss, SectionBytes)

Written == {ModuleBytes(ss) : ss \in Modules}

\* The entries of the last section of a kind, none without one.
Entries(ss, id) ==
  LET those == {k \in 1..Len(ss) : ss[k][1] = id}
  IN  IF those = {} THEN 0 ELSE Len(ss[CHOOSE k \in those : \A j \in those : j <= k][3])

\* The files in which every function has a body and every body a function.  The
\* well-formed ones are among them; out of order and doubled sections, which the
\* format forbids and the parser takes, are too.
Consistent == {ModuleBytes(ss) : ss \in {x \in Modules : Entries(x, FUNCTION) = Entries(x, CODE)}}

----------------------------------------------------------------------------
(* Properties *)

\* Whatever the file, well formed or not: what the parser has built is what the
\* bytes it has read encode, no byte is lost, read twice or taken for another,
\* and no file is accepted before all of it has been read
\* (next_byte, peek_byte and the loops that look ahead, parser.c:26-41).
ReadIsEncoded ==
  /\ phase \in {"between", "done"} => ModuleBytes(sections) = SubSeq(input, 1, pos)
  /\ phase = "done" => pos = Len(input)

\* A module whose function section and code section are of one length is refused
\* for one reason only, after all of it has been read: it has no function section.
\* What is in it, and in which order, keeps no such module out (parser.c:789-851).
ValidAccepted ==
  phase = "failed" /\ input \in Consistent =>
    /\ failure = "VECTOR_EXCEPTION" /\ pos = Len(input)
    /\ module[FUNCTION] = << >>

\* A file cut off is recognised as one: it is refused for its end and for nothing
\* else, unless it was cut between two sections.
TruncationSeen ==
  phase = "failed" /\ (\E bytes \in Written : IsPrefix(input, bytes)) =>
    \/ failure = "EOF_BEFORE_FINISHED"
    \/ failure = "VECTOR_EXCEPTION" /\ input = ModuleBytes(sections)

\* A count larger than what is left of the file, a section longer than the file
\* or a block that is never closed do not keep the parser busy for ever.
ParseEnds == <>(phase \in {"done", "failed"})
=============================================================================
