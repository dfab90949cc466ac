--------------------------- MODULE MCInstantiate ---------------------------
(***************************************************************************)
(* Modules with up to MaxSegments element segments, and a memory at the    *)
(* end of the address space or far from it.                                *)
(***************************************************************************)
EXTENDS Instantiate

CONSTANTS MaxSegments, Pages, MaxOffset

SeqsUpTo(S, n) == UNION {[1..k -> S] : k \in 0..n}

I32(v) == <<[op |-> "const", t |-> "i32", v |-> v]>>
Get(n) == <<[op |-> "global.get", idx |-> n]>>

All == Sections

Plain == [has |-> All \ {"import"}, mems |-> <<1>>, memImports |-> << >>, tables |-> <<3>>,
          elem |-> << >>, globals |-> << >>, data |-> << >>]

Segments == [table : {0}, offset : {I32(v) : v \in 0..2}, init : {<<0>>, <<1, 0>>}]
              \cup {[table |-> 1, offset |-> I32(0), init |-> <<0>>],
                    [table |-> 0, offset |-> Get(0), init |-> <<0>>],
                    [table |-> 0, offset |-> << >>, init |-> <<0>>],
                    [table |-> 0, offset |-> <<[op |-> "const", t |-> "i64", v |-> 0]>>, init |-> <<0>>]}

WithElements == {[Plain EXCEPT !.elem = elem, !.tables = <<n>>] :
                   elem \in SeqsUpTo(Segments, MaxSegments), n \in 2..3}

Initializers == {I32(1), I32(2), Get(0), Get(1)}

WithGlobals == {[Plain EXCEPT !.globals = gs] :
                  gs \in SeqsUpTo([t : {"i32", "i64"}, e : Initializers], 2)}

WithData == {[Plain EXCEPT !.mems = <<p>>, !.globals = <<[t |-> "i32", e |-> I32(1)]>>,
                           !.data = <<[memidx |-> 0, expression |-> e, length |-> n]>>] :
               p \in Pages, e \in {I32(v) : v \in 0..MaxOffset} \cup {Get(0), Get(1), << >>}, n \in 0..2}

Imports == SeqsUpTo([min : 0..2, max : {<< >>, <<2>>}], 2)

WithImports == {[Plain EXCEPT !.has = h, !.memImports = imports] :
                  h \in {All, All \ {"memory"}}, imports \in Imports}

Sparse == {[Plain EXCEPT !.has = All \ h] :
             h \in {{"table"}, {"element"}, {"global"}, {"data"}, {"export"}, {"type", "code"}}}

Odd == {[Plain EXCEPT !.mems = << >>], [Plain EXCEPT !.mems = <<1, 1>>],
        [Plain EXCEPT !.tables = << >>], [Plain EXCEPT !.tables = <<1, 1>>],
        [Plain EXCEPT !.has = All \ {"memory"}, !.data = <<[memidx |-> 0, expression |-> I32(0), length |-> 0]>>],
        [Plain EXCEPT !.data = <<[memidx |-> 1, expression |-> I32(0), length |-> 0]>>],
        [Plain EXCEPT !.data = <<[memidx |-> 0, expression |-> I32(0), length |-> 0],
                                 [memidx |-> 0, expression |-> I32(0), length |-> 0]>>]}

MCModules == WithElements \cup WithGlobals \cup WithData \cup WithImports \cup Sparse \cup Odd
=============================================================================
