------------------------------ MODULE Modules ------------------------------
(***************************************************************************)
(* Generates, for TLC, every valid module of bounded size over a choice of *)
(* opcodes.  A body is generated along its validation, as a sequence of    *)
(* steps [i, after]: an instruction, whose blocks are still bodies, and    *)
(* the operand types it leaves.  Assemble then lays the bodies out as the  *)
(* parser does, one instruction vector per block, named by the path of     *)
(* instruction indices that leads to it.                                   *)
(***************************************************************************)
EXTENDS Naturals, Sequences, FiniteSets

Dead == <<"dead">>

Ends(ts, us) == Len(ts) >= Len(us) /\ SubSeq(ts, Len(ts) - Len(us) + 1, Len(ts)) = us
Less(ts, us) == SubSeq(ts, 1, Len(ts) - Len(us))

\* A context c: the opcodes to use, the result types of the blocks to generate,
\* the types of its labels, results, locals and globals, and the signatures of
\* the functions it may call.

Step(i, ts, pops, push) ==
  IF Ends(ts, pops) THEN {[i |-> i, after |-> Less(ts, pops) \o push]} ELSE {}

LabelsFor(c, ts) == {l \in 0..Len(c.labels) - 1 : Ends(ts, c.labels[l + 1])}

Straight(c, ts) ==
  LET I(op) == IF op \in c.ops THEN {op} ELSE {}
  IN  UNION (
        {Step([op |-> "const", t |-> "i32", v |-> v], ts, << >>, <<"i32">>) : v \in c.consts}
        \cup {Step([op |-> "const", t |-> "i64", v |-> 0], ts, << >>, <<"i64">>) : o \in I("i64")}
        \cup {Step([op |-> "numeric", pops |-> <<"i32", "i32">>, push |-> "i32"],
                   ts, <<"i32", "i32">>, <<"i32">>) : o \in I("numeric")}
        \cup {Step([op |-> "numeric", pops |-> <<"i64">>, push |-> "i32"],
                   ts, <<"i64">>, <<"i32">>) : o \in I("i64")}
        \cup {Step([op |-> o], ts, <<t>>, << >>) : o \in I("drop"), t \in {"i32", "i64"}}
        \cup {Step([op |-> o], ts, <<t, t, "i32">>, <<t>>) : o \in I("select"), t \in {"i32", "i64"}}
        \cup {Step([op |-> o], ts, << >>, << >>) : o \in I("nop")}
        \cup {Step([op |-> o], ts, << >>, <<"i32">>) : o \in I("memory.size")}
        \cup {Step([op |-> o], ts, <<"i32">>, <<"i32">>) : o \in I("memory.grow")}
        \cup {Step([op |-> o, t |-> "i32"], ts, <<"i32">>, <<"i32">>) : o \in I("load") \cup I("bitcount")}
        \cup {Step([op |-> o, t |-> "i32"], ts, <<"i32", "i32">>, << >>) : o \in I("store")}
        \cup UNION {{Step([op |-> o, idx |-> n - 1], ts, << >>, <<c.locals[n]>>) : o \in I("local.get")}
              \cup {Step([op |-> o, idx |-> n - 1], ts, <<c.locals[n]>>, << >>) : o \in I("local.set")}
              \cup {Step([op |-> o, idx |-> n - 1], ts, <<c.locals[n]>>, <<c.locals[n]>>) : o \in I("local.tee")}
                     : n \in 1..Len(c.locals)}
        \cup UNION {{Step([op |-> o, idx |-> n - 1], ts, << >>, <<c.globals[n]>>) : o \in I("global.get")}
              \cup {Step([op |-> o, idx |-> n - 1], ts, <<c.globals[n]>>, << >>) : o \in I("global.set")}
                     : n \in 1..Len(c.globals)}
        \cup {Step([op |-> o, label |-> l], ts, <<"i32">>, << >>) :
                o \in I("br_if"), l \in LabelsFor(c, Less(ts, <<"i32">>))}
        \cup {Step([op |-> o, func |-> n - 1], ts, c.funcs[n].t1, c.funcs[n].t2) :
                o \in I("call"), n \in 1..Len(c.funcs)}
        \cup {Step([op |-> o, t1 |-> c.funcs[n].t1, t2 |-> c.funcs[n].t2], ts,
                   Append(c.funcs[n].t1, "i32"), c.funcs[n].t2) :
                o \in I("call_indirect"), n \in 1..Len(c.funcs)})

\* Instructions after which control does not go on.
Jumps(c, ts) ==
  LET I(op) == IF op \in c.ops THEN {op} ELSE {}
      below == Less(ts, <<"i32">>)
  IN  {[i |-> [op |-> o, label |-> l], after |-> Dead] : o \in I("br"), l \in LabelsFor(c, ts)}
      \cup (IF Ends(ts, <<"i32">>)
            THEN {[i |-> [op |-> o, labels |-> <<l>>, default |-> d], after |-> Dead] :
                    o \in I("br_table"), l \in LabelsFor(c, below), d \in LabelsFor(c, below)}
            ELSE {})
      \cup (IF Ends(ts, c.results) THEN {[i |-> [op |-> o], after |-> Dead] : o \in I("return")} ELSE {})
      \cup {[i |-> [op |-> o], after |-> Dead] : o \in I("unreachable")}

Inside(c, kind, rt) == [c EXCEPT !.labels = <<IF kind = "loop" THEN << >> ELSE rt>> \o c.labels]

\* The bodies of exactly n instructions, those of nested blocks included, that
\* take operands of types ts to rt.
RECURSIVE Bodies(_, _, _, _)
Bodies(c, ts, rt, n) ==
  IF n = 0 THEN (IF ts = rt THEN {<< >>} ELSE {})
  ELSE IF Len(ts) > 3 THEN {}
  ELSE (IF n = 1 THEN {<<j>> : j \in Jumps(c, ts)} ELSE {})
       \cup UNION {{<<s>> \o r : r \in Bodies(c, s.after, rt, n - 1)} : s \in Straight(c, ts)}
       \cup UNION {{<<[i |-> [op |-> o, rt |-> t, body |-> b], after |-> ts \o t]>> \o r :
                      b \in Bodies(Inside(c, o, t), << >>, t, k),
                      r \in Bodies(c, ts \o t, rt, n - 1 - k)} :
                   o \in c.ops \cap {"block"}, t \in c.blocks, k \in 0..n - 1}
       \cup UNION {{<<[i |-> [op |-> o, rt |-> << >>, body |-> b], after |-> ts]>> \o r :
                      b \in Bodies(Inside(c, o, << >>), << >>, << >>, k),
                      r \in Bodies(c, ts, rt, n - 1 - k)} :
                   o \in c.ops \cap {"loop"}, k \in 0..n - 1}
       \cup (IF ~Ends(ts, <<"i32">>) THEN {}
             ELSE UNION {{<<[i |-> [op |-> o, rt |-> t, then |-> b, else |-> e],
                            after |-> Less(ts, <<"i32">>) \o t]>> \o r :
                      b \in Bodies(Inside(c, o, t), << >>, t, k),
                      e \in Bodies(Inside(c, o, t), << >>, t, m),
                      r \in Bodies(c, Less(ts, <<"i32">>) \o t, rt, n - 1 - k - m)} :
                   o \in c.ops \cap {"if"}, t \in c.blocks,
                   <<k, m>> \in {q \in (0..n - 1) \X (0..n - 1) : q[1] + q[2] < n}})

BodiesUpTo(c, rt, n) == UNION {Bodies(c, << >>, rt, k) : k \in 0..n}

----------------------------------------------------------------------------
(* From bodies to instruction vectors *)

ThenPath(path, k) == Append(path, k)
ElsePath(path, k) == path \o <<k, 0>>

\* The instruction of the vector at path, its blocks named.
Laid(s, path, k) ==
  CASE s.i.op \in {"block", "loop"} -> [s.i EXCEPT !.body = ThenPath(path, k)]
    [] s.i.op = "if" -> [s.i EXCEPT !.then = ThenPath(path, k), !.else = ElsePath(path, k)]
    [] OTHER -> s.i

RECURSIVE Laying(_, _, _, _, _)
Laying(path, body, kind, rt, labels) ==
  LET here == Append(labels, path)
      own  == [n \in 1..Len(here) |-> here[Len(here) - n + 1]]
  IN  {[path |-> path,
        code |-> [k \in 1..Len(body) |-> Laid(body[k], path, k)],
        typing |-> [kind |-> kind, rt |-> rt, func |-> path[1] - 1, labels |-> own,
                    types |-> << << >> >> \o [k \in 1..Len(body) |-> body[k].after]]]}
      \cup UNION {
        CASE body[k].i.op \in {"block", "loop"} ->
               Laying(ThenPath(path, k), body[k].i.body,
                      IF body[k].i.op = "loop" THEN "loop" ELSE "control", body[k].i.rt, here)
          [] body[k].i.op = "if" ->
               Laying(ThenPath(path, k), body[k].i.then, "control", body[k].i.rt, here)
                 \cup Laying(ElsePath(path, k), body[k].i.else, "control", body[k].i.rt, here)
          [] OTHER -> {} : k \in 1..Len(body)}

\* The module with the functions fs, records of a signature, locals and a body.
Assemble(fs, exports, globals, table, start) ==
  LET vectors == UNION {Laying(<<n>>, fs[n].body, "function", fs[n].t2, << >>) : n \in 1..Len(fs)}
      At(path) == CHOOSE v \in vectors : v.path = path
      paths    == {v.path : v \in vectors}
  IN  [code    |-> [p \in paths |-> At(p).code],
       typing  |-> [p \in paths |-> At(p).typing],
       funcs   |-> [n \in 1..Len(fs) |-> [t1 |-> fs[n].t1, t2 |-> fs[n].t2,
                                          locals |-> fs[n].locals, body |-> <<n>>]],
       exports |-> exports, globals |-> globals, table |-> table, start |-> start,
       memory |-> TRUE]
=============================================================================
