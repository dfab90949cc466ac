--------------------------- MODULE StructuredProofs ---------------------------
(***************************************************************************)
(* Type soundness: whatever valid module the abstract machine is given, it *)
(* never gets stuck.  Every context has the operands its next instruction  *)
(* was validated against, and its labels are the contexts below it; each   *)
(* step needs both, to find what it takes and where it goes.               *)
(***************************************************************************)
EXTENDS Structured, StackProofs

----------------------------------------------------------------------------
(* The types of operands *)

LEMMA TypesType ==
  ASSUME NEW s \in Seq(Values)
  PROVE  /\ Types(s) \in Seq(AnyType) /\ Len(Types(s)) = Len(s)
         /\ \A n \in 1..Len(s) : Types(s)[n] = s[n].valtype
<1>1. ASSUME NEW n \in 1..Len(s) PROVE s[n].valtype \in AnyType
  <2>1. s[n] \in Values
    BY ElementOfSeq
  <2>. QED BY <2>1 DEF Values
<1>2. Len(s) \in Nat
  OBVIOUS
<1>3. Types(s) \in Seq(AnyType)
  BY <1>1, <1>2, IsASeq DEF Types
<1>4. Len(Types(s)) = Len(s)
  BY <1>2 DEF Types
<1>. QED BY <1>3, <1>4 DEF Types

LEMMA TypesConcat ==
  ASSUME NEW s \in Seq(Values), NEW t \in Seq(Values)
  PROVE  s \o t \in Seq(Values) /\ Types(s \o t) = Types(s) \o Types(t)
<1>1. /\ s \o t \in Seq(Values) /\ Len(s \o t) = Len(s) + Len(t)
      /\ \A i \in 1..Len(s) + Len(t) : (s \o t)[i] = IF i <= Len(s) THEN s[i] ELSE t[i - Len(s)]
  BY ConcatProperties
<1>2. /\ Types(s) \in Seq(AnyType) /\ Types(t) \in Seq(AnyType) /\ Types(s \o t) \in Seq(AnyType)
      /\ Len(Types(s)) = Len(s) /\ Len(Types(t)) = Len(t) /\ Len(Types(s \o t)) = Len(s) + Len(t)
  BY <1>1, TypesType
<1>3. /\ Types(s) \o Types(t) \in Seq(AnyType) /\ Len(Types(s) \o Types(t)) = Len(s) + Len(t)
      /\ \A i \in 1..Len(s) + Len(t) :
           (Types(s) \o Types(t))[i] = IF i <= Len(s) THEN Types(s)[i] ELSE Types(t)[i - Len(s)]
  BY <1>2, ConcatProperties
<1>4. ASSUME NEW i \in 1..Len(s) + Len(t)
      PROVE  Types(s \o t)[i] = (Types(s) \o Types(t))[i]
  <2>1. Len(s) \in Nat /\ Len(t) \in Nat
    OBVIOUS
  <2>2. Types(s \o t)[i] = (s \o t)[i].valtype
    BY <1>1, TypesType
  <2>3. CASE i <= Len(s)
    <3>1. i \in 1..Len(s)
      BY <2>1, <2>3
    <3>. QED BY <1>1, <1>3, <2>2, <2>3, <3>1, TypesType
  <2>4. CASE ~(i <= Len(s))
    <3>1. i - Len(s) \in 1..Len(t)
      BY <2>1, <2>4
    <3>. QED BY <1>1, <1>3, <2>2, <2>4, <3>1, TypesType
  <2>. QED BY <2>3, <2>4
<1>. QED BY <1>1, <1>2, <1>3, <1>4, SeqEqual

LEMMA TypesOne ==
  ASSUME NEW v \in Values
  PROVE  <<v>> \in Seq(Values) /\ Types(<<v>>) = <<v.valtype>>
  BY DEF Types

LEMMA TypesNone == << >> \in Seq(Values) /\ Types(<< >>) = << >>
  BY EmptySeq DEF Types

\* No list of operands has the type of unreachable code.
LEMMA NotDead ==
  ASSUME NEW ts \in Seq(AnyType)
  PROVE  ts # Dead
<1>1. SUFFICES ASSUME ts = Dead PROVE FALSE
  OBVIOUS
<1>2. Len(ts) = 1 /\ ts[1] = "dead"
  BY <1>1 DEF Dead
<1>3. ts[1] \in AnyType
  BY <1>2, ElementOfSeq
<1>. QED BY <1>2, <1>3 DEF AnyType, ValType

\* Operands of the types us on top can be popped, and leave the others.
LEMMA EndsHolds ==
  ASSUME NEW s \in Seq(Values), NEW us \in Seq(AnyType), Ends(Types(s), us)
  PROVE  /\ Holds(s, us) /\ Len(us) <= Len(s)
         /\ Dropped(s, Len(us)) \in Seq(Values)
         /\ Types(Dropped(s, Len(us))) = Less(Types(s), us)
         /\ Kept(s, Len(us)) \in Seq(Values)
         /\ Types(Kept(s, Len(us))) = us
         /\ \A n \in 1..Len(us) : Popped(s, n) \in Values /\ Popped(s, n).valtype = us[Len(us) - n + 1]
<1>. DEFINE ts == Types(s)
<1>1. /\ ts \in Seq(AnyType) /\ Len(ts) = Len(s) /\ Len(s) \in Nat /\ Len(us) \in Nat
      /\ \A n \in 1..Len(s) : ts[n] = s[n].valtype
  BY TypesType
<1>2. Len(us) <= Len(s) /\ SubSeq(ts, Len(s) - Len(us) + 1, Len(s)) = us
  BY <1>1 DEF Ends
<1>. HIDE DEF ts
<1>3. ASSUME NEW k \in 1..Len(us)
      PROVE  us[k] = s[Len(s) - Len(us) + k].valtype
  <2>1. us[k] = ts[Len(s) - Len(us) + k]
    <3>1. \A i \in Len(s) - Len(us) + 1 .. Len(s) : ts[i] \in AnyType
      BY <1>1, <1>2, ElementOfSeq
    <3>2. k \in 1..Len(s) - (Len(s) - Len(us) + 1) + 1
      BY <1>1
    <3>3. Len(s) - Len(us) + 1 \in Int /\ Len(s) \in Int
      BY <1>1
    <3>4. SubSeq(ts, Len(s) - Len(us) + 1, Len(s))[k] = ts[Len(s) - Len(us) + 1 + k - 1]
      BY <3>1, <3>2, <3>3, SubSeqProperties
    <3>5. Len(s) - Len(us) + 1 + k - 1 = Len(s) - Len(us) + k
      BY <1>1
    <3>. QED BY <1>2, <3>4, <3>5
  <2>2. Len(s) - Len(us) + k \in 1..Len(s)
    BY <1>1, <1>2
  <2>. QED BY <1>1, <2>1, <2>2
<1>4. /\ Dropped(s, Len(us)) \in Seq(Values) /\ Len(Dropped(s, Len(us))) = Len(s) - Len(us)
      /\ \A k \in 1..Len(s) - Len(us) : Dropped(s, Len(us))[k] = s[k]
  BY <1>1, <1>2, DroppedType
<1>5. /\ Kept(s, Len(us)) \in Seq(Values) /\ Len(Kept(s, Len(us))) = Len(us)
      /\ \A k \in 1..Len(us) : Kept(s, Len(us))[k] = s[Len(s) - Len(us) + k]
  BY <1>1, <1>2, KeptType
<1>6. Types(Kept(s, Len(us))) = us
  <2>1. /\ Types(Kept(s, Len(us))) \in Seq(AnyType) /\ Len(Types(Kept(s, Len(us)))) = Len(us)
        /\ \A k \in 1..Len(us) : Types(Kept(s, Len(us)))[k] = Kept(s, Len(us))[k].valtype
    BY <1>5, TypesType
  <2>. QED BY <2>1, <1>3, <1>5, SeqEqual
<1>7. Types(Dropped(s, Len(us))) = Less(ts, us)
  <2>1. /\ Types(Dropped(s, Len(us))) \in Seq(AnyType)
        /\ Len(Types(Dropped(s, Len(us)))) = Len(s) - Len(us)
        /\ \A k \in 1..Len(s) - Len(us) : Types(Dropped(s, Len(us)))[k] = s[k].valtype
    BY <1>4, TypesType
  <2>2. Len(s) - Len(us) \in 0..Len(s)
    BY <1>1, <1>2
  <2>3. Dropped(ts, Len(us)) = Less(ts, us)
    BY DEF Dropped, Less
  <2>4. /\ Less(ts, us) \in Seq(AnyType) /\ Len(Less(ts, us)) = Len(ts) - Len(us)
        /\ \A k \in 1..Len(ts) - Len(us) : Less(ts, us)[k] = ts[k]
    <3>1. Len(us) <= Len(ts)
      BY <1>1, <1>2
    <3>. QED BY <1>1, <2>3, <3>1, DroppedType
  <2>5. \A k \in 1..Len(s) - Len(us) : ts[k] = s[k].valtype
    BY <1>1, <2>2
  <2>. QED BY <1>1, <2>1, <2>4, <2>5, SeqEqual
<1>8. ASSUME NEW n \in 1..Len(us)
      PROVE  Popped(s, n) \in Values /\ Popped(s, n).valtype = us[Len(us) - n + 1]
  <2>1. Len(us) - n + 1 \in 1..Len(us) /\ Len(s) - Len(us) + (Len(us) - n + 1) = Len(s) - n + 1
        /\ Len(s) - n + 1 \in 1..Len(s)
    BY <1>1, <1>2
  <2>. QED BY <2>1, <1>3, ElementOfSeq DEF Popped
<1>9. Holds(s, us)
  <2>1. ASSUME NEW k \in 1..Len(us)
        PROVE  ~IsMarker(s[Len(s) - Len(us) + k])
    <3>1. Len(s) - Len(us) + k \in 1..Len(s)
      BY <1>1, <1>2
    <3>2. s[Len(s) - Len(us) + k] \in Values
      BY <3>1, ElementOfSeq
    <3>. QED BY <3>2 DEF Values, IsMarker
  <2>. QED BY <1>1, <1>2, <1>3, <2>1 DEF Holds
<1>. QED BY <1>2, <1>4, <1>5, <1>6, <1>7, <1>8, <1>9 DEF ts

----------------------------------------------------------------------------
(* The inductive invariant *)

Context(p) == [instrs : Blocks(p), ip : Nat, kind : {"function", "control", "loop"},
               result : ResultType, operands : Seq(Values), locals : Seq(Values)]

\* A context is what its block was validated as.
Suits(p, c) ==
  LET t == p.typing[c.instrs]
  IN  /\ c.kind = t.kind /\ c.result = t.rt /\ c.ip <= Len(p.code[c.instrs])
      /\ c.kind = "function" => /\ t.func < Len(p.funcs)
                                /\ c.result = FuncOf(p, c.instrs).t2
                                /\ Types(c.locals) = LocalTypes(p, c.instrs)

\* The labels of context k are the contexts below it, of the same activation.
Labelled(p, cs, k) ==
  LET t == p.typing[cs[k].instrs]
  IN  /\ Len(t.labels) <= k
      /\ \A l \in 0..Len(t.labels) - 1 :
           /\ cs[k - l].instrs = t.labels[l + 1]
           /\ cs[k - l].kind = "function" <=> l = Len(t.labels) - 1
           /\ p.typing[cs[k - l].instrs].func = t.func

\* A context that is about to receive operands of the types await.
Fits(p, c, await) == Types(c.operands) \o await = TypesOf(p, c.instrs, c.ip + 1)

Expected(cs, k, await) == IF k = Len(cs) THEN await ELSE cs[k + 1].result

\* Contexts the topmost of which is about to receive operands of the types await.
Good(p, cs, await) ==
  /\ cs \in Seq(Context(p))
  /\ \A k \in 1..Len(cs) : /\ Suits(p, cs[k]) /\ Labelled(p, cs, k)
                           /\ Fits(p, cs[k], Expected(cs, k, await))

GlobalsTyped(p, gs) == /\ gs \in Seq(Values) /\ Len(gs) = Len(p.globals)
                       /\ \A n \in 1..Len(gs) : gs[n].valtype = p.globals[n].valtype

IInv == /\ prog \in Programs
        /\ Good(prog, contexts, << >>)
        /\ GlobalsTyped(prog, globals)

\* What the assumptions on the programs give.
LEMMA ProgramType ==
  ASSUME NEW p \in Programs
  PROVE  /\ p.code \in [Blocks(p) -> Seq(Instr(Blocks(p)))]
         /\ p.typing \in [Blocks(p) -> BlockTyping(Blocks(p))]
         /\ \A b \in Blocks(p) : BlockTyped(p, b)
         /\ p.funcs \in Seq(Func(Blocks(p)))
         /\ \A n \in 1..Len(p.funcs) : FuncTyped(p, n)
         /\ p.globals \in Seq(Values)
  BY CodeAssumption, TypingAssumption DEF IsProgram, Valid

LEMMA BlockType ==
  ASSUME NEW p \in Programs, NEW b \in Blocks(p)
  PROVE  /\ p.code[b] \in Seq(Instr(Blocks(p))) /\ Len(p.code[b]) \in Nat
         /\ p.typing[b].kind \in {"function", "control", "loop"}
         /\ p.typing[b].rt \in ResultType /\ p.typing[b].func \in Nat
         /\ p.typing[b].labels \in Seq(Blocks(p))
         /\ Len(p.typing[b].labels) \in Nat \ {0} /\ p.typing[b].labels[1] = b
         /\ Len(p.typing[b].types) = Len(p.code[b]) + 1
         /\ \A k \in 1..Len(p.code[b]) + 1 : TypesOf(p, b, k) \in ValueTypes \cup {Dead}
         /\ TypesOf(p, b, 1) = << >>
<1>1. p.typing[b] \in BlockTyping(Blocks(p)) /\ p.code[b] \in Seq(Instr(Blocks(p))) /\ BlockTyped(p, b)
  BY ProgramType
<1>2. /\ p.typing[b].kind \in {"function", "control", "loop"}
      /\ p.typing[b].rt \in ResultType /\ p.typing[b].func \in Nat
      /\ p.typing[b].labels \in Seq(Blocks(p)) /\ p.typing[b].types \in Seq(ValueTypes \cup {Dead})
  BY <1>1 DEF BlockTyping
<1>3. /\ p.typing[b].labels # << >> /\ p.typing[b].labels[1] = b
      /\ Len(p.typing[b].types) = Len(p.code[b]) + 1 /\ TypesOf(p, b, 1) = << >>
  BY <1>1 DEF BlockTyped
<1>4. Len(p.typing[b].labels) \in Nat \ {0}
  BY <1>2, <1>3, EmptySeq
<1>5. \A k \in 1..Len(p.code[b]) + 1 : TypesOf(p, b, k) \in ValueTypes \cup {Dead}
  BY <1>2, <1>3, ElementOfSeq DEF TypesOf
<1>. QED BY <1>1, <1>2, <1>3, <1>4, <1>5

LEMMA ResultTypeSeq == ResultType \subseteq Seq(AnyType)
<1>1. \A t \in ValType : <<t>> \in Seq(AnyType)
  BY DEF AnyType
<1>. QED BY <1>1, EmptySeq DEF ResultType

LEMMA ContextType ==
  ASSUME NEW p \in Programs, NEW cs, NEW await, Good(p, cs, await), NEW k \in 1..Len(cs)
  PROVE  /\ cs[k] \in Context(p) /\ cs[k].instrs \in Blocks(p) /\ cs[k].ip \in Nat
         /\ cs[k].operands \in Seq(Values) /\ cs[k].locals \in Seq(Values)
         /\ cs[k].result \in ResultType
<1>1. cs \in Seq(Context(p))
  BY DEF Good
<1>2. cs[k] \in Context(p)
  BY <1>1, ElementOfSeq
<1>. QED BY <1>2 DEF Context

LEMMA IInvImplies ==
  ASSUME IInv
  PROVE  OperandsMatchTyping /\ LabelsMatchContexts
<1>1. \A k \in 1..Depth : Fits(prog, contexts[k], Expected(contexts, k, << >>))
                            /\ Labelled(prog, contexts, k)
  BY DEF IInv, Good, Depth
<1>2. \A k \in 1..Depth : Expected(contexts, k, << >>) = Awaits(k)
  BY DEF Expected, Awaits, Depth
<1>3. OperandsMatchTyping
  BY <1>1, <1>2 DEF Fits, OperandsMatchTyping
<1>4. LabelsMatchContexts
  BY <1>1 DEF Labelled, LabelsMatchContexts
<1>. QED BY <1>3, <1>4

----------------------------------------------------------------------------
(* How a step may change the contexts *)

\* Some of the contexts, with other operands, locals or instruction pointers.
LEMMA GoodAlike ==
  ASSUME NEW p \in Programs, NEW cs, NEW v, Good(p, cs, v),
         NEW ds \in Seq(Context(p)), Len(ds) <= Len(cs),
         \A k \in 1..Len(ds) : /\ ds[k].instrs = cs[k].instrs /\ ds[k].kind = cs[k].kind
                               /\ Suits(p, ds[k]),
         NEW w, \A k \in 1..Len(ds) : Fits(p, ds[k], Expected(ds, k, w))
  PROVE  Good(p, ds, w)
<1>1. cs \in Seq(Context(p)) /\ Len(cs) \in Nat /\ Len(ds) \in Nat
  BY DEF Good
<1>2. ASSUME NEW k \in 1..Len(ds)
      PROVE  Labelled(p, ds, k)
  <2>1. k \in 1..Len(cs) /\ Labelled(p, cs, k) /\ ds[k].instrs = cs[k].instrs
    BY <1>1 DEF Good
  <2>2. cs[k].instrs \in Blocks(p)
    BY <2>1, ContextType
  <2>3. Len(p.typing[cs[k].instrs].labels) \in Nat
    BY <2>2, BlockType
  <2>4. ASSUME NEW l \in 0..Len(p.typing[cs[k].instrs].labels) - 1
        PROVE  ds[k - l].instrs = cs[k - l].instrs /\ ds[k - l].kind = cs[k - l].kind
    <3>1. Len(p.typing[cs[k].instrs].labels) <= k
      BY <2>1 DEF Labelled
    <3>2. k - l \in 1..Len(ds)
      BY <1>1, <2>3, <3>1
    <3>. QED BY <3>2
  <2>. QED BY <2>1, <2>4 DEF Labelled
<1>. QED BY <1>2 DEF Good

\* The contexts up to n, the last of them changed.
LEMMA GoodTop ==
  ASSUME NEW p \in Programs, NEW cs, NEW v, Good(p, cs, v), NEW n \in 1..Len(cs),
         NEW c \in Context(p), c.instrs = cs[n].instrs, c.kind = cs[n].kind,
         c.result = cs[n].result, c.locals = cs[n].locals, c.ip <= Len(p.code[c.instrs]),
         NEW w, Fits(p, c, w)
  PROVE  Good(p, [SubSeq(cs, 1, n) EXCEPT ![n] = c], w)
<1>. DEFINE ds == [SubSeq(cs, 1, n) EXCEPT ![n] = c]
<1>1. cs \in Seq(Context(p)) /\ Len(cs) \in Nat /\ n \in Nat
  BY DEF Good
<1>2. /\ SubSeq(cs, 1, n) \in Seq(Context(p)) /\ Len(SubSeq(cs, 1, n)) = n
      /\ \A k \in 1..n : SubSeq(cs, 1, n)[k] = cs[k]
  <2>1. \A k \in 1..n : cs[k] \in Context(p)
    BY <1>1, ElementOfSeq
  <2>2. 1 \in Int /\ n \in Int /\ n - 1 + 1 = n /\ 1 <= n /\ \A k \in 1..n : 1 + k - 1 = k
    BY <1>1
  <2>. QED BY <2>1, <2>2, SubSeqProperties
<1>3. /\ ds \in Seq(Context(p)) /\ Len(ds) = n
      /\ \A k \in 1..n : ds[k] = IF k = n THEN c ELSE cs[k]
  <2>1. PICK bs : bs = SubSeq(cs, 1, n)
    OBVIOUS
  <2>2. bs \in Seq(Context(p)) /\ Len(bs) = n /\ n \in 1..Len(bs) /\ \A k \in 1..n : bs[k] = cs[k]
    BY <1>1, <1>2, <2>1
  <2>3. /\ [bs EXCEPT ![n] = c] \in Seq(Context(p)) /\ Len([bs EXCEPT ![n] = c]) = Len(bs)
        /\ \A k \in 1..Len(bs) : [bs EXCEPT ![n] = c][k] = IF k = n THEN c ELSE bs[k]
    BY <2>2, ExceptSeq
  <2>4. ds = [bs EXCEPT ![n] = c]
    BY <2>1
  <2>. QED BY <2>2, <2>3, <2>4
<1>. HIDE DEF ds
<1>4. ASSUME NEW k \in 1..n
      PROVE  /\ ds[k].instrs = cs[k].instrs /\ ds[k].kind = cs[k].kind
             /\ ds[k].result = cs[k].result
             /\ Suits(p, ds[k])
  <2>1. Suits(p, cs[k])
    BY <1>1 DEF Good
  <2>2. CASE k = n
    BY <1>3, <2>1, <2>2 DEF Suits
  <2>3. CASE k # n
    BY <1>3, <2>1, <2>3
  <2>. QED BY <2>2, <2>3
<1>5. ASSUME NEW k \in 1..n
      PROVE  Fits(p, ds[k], Expected(ds, k, w))
  <2>1. CASE k = n
    BY <1>3, <2>1 DEF Expected
  <2>2. CASE k # n
    <3>1. k \in 1..Len(cs) /\ k # Len(cs) /\ k + 1 \in 1..n
      BY <1>1, <2>2
    <3>2. Expected(ds, k, w) = Expected(cs, k, v)
      BY <1>3, <1>4, <2>2, <3>1 DEF Expected
    <3>3. Fits(p, cs[k], Expected(cs, k, v))
      BY <3>1 DEF Good
    <3>. QED BY <1>3, <2>2, <3>2, <3>3
  <2>. QED BY <2>1, <2>2
<1>6. Len(ds) <= Len(cs)
  BY <1>1, <1>3
<1>7. Good(p, ds, w)
  BY <1>3, <1>4, <1>5, <1>6, GoodAlike
<1>. QED BY <1>7 DEF ds

\* A local of an activation changed for a value of its type.
LEMMA GoodLocal ==
  ASSUME NEW p \in Programs, NEW cs, NEW v, Good(p, cs, v), NEW a \in 1..Len(cs),
         NEW i \in 1..Len(cs[a].locals), NEW e \in Values, e.valtype = cs[a].locals[i].valtype
  PROVE  Good(p, [cs EXCEPT ![a].locals[i] = e], v)
<1>. DEFINE c  == [cs[a] EXCEPT !.locals = [cs[a].locals EXCEPT ![i] = e]]
            ds == [cs EXCEPT ![a] = c]
<1>1. cs \in Seq(Context(p)) /\ Len(cs) \in Nat
  BY DEF Good
<1>2. cs[a] \in Context(p) /\ cs[a].locals \in Seq(Values)
  BY ContextType
<1>3. /\ [cs[a].locals EXCEPT ![i] = e] \in Seq(Values)
      /\ Types([cs[a].locals EXCEPT ![i] = e]) = Types(cs[a].locals)
  <2>1. /\ [cs[a].locals EXCEPT ![i] = e] \in Seq(Values)
        /\ Len([cs[a].locals EXCEPT ![i] = e]) = Len(cs[a].locals)
        /\ \A j \in 1..Len(cs[a].locals) :
             [cs[a].locals EXCEPT ![i] = e][j] = IF j = i THEN e ELSE cs[a].locals[j]
    BY <1>2, ExceptSeq
  <2>2. \A j \in 1..Len(cs[a].locals) :
          [cs[a].locals EXCEPT ![i] = e][j].valtype = cs[a].locals[j].valtype
    BY <2>1
  <2>. QED BY <2>1, <2>2 DEF Types
<1>4. /\ c \in Context(p) /\ c.instrs = cs[a].instrs /\ c.kind = cs[a].kind /\ c.ip = cs[a].ip
      /\ c.result = cs[a].result /\ c.operands = cs[a].operands
      /\ Types(c.locals) = Types(cs[a].locals)
  BY <1>2, <1>3 DEF Context
<1>. HIDE DEF c
<1>5. /\ ds \in Seq(Context(p)) /\ Len(ds) = Len(cs)
      /\ \A k \in 1..Len(cs) : ds[k] = IF k = a THEN c ELSE cs[k]
  BY <1>1, <1>4, ExceptSeq
<1>6. [cs EXCEPT ![a].locals[i] = e] = ds
  BY DEF c
<1>. HIDE DEF ds
<1>7. ASSUME NEW k \in 1..Len(cs)
      PROVE  /\ ds[k].instrs = cs[k].instrs /\ ds[k].kind = cs[k].kind
             /\ ds[k].result = cs[k].result /\ ds[k].ip = cs[k].ip
             /\ ds[k].operands = cs[k].operands
             /\ Suits(p, ds[k])
  <2>1. Suits(p, cs[k])
    BY DEF Good
  <2>2. CASE k = a
    BY <1>4, <1>5, <2>1, <2>2 DEF Suits
  <2>3. CASE k # a
    BY <1>5, <2>1, <2>3
  <2>. QED BY <2>2, <2>3
<1>8. ASSUME NEW k \in 1..Len(cs)
      PROVE  Fits(p, ds[k], Expected(ds, k, v))
  <2>1. Expected(ds, k, v) = Expected(cs, k, v)
    <3>1. k # Len(cs) => k + 1 \in 1..Len(cs)
      BY <1>1
    <3>. QED BY <1>5, <1>7, <3>1 DEF Expected
  <2>2. Fits(p, cs[k], Expected(cs, k, v))
    BY DEF Good
  <2>. QED BY <1>7, <2>1, <2>2 DEF Fits
<1>9. Good(p, ds, v)
  BY <1>1, <1>5, <1>7, <1>8, GoodAlike
<1>. QED BY <1>6, <1>9

LEMMA LabelledBy ==
  ASSUME NEW p, NEW cs, NEW k, NEW t, p.typing[cs[k].instrs] = t, NEW n, Len(t.labels) = n, n <= k,
         \A l \in 0..n - 1 : /\ cs[k - l].instrs = t.labels[l + 1]
                             /\ cs[k - l].kind = "function" <=> l = n - 1
                             /\ p.typing[cs[k - l].instrs].func = t.func
  PROVE  Labelled(p, cs, k)
  BY DEF Labelled

\* A context on top, for which the one below is waiting.
LEMMA GoodAppend ==
  ASSUME NEW p \in Programs, NEW cs, NEW v, Good(p, cs, v),
         NEW c \in Context(p), Suits(p, c), cs # << >> => v = c.result,
         Labelled(p, Append(cs, c), Len(cs) + 1), NEW w, Fits(p, c, w)
  PROVE  Good(p, Append(cs, c), w)
<1>. DEFINE ds == Append(cs, c)
<1>1. cs \in Seq(Context(p)) /\ Len(cs) \in Nat
  BY DEF Good
<1>2. /\ ds \in Seq(Context(p)) /\ Len(ds) = Len(cs) + 1 /\ ds[Len(cs) + 1] = c
      /\ \A k \in 1..Len(cs) : ds[k] = cs[k]
  BY <1>1, AppendProperties
<1>3. Labelled(p, ds, Len(cs) + 1)
  OBVIOUS
<1>. HIDE DEF ds
<1>4. ASSUME NEW k \in 1..Len(cs)
      PROVE  Labelled(p, ds, k)
  <2>1. Labelled(p, cs, k) /\ ds[k] = cs[k]
    BY <1>2 DEF Good
  <2>2. PICK t : t = p.typing[cs[k].instrs]
    OBVIOUS
  <2>3. Len(t.labels) \in Nat /\ Len(t.labels) <= k
    <3>1. cs[k].instrs \in Blocks(p)
      BY ContextType
    <3>. QED BY <2>1, <2>2, <3>1, BlockType DEF Labelled
  <2>4. \A l \in 0..Len(t.labels) - 1 :
          /\ cs[k - l].instrs = t.labels[l + 1]
          /\ cs[k - l].kind = "function" <=> l = Len(t.labels) - 1
          /\ p.typing[cs[k - l].instrs].func = t.func
    BY <2>1, <2>2 DEF Labelled
  <2>5. ASSUME NEW l \in 0..Len(t.labels) - 1
        PROVE  ds[k - l] = cs[k - l]
    <3>1. k - l \in 1..Len(cs)
      BY <1>1, <2>3
    <3>. QED BY <1>2, <3>1
  <2>6. \A l \in 0..Len(t.labels) - 1 :
          /\ ds[k - l].instrs = t.labels[l + 1]
          /\ ds[k - l].kind = "function" <=> l = Len(t.labels) - 1
          /\ p.typing[ds[k - l].instrs].func = t.func
    BY <2>4, <2>5
  <2>7. p.typing[ds[k].instrs] = t
    BY <2>1, <2>2
  <2>. QED BY <2>3, <2>6, <2>7, LabelledBy
<1>5. ASSUME NEW k \in 1..Len(cs)
      PROVE  Suits(p, ds[k]) /\ Fits(p, ds[k], Expected(ds, k, w))
  <2>1. Suits(p, cs[k]) /\ Fits(p, cs[k], Expected(cs, k, v))
    BY DEF Good
  <2>2. k # Len(ds) /\ k + 1 \in 1..Len(ds) /\ cs # << >>
    BY <1>1, <1>2, EmptySeq
  <2>3. Expected(ds, k, w) = ds[k + 1].result
    BY <2>2 DEF Expected
  <2>4. CASE k = Len(cs)
    BY <1>2, <2>1, <2>2, <2>3, <2>4 DEF Expected
  <2>5. CASE k # Len(cs)
    <3>1. k + 1 \in 1..Len(cs)
      BY <1>1, <2>5
    <3>. QED BY <1>2, <2>1, <2>3, <2>5, <3>1 DEF Expected
  <2>. QED BY <2>4, <2>5
<1>6. Suits(p, ds[Len(ds)]) /\ Fits(p, ds[Len(ds)], Expected(ds, Len(ds), w))
  BY <1>2 DEF Expected
<1>7. Good(p, ds, w)
  BY <1>1, <1>2, <1>3, <1>4, <1>5, <1>6 DEF Good
<1>. QED BY <1>7 DEF ds

\* The body of a function, on top of anything.
LEMMA LabelledFunction ==
  ASSUME NEW p \in Programs, NEW cs \in Seq(Context(p)), NEW c \in Context(p), c.kind = "function",
         p.typing[c.instrs].labels = <<c.instrs>>
  PROVE  Labelled(p, Append(cs, c), Len(cs) + 1)
<1>. DEFINE ds == Append(cs, c)
            t  == p.typing[c.instrs]
<1>1. ds[Len(cs) + 1] = c /\ Len(cs) \in Nat
  BY AppendProperties
<1>2. Len(t.labels) = 1 /\ t.labels[1] = c.instrs
  OBVIOUS
<1>. HIDE DEF ds, t
<1>3. ASSUME NEW l \in 0..1 - 1
      PROVE  /\ ds[Len(cs) + 1 - l].instrs = t.labels[l + 1]
             /\ ds[Len(cs) + 1 - l].kind = "function" <=> l = 1 - 1
             /\ p.typing[ds[Len(cs) + 1 - l].instrs].func = t.func
  <2>1. l = 0 /\ Len(cs) + 1 - l = Len(cs) + 1
    BY <1>1
  <2>2. ds[Len(cs) + 1 - l] = c
    BY <1>1, <2>1
  <2>. QED BY <1>2, <2>1, <2>2 DEF t
<1>4. 1 <= Len(cs) + 1 /\ p.typing[ds[Len(cs) + 1].instrs] = t
  BY <1>1 DEF t
<1>5. PICK k, n : k = Len(cs) + 1 /\ n = 1
  OBVIOUS
<1>6. \A l \in 0..n - 1 : /\ ds[k - l].instrs = t.labels[l + 1]
                          /\ ds[k - l].kind = "function" <=> l = n - 1
                          /\ p.typing[ds[k - l].instrs].func = t.func
  BY <1>3, <1>5
<1>7. Labelled(p, ds, k)
  BY <1>2, <1>4, <1>5, <1>6, LabelledBy
<1>. QED BY <1>5, <1>7 DEF ds

\* A block, on top of the block it was entered from.
LEMMA Prefixed ==
  ASSUME NEW T, NEW x \in T, NEW s \in Seq(T), NEW y, y = <<x>> \o s
  PROVE  Len(y) = Len(s) + 1 /\ y[1] = x /\ \A i \in 1..Len(s) : y[i + 1] = s[i]
<1>1. PICK one, n : one = <<x>> /\ n = Len(s)
  OBVIOUS
<1>2. one \in Seq(T) /\ Len(one) = 1 /\ one[1] = x /\ n \in Nat
  BY <1>1
<1>3. /\ Len(one \o s) = 1 + n
      /\ \A i \in 1..1 + n : (one \o s)[i] = IF i <= 1 THEN one[i] ELSE s[i - 1]
  <2>1. /\ Len(one \o s) = Len(one) + Len(s)
        /\ \A i \in 1..Len(one) + Len(s) :
             (one \o s)[i] = IF i <= Len(one) THEN one[i] ELSE s[i - Len(one)]
    BY <1>2, ConcatProperties
  <2>. QED BY <1>1, <1>2, <2>1
<1>4. /\ 1 \in 1..1 + n /\ 1 <= 1 /\ 1 + n = n + 1
      /\ \A i \in 1..n : i + 1 \in 1..1 + n /\ ~(i + 1 <= 1) /\ i + 1 - 1 = i
  BY <1>2
<1>5. y = one \o s
  BY <1>1
<1>6. Len(y) = n + 1 /\ y[1] = x
  BY <1>2, <1>3, <1>4, <1>5
<1>7. ASSUME NEW i \in 1..n PROVE y[i + 1] = s[i]
  BY <1>3, <1>4, <1>5
<1>. QED BY <1>1, <1>6, <1>7

\* Block c has one label more than block b, itself.
Under(p, c, b) == /\ p.typing[c].labels = <<c>> \o p.typing[b].labels
                  /\ p.typing[c].func = p.typing[b].func

\* A block entered from the innermost context.
LEMMA LabelledBlock ==
  ASSUME NEW p \in Programs, NEW cs, NEW v, Good(p, cs, v), cs # << >>,
         NEW c \in Context(p), c.kind # "function",
         Under(p, c.instrs, cs[Len(cs)].instrs)
  PROVE  Labelled(p, Append(cs, c), Len(cs) + 1)
<1>1. PICK N, b : N = Len(cs) /\ b = cs[Len(cs)].instrs
  OBVIOUS
<1>2. cs \in Seq(Context(p)) /\ N \in Nat \ {0} /\ N \in 1..N
  <2>1. cs \in Seq(Context(p)) /\ Len(cs) \in Nat \ {0}
    BY EmptySeq DEF Good
  <2>. QED BY <1>1, <2>1
<1>3. PICK ds : ds = Append(cs, c)
  OBVIOUS
<1>4. ds[N + 1] = c /\ \A k \in 1..N : ds[k] = cs[k]
  BY <1>1, <1>2, <1>3, AppendProperties
<1>5. b = cs[N].instrs /\ b \in Blocks(p) /\ Labelled(p, cs, N) /\ c.instrs \in Blocks(p)
  <2>1. Labelled(p, cs, N) /\ c.instrs \in Blocks(p)
    BY <1>1, <1>2 DEF Good, Context
  <2>. QED BY <1>1, <1>2, <2>1, ContextType
<1>6. PICK ls, L : ls = p.typing[b].labels /\ L = Len(ls)
  OBVIOUS
<1>7. ls \in Seq(Blocks(p)) /\ L \in Nat \ {0} /\ L - 1 \in Nat
  <2>1. ls \in Seq(Blocks(p)) /\ Len(ls) \in Nat \ {0}
    BY <1>5, <1>6, BlockType
  <2>. QED BY <1>6, <2>1
<1>8. PICK t, ys : t = p.typing[c.instrs] /\ ys = <<c.instrs>> \o ls
  OBVIOUS
<1>9. Len(ys) = L + 1 /\ ys[1] = c.instrs /\ \A i \in 1..L : ys[i + 1] = ls[i]
  <2>1. PICK x : x = c.instrs
    OBVIOUS
  <2>2. x \in Blocks(p) /\ ys = <<x>> \o ls
    BY <1>5, <1>8, <2>1
  <2>3. Len(ys) = Len(ls) + 1 /\ ys[1] = x /\ \A i \in 1..Len(ls) : ys[i + 1] = ls[i]
    BY <1>7, <2>2, Prefixed
  <2>. QED BY <1>6, <2>1, <2>3
<1>10. t.labels = ys /\ t.func = p.typing[b].func
  BY <1>1, <1>6, <1>8 DEF Under
<1>11. /\ L <= N
       /\ \A l \in 0..L - 1 : /\ cs[N - l].instrs = ls[l + 1]
                              /\ cs[N - l].kind = "function" <=> l = L - 1
                              /\ p.typing[cs[N - l].instrs].func = t.func
  BY <1>5, <1>6, <1>10 DEF Labelled
<1>12. ASSUME NEW l \in 0..L
       PROVE  /\ ds[N + 1 - l].instrs = ys[l + 1]
              /\ ds[N + 1 - l].kind = "function" <=> l = L
              /\ p.typing[ds[N + 1 - l].instrs].func = t.func
  <2>1. CASE l = 0
    <3>1. N + 1 - l = N + 1 /\ l + 1 = 1 /\ l # L
      BY <1>2, <1>7, <2>1
    <3>2. ds[N + 1 - l] = c /\ ys[l + 1] = c.instrs
      BY <1>4, <1>9, <3>1
    <3>. QED BY <1>8, <3>1, <3>2
  <2>2. CASE l # 0
    <3>1. PICK m : m = l - 1
      OBVIOUS
    <3>2. /\ m \in 0..L - 1 /\ m + 1 \in 1..L /\ l = m + 1 /\ N + 1 - l = N - m
          /\ (l = L <=> m = L - 1)
      BY <1>2, <1>7, <2>2, <3>1
    <3>3. N - m \in 1..N
      BY <1>2, <1>7, <1>11, <3>2
    <3>4. ds[N + 1 - l] = cs[N - m]
      BY <1>4, <3>2, <3>3
    <3>5. ys[l + 1] = ls[m + 1]
      BY <1>9, <3>2
    <3>6. /\ cs[N - m].instrs = ls[m + 1]
          /\ cs[N - m].kind = "function" <=> m = L - 1
          /\ p.typing[cs[N - m].instrs].func = t.func
      BY <1>11, <3>2
    <3>. QED BY <3>2, <3>4, <3>5, <3>6
  <2>. QED BY <2>1, <2>2
<1>13. PICK k, n : k = N + 1 /\ n = L + 1
  OBVIOUS
<1>14. p.typing[ds[k].instrs] = t
  BY <1>4, <1>8, <1>13
<1>15. Len(t.labels) = n /\ n <= k /\ n - 1 = L
  BY <1>2, <1>7, <1>9, <1>10, <1>11, <1>13
<1>16. ASSUME NEW l \in 0..n - 1
       PROVE  /\ ds[k - l].instrs = t.labels[l + 1]
              /\ ds[k - l].kind = "function" <=> l = n - 1
              /\ p.typing[ds[k - l].instrs].func = t.func
  <2>1. l \in 0..L /\ k - l = N + 1 - l
    BY <1>2, <1>7, <1>13
  <2>. QED BY <1>10, <1>12, <1>15, <2>1
<1>17. Labelled(p, ds, k)
  BY <1>14, <1>15, <1>16, LabelledBy
<1>. QED BY <1>1, <1>3, <1>13, <1>17

----------------------------------------------------------------------------
(* What a step finds *)

Here   == Innermost.instrs
Before == Types(Operands)
After  == TypesOf(prog, Here, Innermost.ip + 2)

LEMMA InnermostType ==
  ASSUME IInv, contexts # << >>
  PROVE  /\ prog \in Programs /\ contexts \in Seq(Context(prog))
         /\ Depth \in Nat \ {0} /\ Depth \in 1..Depth
         /\ Innermost \in Context(prog) /\ Here \in Blocks(prog) /\ Innermost.ip \in Nat
         /\ Suits(prog, Innermost) /\ Labelled(prog, contexts, Depth)
         /\ Operands \in Seq(Values) /\ Before \in Seq(AnyType)
         /\ Before = TypesOf(prog, Here, Innermost.ip + 1)
<1>1. prog \in Programs /\ Good(prog, contexts, << >>) /\ contexts \in Seq(Context(prog))
  BY DEF IInv, Good
<1>2. Depth \in Nat \ {0} /\ Depth \in 1..Depth
  BY <1>1, EmptySeq DEF Depth
<1>3. /\ Innermost \in Context(prog) /\ Here \in Blocks(prog) /\ Innermost.ip \in Nat
      /\ Operands \in Seq(Values)
  BY <1>1, <1>2, ContextType DEF Innermost, Depth, Here, Operands
<1>4. /\ Suits(prog, Innermost) /\ Labelled(prog, contexts, Depth)
      /\ Fits(prog, Innermost, Expected(contexts, Depth, << >>))
  BY <1>1, <1>2 DEF Good, Depth, Innermost
<1>5. Before \in Seq(AnyType)
  BY <1>3, TypesType DEF Before
<1>6. Before \o << >> = TypesOf(prog, Here, Innermost.ip + 1)
  BY <1>4 DEF Expected, Fits, Before, Here, Operands, Depth
<1>7. Before \o << >> = Before
  BY <1>5, ConcatEmptySeq
<1>. QED BY <1>1, <1>2, <1>3, <1>4, <1>5, <1>6, <1>7

\* What is fetched was validated against the operands that are there.
LEMMA FetchedTyped ==
  ASSUME IInv, Fetching
  PROVE  /\ contexts # << >> /\ Innermost.ip + 1 <= Len(prog.code[Here])
         /\ Fetched \in Instr(Blocks(prog))
         /\ InstrTyped(prog, Here, Fetched, Before, After)
         /\ After \in ValueTypes \cup {Dead}
<1>1. contexts # << >> /\ ~AtEnd
  BY DEF Fetching
<1>2. /\ prog \in Programs /\ Here \in Blocks(prog) /\ Innermost.ip \in Nat /\ Before \in Seq(AnyType)
      /\ Before = TypesOf(prog, Here, Innermost.ip + 1)
  BY <1>1, InnermostType
<1>3. prog.code[Here] \in Seq(Instr(Blocks(prog))) /\ Len(prog.code[Here]) \in Nat
  BY <1>2, BlockType
<1>4. Innermost.ip + 1 \in 1..Len(prog.code[Here]) /\ Innermost.ip + 2 \in 1..Len(prog.code[Here]) + 1
      /\ Innermost.ip + 1 + 1 = Innermost.ip + 2
  <2>1. PICK i, n : i = Innermost.ip /\ n = Len(prog.code[Here])
    OBVIOUS
  <2>2. ~(i >= n)
    BY <1>1, <2>1 DEF AtEnd, Here
  <2>3. i \in Nat /\ n \in Nat
    BY <1>2, <1>3, <2>1
  <2>4. i + 1 \in 1..n /\ i + 2 \in 1..n + 1 /\ i + 1 + 1 = i + 2
    BY <2>2, <2>3
  <2>. QED BY <2>1, <2>4
<1>5. Fetched = prog.code[Here][Innermost.ip + 1] /\ Fetched \in Instr(Blocks(prog))
  BY <1>3, <1>4, ElementOfSeq DEF Fetched, Here
<1>6. BlockTyped(prog, Here)
  BY <1>2, ProgramType
<1>7. TypesOf(prog, Here, Innermost.ip + 1) # Dead
  BY <1>2, NotDead
<1>8. InstrTyped(prog, Here, prog.code[Here][Innermost.ip + 1],
                 TypesOf(prog, Here, Innermost.ip + 1), TypesOf(prog, Here, Innermost.ip + 1 + 1))
  BY <1>4, <1>6, <1>7 DEF BlockTyped
<1>9. InstrTyped(prog, Here, Fetched, Before, After)
  BY <1>2, <1>4, <1>5, <1>8 DEF After
<1>10. After \in ValueTypes \cup {Dead}
  BY <1>2, <1>4, BlockType DEF After
<1>. QED BY <1>1, <1>4, <1>5, <1>9, <1>10

\* The activation is the context of the last label.
LEMMA ActivationType ==
  ASSUME IInv, contexts # << >>
  PROVE  /\ Activation \in 1..Depth
         /\ Activation = Depth - Len(prog.typing[Here].labels) + 1
         /\ contexts[Activation].kind = "function"
         /\ contexts[Activation].result = FuncOf(prog, Here).t2
         /\ Locals \in Seq(Values) /\ Types(Locals) = LocalTypes(prog, Here)
         /\ prog.typing[Here].func < Len(prog.funcs)
<1>. DEFINE ls == prog.typing[Here].labels
            a  == Depth - Len(ls) + 1
<1>1. /\ prog \in Programs /\ Depth \in Nat \ {0} /\ Here \in Blocks(prog)
      /\ Labelled(prog, contexts, Depth) /\ Good(prog, contexts, << >>)
  BY InnermostType DEF IInv
<1>2. Len(ls) \in Nat \ {0}
  BY <1>1, BlockType
<1>3. /\ Len(ls) <= Depth
      /\ \A l \in 0..Len(ls) - 1 :
           /\ contexts[Depth - l].kind = "function" <=> l = Len(ls) - 1
           /\ prog.typing[contexts[Depth - l].instrs].func = prog.typing[Here].func
  BY <1>1 DEF Labelled, Here, Innermost
<1>. HIDE DEF ls
<1>4. a \in 1..Depth /\ Len(ls) - 1 \in 0..Len(ls) - 1 /\ Depth - (Len(ls) - 1) = a
  BY <1>1, <1>2, <1>3
<1>5. contexts[a].kind = "function" /\ prog.typing[contexts[a].instrs].func = prog.typing[Here].func
  BY <1>3, <1>4
<1>6. ASSUME NEW k \in a + 1..Depth
      PROVE  contexts[k].kind # "function"
  <2>1. PICK l : l = Depth - k
    OBVIOUS
  <2>2. l \in 0..Len(ls) - 1 /\ l # Len(ls) - 1 /\ Depth - l = k
    BY <1>1, <1>2, <1>4, <2>1
  <2>. QED BY <1>3, <2>2
<1>7. Activation = a
  <2>1. ASSUME NEW x \in 1..Depth, contexts[x].kind = "function",
               \A k \in x + 1..Depth : contexts[k].kind # "function"
        PROVE  x = a
    <3>1. ~(x > a) /\ ~(a > x)
      <4>1. x > a => x \in a + 1..Depth
        BY <1>1, <1>4
      <4>2. a > x => a \in x + 1..Depth
        BY <1>1, <1>4
      <4>. QED BY <1>5, <1>6, <2>1, <4>1, <4>2
    <3>. QED BY <1>4, <3>1
  <2>. HIDE DEF a
  <2>2. \E x \in 1..Depth : /\ contexts[x].kind = "function"
                            /\ \A k \in x + 1..Depth : contexts[k].kind # "function"
    BY <1>4, <1>5, <1>6
  <2>3. /\ Activation \in 1..Depth /\ contexts[Activation].kind = "function"
        /\ \A k \in Activation + 1..Depth : contexts[k].kind # "function"
    BY <2>2 DEF Activation
  <2>. QED BY <2>1, <2>3
<1>8. a \in 1..Len(contexts)
  BY <1>4 DEF Depth
<1>9. Suits(prog, contexts[a]) /\ contexts[a].locals \in Seq(Values)
  BY <1>1, <1>8, ContextType DEF Good
<1>10. FuncOf(prog, contexts[a].instrs) = FuncOf(prog, Here)
       /\ LocalTypes(prog, contexts[a].instrs) = LocalTypes(prog, Here)
  BY <1>5 DEF FuncOf, LocalTypes
<1>11. /\ contexts[a].result = FuncOf(prog, Here).t2
       /\ Types(contexts[a].locals) = LocalTypes(prog, Here)
       /\ prog.typing[Here].func < Len(prog.funcs)
  BY <1>5, <1>9, <1>10 DEF Suits
<1>12. Activation = Depth - Len(prog.typing[Here].labels) + 1
  BY <1>7 DEF ls
<1>. HIDE DEF a
<1>. QED BY <1>4, <1>5, <1>7, <1>9, <1>11, <1>12 DEF Locals

\* A label of the block is a context of the activation.
LEMMA LabelType ==
  ASSUME IInv, contexts # << >>, NEW l \in Nat, l < Len(prog.typing[Here].labels)
  PROVE  /\ IsLabel(l) /\ Depth - l \in 1..Depth
         /\ Carried(l) = LabelTypes(prog, Here, l)
<1>1. /\ prog \in Programs /\ Depth \in Nat \ {0} /\ Here \in Blocks(prog)
      /\ Labelled(prog, contexts, Depth) /\ Good(prog, contexts, << >>)
  BY InnermostType DEF IInv
<1>2. Len(prog.typing[Here].labels) \in Nat
  BY <1>1, BlockType
<1>3. /\ Activation = Depth - Len(prog.typing[Here].labels) + 1 /\ Activation \in 1..Depth
  BY ActivationType
<1>4. IsLabel(l) /\ Depth - l \in 1..Depth
  BY <1>1, <1>2, <1>3 DEF IsLabel
<1>5. contexts[Depth - l].instrs = prog.typing[Here].labels[l + 1]
  <2>1. l \in 0..Len(prog.typing[Here].labels) - 1
    BY <1>2
  <2>. QED BY <1>1, <2>1 DEF Labelled, Here, Innermost
<1>6. Suits(prog, contexts[Depth - l])
  BY <1>1, <1>4 DEF Good, Depth
<1>7. Carried(l) = LabelTypes(prog, Here, l)
  BY <1>5, <1>6 DEF Carried, LabelTypes, Suits
<1>. QED BY <1>4, <1>7

----------------------------------------------------------------------------
(* What the instructions need, and that it is there *)

Ended == /\ Needs(Fetched) \in Seq(AnyType) /\ Exists(Fetched)
         /\ Ends(Before, Needs(Fetched))

Turned(vs) == Ended /\ After = Less(Before, Needs(Fetched)) \o vs

LEMMA ValTypeAny == /\ ValType \subseteq AnyType /\ "i32" \in ValType
                    /\ \A t \in AnyType, u \in AnyType :
                         <<t>> \in Seq(AnyType) /\ <<t, u>> \in Seq(AnyType) /\ <<t, t, u>> \in Seq(AnyType)
                    /\ \A ts \in ValueTypes : ts \in Seq(AnyType)
<1>1. ValType \subseteq AnyType /\ "i32" \in ValType
  BY DEF AnyType, ValType
<1>2. \A ts \in ValueTypes : ts \in Seq(AnyType)
  BY <1>1, SeqMonotonic DEF ValueTypes
<1>. QED BY <1>1, <1>2

LEMMA ConstTurned ==
  ASSUME IInv, Fetching, Fetched.op = "const"
  PROVE  Turned(<<Fetched.t>>) /\ Fetched.t \in ValType /\ Fetched.v \in Val
<1>1. Fetched \in Instr(Blocks(prog)) /\ InstrTyped(prog, Here, Fetched, Before, After)
  BY FetchedTyped
<1>2. Fetched.t \in ValType /\ Fetched.v \in Val
  BY <1>1 DEF Instr
<1>3. Turns(Before, << >>, <<Fetched.t>>, After)
  BY <1>1 DEF InstrTyped
<1>4. Needs(Fetched) = << >> /\ Exists(Fetched)
  BY DEF Needs, Exists
<1>. QED BY <1>2, <1>3, <1>4, EmptySeq DEF Turned, Ended, Turns

LEMMA ComputeTurned ==
  ASSUME IInv, Fetching, Fetched.op \in {"numeric", "bitcount", "divide", "load", "memory.size"}
  PROVE  Turned(<<Pushed(Fetched)>>) /\ Pushed(Fetched) \in ValType
<1>1. Fetched \in Instr(Blocks(prog)) /\ InstrTyped(prog, Here, Fetched, Before, After)
  BY FetchedTyped
<1>2. CASE Fetched.op = "numeric"
  <2>1. Fetched.pops \in ValueTypes /\ Fetched.push \in ValType
    BY <1>1, <1>2 DEF Instr
  <2>2. Turns(Before, Fetched.pops, <<Fetched.push>>, After)
    BY <1>1, <1>2 DEF InstrTyped
  <2>3. Needs(Fetched) = Fetched.pops /\ Exists(Fetched) /\ Pushed(Fetched) = Fetched.push
    BY <1>2 DEF Needs, Exists, Pushed
  <2>. QED BY <2>1, <2>2, <2>3, ValTypeAny DEF Turned, Ended, Turns
<1>3. CASE Fetched.op = "bitcount"
  <2>1. Fetched.t \in ValType
    BY <1>1, <1>3 DEF Instr
  <2>2. Turns(Before, <<Fetched.t>>, <<Fetched.t>>, After)
    BY <1>1, <1>3 DEF InstrTyped
  <2>3. Needs(Fetched) = <<Fetched.t>> /\ Exists(Fetched) /\ Pushed(Fetched) = Fetched.t
    BY <1>3 DEF Needs, Exists, Pushed
  <2>. QED BY <2>1, <2>2, <2>3, ValTypeAny DEF Turned, Ended, Turns
<1>4. CASE Fetched.op = "divide"
  <2>1. Fetched.t \in ValType
    BY <1>1, <1>4 DEF Instr
  <2>2. Turns(Before, <<Fetched.t, Fetched.t>>, <<Fetched.t>>, After)
    BY <1>1, <1>4 DEF InstrTyped
  <2>3. Needs(Fetched) = <<Fetched.t, Fetched.t>> /\ Exists(Fetched) /\ Pushed(Fetched) = Fetched.t
    BY <1>4 DEF Needs, Exists, Pushed
  <2>. QED BY <2>1, <2>2, <2>3, ValTypeAny DEF Turned, Ended, Turns
<1>5. CASE Fetched.op = "load"
  <2>1. Fetched.t \in ValType
    BY <1>1, <1>5 DEF Instr
  <2>2. prog.memory /\ Turns(Before, <<"i32">>, <<Fetched.t>>, After)
    BY <1>1, <1>5 DEF InstrTyped
  <2>3. Needs(Fetched) = <<"i32">> /\ Exists(Fetched) /\ Pushed(Fetched) = Fetched.t
    BY <1>5, <2>2 DEF Needs, Exists, Pushed
  <2>. QED BY <2>1, <2>2, <2>3, ValTypeAny DEF Turned, Ended, Turns
<1>6. CASE Fetched.op = "memory.size"
  <2>1. prog.memory /\ Turns(Before, << >>, <<"i32">>, After)
    BY <1>1, <1>6 DEF InstrTyped
  <2>2. Needs(Fetched) = << >> /\ Exists(Fetched) /\ Pushed(Fetched) = "i32"
    BY <1>6, <2>1 DEF Needs, Exists, Pushed
  <2>. QED BY <2>1, <2>2, ValTypeAny, EmptySeq DEF Turned, Ended, Turns
<1>. QED BY <1>2, <1>3, <1>4, <1>5, <1>6

\* The type of the topmost operand is the one it was validated with.
LEMMA TypeAtEnd ==
  ASSUME IInv, contexts # << >>, NEW us \in Seq(AnyType), Ends(Before, us), NEW n \in 1..Len(us)
  PROVE  TypeAt(n) = us[Len(us) - n + 1]
<1>1. Operands \in Seq(Values)
  BY InnermostType
<1>2. Len(us) <= Len(Operands) /\ Popped(Operands, n).valtype = us[Len(us) - n + 1]
  BY <1>1, EndsHolds DEF Before
<1>3. n <= Len(Operands)
  BY <1>1, <1>2
<1>. QED BY <1>2, <1>3 DEF TypeAt

LEMMA DiscardTurned ==
  ASSUME IInv, Fetching, Fetched.op \in {"drop", "store", "nop"}
  PROVE  Turned(<< >>)
<1>1. /\ Fetched \in Instr(Blocks(prog)) /\ InstrTyped(prog, Here, Fetched, Before, After)
      /\ contexts # << >>
  BY FetchedTyped
<1>2. CASE Fetched.op = "drop"
  <2>1. PICK t \in ValType : Turns(Before, <<t>>, << >>, After)
    BY <1>1, <1>2 DEF InstrTyped
  <2>2. <<t>> \in Seq(AnyType) /\ Ends(Before, <<t>>)
    BY <2>1, ValTypeAny DEF Turns
  <2>3. TypeAt(1) = t
    <3>1. PICK us : us = <<t>>
      OBVIOUS
    <3>2. us \in Seq(AnyType) /\ Ends(Before, us) /\ 1 \in 1..Len(us) /\ us[Len(us) - 1 + 1] = t
      BY <2>2, <3>1
    <3>. QED BY <1>1, <3>2, TypeAtEnd
  <2>4. Needs(Fetched) = <<t>> /\ Exists(Fetched)
    BY <1>2, <2>3 DEF Needs, Exists
  <2>. QED BY <2>1, <2>2, <2>4 DEF Turned, Ended, Turns
<1>3. CASE Fetched.op = "store"
  <2>1. Fetched.t \in ValType
    BY <1>1, <1>3 DEF Instr
  <2>2. prog.memory /\ Turns(Before, <<"i32", Fetched.t>>, << >>, After)
    BY <1>1, <1>3 DEF InstrTyped
  <2>3. Needs(Fetched) = <<"i32", Fetched.t>> /\ Exists(Fetched)
    BY <1>3, <2>2 DEF Needs, Exists
  <2>. QED BY <2>1, <2>2, <2>3, ValTypeAny DEF Turned, Ended, Turns
<1>4. CASE Fetched.op = "nop"
  <2>1. Turns(Before, << >>, << >>, After)
    BY <1>1, <1>4 DEF InstrTyped
  <2>2. Needs(Fetched) = << >> /\ Exists(Fetched)
    BY <1>4 DEF Needs, Exists
  <2>. QED BY <2>1, <2>2, EmptySeq DEF Turned, Ended, Turns
<1>. QED BY <1>2, <1>3, <1>4

LEMMA SelectTurned ==
  ASSUME IInv, Fetching, Fetched.op = "select"
  PROVE  \E t \in ValType : Turned(<<t>>) /\ Needs(Fetched) = <<t, t, "i32">>
<1>1. InstrTyped(prog, Here, Fetched, Before, After) /\ contexts # << >>
  BY FetchedTyped
<1>2. PICK t \in ValType : Turns(Before, <<t, t, "i32">>, <<t>>, After)
  BY <1>1 DEF InstrTyped
<1>3. PICK us : us = <<t, t, "i32">>
  OBVIOUS
<1>4. us \in Seq(AnyType) /\ Ends(Before, us)
  BY <1>2, <1>3, ValTypeAny DEF Turns
<1>5. 2 \in 1..Len(us) /\ us[Len(us) - 2 + 1] = t
  BY <1>3
<1>6. TypeAt(2) = t
  BY <1>1, <1>4, <1>5, TypeAtEnd
<1>7. Needs(Fetched) = us /\ Exists(Fetched)
  BY <1>3, <1>6 DEF Needs, Exists
<1>. QED BY <1>2, <1>3, <1>4, <1>7 DEF Turned, Ended, Turns

\* The local an instruction names.
LEMMA LocalTurned ==
  ASSUME IInv, Fetching, Fetched.op \in {"local.get", "local.set", "local.tee"}
  PROVE  /\ Fetched.idx + 1 \in 1..Len(Locals) /\ Locals[Fetched.idx + 1] \in Values
         /\ LET t == Locals[Fetched.idx + 1].valtype
            IN  /\ Needs(Fetched) = IF Fetched.op = "local.get" THEN << >> ELSE <<t>>
                /\ Turned(IF Fetched.op = "local.set" THEN << >> ELSE <<t>>)
<1>1. /\ Fetched \in Instr(Blocks(prog)) /\ InstrTyped(prog, Here, Fetched, Before, After)
      /\ contexts # << >>
  BY FetchedTyped
<1>2. Fetched.idx \in Nat
  BY <1>1 DEF Instr
<1>3. Locals \in Seq(Values) /\ Types(Locals) = LocalTypes(prog, Here)
  BY <1>1, ActivationType
<1>4. Len(LocalTypes(prog, Here)) = Len(Locals)
      /\ \A n \in 1..Len(Locals) : LocalTypes(prog, Here)[n] = Locals[n].valtype
  BY <1>3, TypesType
<1>5. Fetched.idx < Len(LocalTypes(prog, Here))
  BY <1>1 DEF InstrTyped
<1>6. Fetched.idx + 1 \in 1..Len(Locals) /\ Locals[Fetched.idx + 1] \in Values
  BY <1>2, <1>3, <1>4, <1>5, ElementOfSeq
<1>7. PICK t : t = Locals[Fetched.idx + 1].valtype
  OBVIOUS
<1>8. t \in AnyType /\ LocalTypes(prog, Here)[Fetched.idx + 1] = t
  BY <1>4, <1>6, <1>7 DEF Values
<1>9. Turns(Before, IF Fetched.op = "local.get" THEN << >> ELSE <<t>>,
                    IF Fetched.op = "local.set" THEN << >> ELSE <<t>>, After)
  BY <1>1, <1>8 DEF InstrTyped
<1>10. Exists(Fetched)
  BY <1>4, <1>5 DEF Exists
<1>11. Needs(Fetched) = IF Fetched.op = "local.get" THEN << >> ELSE <<t>>
  BY <1>7 DEF Needs
<1>12. Needs(Fetched) \in Seq(AnyType)
  BY <1>8, <1>11, EmptySeq, ValTypeAny
<1>13. Turned(IF Fetched.op = "local.set" THEN << >> ELSE <<t>>)
  BY <1>9, <1>10, <1>11, <1>12 DEF Turned, Ended, Turns
<1>. QED BY <1>6, <1>7, <1>11, <1>13

LEMMA GlobalTurned ==
  ASSUME IInv, Fetching, Fetched.op \in {"global.get", "global.set"}
  PROVE  /\ Fetched.idx + 1 \in 1..Len(globals) /\ globals[Fetched.idx + 1] \in Values
         /\ LET t == globals[Fetched.idx + 1].valtype
            IN  /\ Fetched.op = "global.get" => Needs(Fetched) = << >> /\ Turned(<<t>>)
                /\ Fetched.op = "global.set" => Needs(Fetched) = <<t>> /\ Turned(<< >>)
<1>1. /\ Fetched \in Instr(Blocks(prog)) /\ InstrTyped(prog, Here, Fetched, Before, After)
      /\ contexts # << >>
  BY FetchedTyped
<1>2. Fetched.idx \in Nat
  BY <1>1 DEF Instr
<1>3. /\ globals \in Seq(Values) /\ Len(globals) = Len(prog.globals) /\ Len(globals) \in Nat
      /\ \A n \in 1..Len(globals) : globals[n].valtype = prog.globals[n].valtype
  BY DEF IInv, GlobalsTyped
<1>4. Fetched.idx < Len(prog.globals)
  BY <1>1 DEF InstrTyped
<1>5. Fetched.idx + 1 \in 1..Len(globals) /\ globals[Fetched.idx + 1] \in Values
  BY <1>2, <1>3, <1>4, ElementOfSeq
<1>6. PICK t : t = globals[Fetched.idx + 1].valtype
  OBVIOUS
<1>7. t \in AnyType /\ prog.globals[Fetched.idx + 1].valtype = t
  BY <1>3, <1>5, <1>6 DEF Values
<1>8. Exists(Fetched)
  BY <1>3, <1>4 DEF Exists
<1>9. CASE Fetched.op = "global.get"
  <2>1. Turns(Before, << >>, <<t>>, After)
    BY <1>1, <1>7, <1>9 DEF InstrTyped
  <2>2. Needs(Fetched) = << >>
    BY <1>9 DEF Needs
  <2>3. Turned(<<t>>)
    BY <1>8, <2>1, <2>2, EmptySeq DEF Turned, Ended, Turns
  <2>. QED BY <1>5, <1>6, <1>9, <2>2, <2>3
<1>10. CASE Fetched.op = "global.set"
  <2>1. Turns(Before, <<t>>, << >>, After)
    BY <1>1, <1>7, <1>10 DEF InstrTyped
  <2>2. Needs(Fetched) = <<t>>
    BY <1>6, <1>10 DEF Needs
  <2>3. Turned(<< >>)
    BY <1>7, <1>8, <2>1, <2>2, ValTypeAny DEF Turned, Ended, Turns
  <2>. QED BY <1>5, <1>6, <1>10, <2>2, <2>3
<1>. QED BY <1>9, <1>10

\* A block that is entered gives its result to the context it was entered from.
LEMMA BlockTurned ==
  ASSUME IInv, Fetching, Fetched.op \in {"block", "loop", "if"}
  PROVE  /\ Fetched.rt \in ResultType /\ Turned(Fetched.rt)
         /\ Needs(Fetched) = IF Fetched.op = "if" THEN <<"i32">> ELSE << >>
<1>1. Fetched \in Instr(Blocks(prog)) /\ InstrTyped(prog, Here, Fetched, Before, After)
  BY FetchedTyped
<1>2. Fetched.rt \in ResultType
  BY <1>1 DEF Instr
<1>3. Turns(Before, IF Fetched.op = "if" THEN <<"i32">> ELSE << >>, Fetched.rt, After)
  BY <1>1 DEF InstrTyped
<1>4. Needs(Fetched) = (IF Fetched.op = "if" THEN <<"i32">> ELSE << >>) /\ Exists(Fetched)
  BY DEF Needs, Exists
<1>5. Needs(Fetched) \in Seq(AnyType)
  BY <1>4, EmptySeq, ValTypeAny
<1>. QED BY <1>2, <1>3, <1>4, <1>5 DEF Turned, Ended, Turns

\* Blocks the fetched instruction may enter.
LEMMA NestedType ==
  ASSUME IInv, Fetching, Fetched.op \in {"block", "loop", "if"}
  PROVE  /\ Fetched.op = "block" => /\ Fetched.body \in Blocks(prog)
                                    /\ Nested(prog, Here, Fetched.body, "control", Fetched.rt)
         /\ Fetched.op = "loop" => /\ Fetched.body \in Blocks(prog)
                                   /\ Nested(prog, Here, Fetched.body, "loop", Fetched.rt)
         /\ Fetched.op = "if" =>
              /\ Fetched.then \in Blocks(prog)
              /\ Nested(prog, Here, Fetched.then, "control", Fetched.rt)
              /\ Fetched.else = NoBlock => Fetched.rt = << >>
              /\ Fetched.else # NoBlock => /\ Fetched.else \in Blocks(prog)
                                           /\ Nested(prog, Here, Fetched.else, "control", Fetched.rt)
<1>1. Fetched \in Instr(Blocks(prog)) /\ InstrTyped(prog, Here, Fetched, Before, After)
  BY FetchedTyped
<1>2. CASE Fetched.op = "block"
  <2>1. Fetched.body \in Blocks(prog)
    BY <1>1, <1>2 DEF Instr
  <2>2. Nested(prog, Here, Fetched.body, "control", Fetched.rt)
    BY <1>1, <1>2 DEF InstrTyped
  <2>. QED BY <1>2, <2>1, <2>2
<1>3. CASE Fetched.op = "loop"
  <2>1. Fetched.body \in Blocks(prog)
    BY <1>1, <1>3 DEF Instr
  <2>2. Nested(prog, Here, Fetched.body, "loop", Fetched.rt)
    BY <1>1, <1>3 DEF InstrTyped
  <2>. QED BY <1>3, <2>1, <2>2
<1>4. CASE Fetched.op = "if"
  <2>1. Fetched.then \in Blocks(prog) /\ Fetched.else \in Blocks(prog) \cup {NoBlock}
    BY <1>1, <1>4 DEF Instr
  <2>2. /\ Nested(prog, Here, Fetched.then, "control", Fetched.rt)
        /\ IF Fetched.else = NoBlock THEN Fetched.rt = << >>
           ELSE Nested(prog, Here, Fetched.else, "control", Fetched.rt)
    BY <1>1, <1>4 DEF InstrTyped
  <2>. QED BY <1>4, <2>1, <2>2
<1>. QED BY <1>2, <1>3, <1>4

LEMMA CallTurned ==
  ASSUME IInv, Fetching, Fetched.op = "call"
  PROVE  LET f == prog.funcs[Fetched.func + 1]
         IN  /\ Fetched.func + 1 \in 1..Len(prog.funcs)
             /\ Needs(Fetched) = f.t1 /\ Turned(f.t2)
<1>1. Fetched \in Instr(Blocks(prog)) /\ InstrTyped(prog, Here, Fetched, Before, After)
  BY FetchedTyped
<1>2. Fetched.func \in Nat
  BY <1>1 DEF Instr
<1>3. /\ Fetched.func < Len(prog.funcs)
      /\ Turns(Before, prog.funcs[Fetched.func + 1].t1, prog.funcs[Fetched.func + 1].t2, After)
  BY <1>1 DEF InstrTyped
<1>4. prog.funcs \in Seq(Func(Blocks(prog)))
  BY ProgramType DEF IInv
<1>5. Fetched.func + 1 \in 1..Len(prog.funcs)
  BY <1>2, <1>3, <1>4
<1>6. prog.funcs[Fetched.func + 1] \in Func(Blocks(prog))
  BY <1>4, <1>5, ElementOfSeq
<1>7. prog.funcs[Fetched.func + 1].t1 \in Seq(AnyType)
  BY <1>6, ValTypeAny DEF Func
<1>8. Needs(Fetched) = prog.funcs[Fetched.func + 1].t1 /\ Exists(Fetched)
  BY <1>3 DEF Needs, Exists
<1>. QED BY <1>3, <1>5, <1>7, <1>8 DEF Turned, Ended, Turns

LEMMA CallIndirectTurned ==
  ASSUME IInv, Fetching, Fetched.op = "call_indirect"
  PROVE  /\ Fetched.t1 \in ValueTypes /\ Fetched.t2 \in ValueTypes
         /\ Needs(Fetched) = Append(Fetched.t1, "i32") /\ Turned(Fetched.t2)
<1>1. Fetched \in Instr(Blocks(prog)) /\ InstrTyped(prog, Here, Fetched, Before, After)
  BY FetchedTyped
<1>2. Fetched.t1 \in ValueTypes /\ Fetched.t2 \in ValueTypes
  BY <1>1 DEF Instr
<1>3. Turns(Before, Append(Fetched.t1, "i32"), Fetched.t2, After)
  BY <1>1 DEF InstrTyped
<1>4. Needs(Fetched) = Append(Fetched.t1, "i32") /\ Exists(Fetched)
  BY DEF Needs, Exists
<1>5. Append(Fetched.t1, "i32") \in Seq(AnyType)
  BY <1>2, ValTypeAny, AppendProperties
<1>. QED BY <1>2, <1>3, <1>4, <1>5 DEF Turned, Ended, Turns

\* What is left when the operands have been popped.
LEMMA RestType ==
  ASSUME IInv, contexts # << >>, Ended
  PROVE  /\ Holds(Operands, Needs(Fetched))
         /\ Rest \in Seq(Values) /\ Types(Rest) = Less(Before, Needs(Fetched))
         /\ Kept(Operands, Len(Needs(Fetched))) \in Seq(Values)
         /\ Types(Kept(Operands, Len(Needs(Fetched)))) = Needs(Fetched)
         /\ \A n \in 1..Len(Needs(Fetched)) :
              /\ Popped(Operands, n) \in Values
              /\ Popped(Operands, n).valtype = Needs(Fetched)[Len(Needs(Fetched)) - n + 1]
  BY InnermostType, EndsHolds DEF Ended, Before, Rest

LEMMA LessNothing ==
  ASSUME NEW ts \in Seq(AnyType)
  PROVE  Less(ts, << >>) = ts
<1>1. Len(ts) - Len(<< >>) = Len(ts)
  BY EmptySeq
<1>. QED BY <1>1, SubSeqFull DEF Less

LEMMA BranchTurned ==
  ASSUME IInv, Fetching, Fetched.op \in {"br", "br_if", "br_table"}
  PROVE  /\ Needs(Fetched) = IF Fetched.op = "br" THEN << >> ELSE <<"i32">>
         /\ Ended /\ (Fetched.op = "br_if" => Turned(<< >>))
         /\ \A l \in Labels(Fetched) : l \in Nat /\ BranchTyped(prog, Here, l, Types(Rest))
<1>1. /\ Fetched \in Instr(Blocks(prog)) /\ InstrTyped(prog, Here, Fetched, Before, After)
      /\ contexts # << >>
  BY FetchedTyped
<1>2. Needs(Fetched) = IF Fetched.op = "br" THEN << >> ELSE <<"i32">>
  BY DEF Needs
<1>3. Needs(Fetched) \in Seq(AnyType) /\ Before \in Seq(AnyType)
  BY <1>1, <1>2, EmptySeq, ValTypeAny, InnermostType
<1>4. \A l \in Labels(Fetched) : l \in Nat
  <2>1. CASE Fetched.op = "br_table"
    <3>1. Fetched.labels \in Seq(Nat) /\ Fetched.default \in Nat
      BY <1>1, <2>1 DEF Instr
    <3>2. \A n \in 1..Len(Fetched.labels) : Fetched.labels[n] \in Nat
      BY <3>1, ElementOfSeq
    <3>. QED BY <2>1, <3>1, <3>2 DEF Labels
  <2>2. CASE Fetched.op # "br_table"
    <3>1. Fetched.label \in Nat
      BY <1>1, <2>2 DEF Instr
    <3>. QED BY <2>2, <3>1 DEF Labels
  <2>. QED BY <2>1, <2>2
<1>5. /\ Ends(Before, Needs(Fetched))
      /\ \A l \in Labels(Fetched) : BranchTyped(prog, Here, l, Less(Before, Needs(Fetched)))
      /\ Fetched.op = "br_if" => After = Less(Before, Needs(Fetched)) \o << >>
  <2>1. CASE Fetched.op = "br"
    <3>1. BranchTyped(prog, Here, Fetched.label, Before)
      BY <1>1, <2>1 DEF InstrTyped
    <3>2. Needs(Fetched) = << >> /\ Less(Before, << >>) = Before
      BY <1>2, <1>3, <2>1, LessNothing
    <3>3. Ends(Before, << >>)
      <4>1. Len(Before) \in Nat /\ Len(<< >>) = 0
        BY <1>3, EmptySeq
      <4>2. SubSeq(Before, Len(Before) - Len(<< >>) + 1, Len(Before)) = << >>
        BY <4>1, SubSeqEmpty
      <4>. QED BY <4>1, <4>2 DEF Ends
    <3>. QED BY <2>1, <3>1, <3>2, <3>3 DEF Labels
  <2>2. CASE Fetched.op = "br_if"
    <3>1. Turns(Before, <<"i32">>, << >>, After) /\ BranchTyped(prog, Here, Fetched.label, After)
      BY <1>1, <2>2 DEF InstrTyped
    <3>2. Needs(Fetched) = <<"i32">>
      BY <1>2, <2>2
    <3>3. Ends(Before, <<"i32">>) /\ After = Less(Before, <<"i32">>) \o << >>
      BY <3>1 DEF Turns
    <3>4. Less(Before, <<"i32">>) \in Seq(AnyType)
      <4>1. PICK us : us = <<"i32">>
        OBVIOUS
      <4>2. Len(us) \in Nat /\ Len(us) <= Len(Before)
        BY <3>3, <4>1 DEF Ends
      <4>3. Dropped(Before, Len(us)) \in Seq(AnyType)
        BY <1>3, <4>2, DroppedType
      <4>. QED BY <4>1, <4>3 DEF Dropped, Less
    <3>5. After = Less(Before, <<"i32">>)
      BY <3>3, <3>4, ConcatEmptySeq
    <3>. QED BY <2>2, <3>1, <3>2, <3>3, <3>5 DEF Labels
  <2>3. CASE Fetched.op = "br_table"
    <3>1. /\ Ends(Before, <<"i32">>)
          /\ \A l \in {Fetched.default} \cup {Fetched.labels[n] : n \in 1..Len(Fetched.labels)} :
               BranchTyped(prog, Here, l, Less(Before, <<"i32">>))
      BY <1>1, <2>3 DEF InstrTyped
    <3>2. Needs(Fetched) = <<"i32">>
      BY <1>2, <2>3
    <3>. QED BY <2>3, <3>1, <3>2 DEF Labels
  <2>. QED BY <2>1, <2>2, <2>3
<1>6. \A l \in Labels(Fetched) : IsLabel(l)
  <2>1. SUFFICES ASSUME NEW l \in Labels(Fetched) PROVE IsLabel(l)
    OBVIOUS
  <2>2. l \in Nat /\ l < Len(prog.typing[Here].labels)
    BY <1>4, <1>5 DEF BranchTyped
  <2>. QED BY <1>1, <2>2, LabelType
<1>7. Exists(Fetched)
  BY <1>6 DEF Exists
<1>8. Ended
  BY <1>3, <1>5, <1>7 DEF Ended
<1>9. Types(Rest) = Less(Before, Needs(Fetched))
  BY <1>1, <1>8, RestType
<1>. QED BY <1>2, <1>4, <1>5, <1>8, <1>9 DEF Turned

\* The context a branch goes to, and what it takes along.
LEMMA TargetType ==
  ASSUME IInv, Fetching, Fetched.op \in {"br", "br_if", "br_table"}, NEW l \in Labels(Fetched)
  PROVE  /\ l \in Nat /\ IsLabel(l) /\ Depth - l \in 1..Depth
         /\ Holds(Rest, Carried(l))
         /\ Kept(Rest, Len(Carried(l))) \in Seq(Values)
         /\ Types(Kept(Rest, Len(Carried(l)))) = Carried(l)
<1>1. contexts # << >> /\ Ended /\ l \in Nat /\ BranchTyped(prog, Here, l, Types(Rest))
  BY FetchedTyped, BranchTurned
<1>2. l < Len(prog.typing[Here].labels) /\ Ends(Types(Rest), LabelTypes(prog, Here, l))
  BY <1>1 DEF BranchTyped
<1>3. IsLabel(l) /\ Depth - l \in 1..Depth /\ Carried(l) = LabelTypes(prog, Here, l)
  BY <1>1, <1>2, LabelType
<1>4. Rest \in Seq(Values)
  BY <1>1, RestType
<1>5. Carried(l) \in Seq(AnyType)
  <2>1. prog \in Programs /\ Good(prog, contexts, << >>)
    BY DEF IInv
  <2>2. contexts[Depth - l].result \in ResultType
    BY <1>3, <2>1, ContextType DEF Depth
  <2>. QED BY <2>2, ResultTypeSeq, EmptySeq DEF Carried
<1>6. Ends(Types(Rest), Carried(l))
  BY <1>2, <1>3
<1>. QED BY <1>1, <1>3, <1>4, <1>5, <1>6, EndsHolds

LEMMA ReturnEnded ==
  ASSUME IInv, Fetching, Fetched.op = "return"
  PROVE  Ended /\ Needs(Fetched) = contexts[Activation].result
<1>1. InstrTyped(prog, Here, Fetched, Before, After) /\ contexts # << >>
  BY FetchedTyped
<1>2. contexts[Activation].result = FuncOf(prog, Here).t2 /\ Activation \in 1..Depth
  BY <1>1, ActivationType
<1>3. Needs(Fetched) = contexts[Activation].result /\ Exists(Fetched)
  BY DEF Needs, Exists
<1>4. Ends(Before, Needs(Fetched))
  BY <1>1, <1>2, <1>3 DEF InstrTyped
<1>5. contexts[Activation].result \in ResultType
  BY <1>2, ContextType DEF IInv, Depth
<1>. QED BY <1>3, <1>4, <1>5, ResultTypeSeq DEF Ended

\* Instructions that only trap.
LEMMA TrapEnded ==
  ASSUME IInv, Fetching, Fetched.op \in {"unreachable", "memory.grow"}
  PROVE  Ended
<1>1. InstrTyped(prog, Here, Fetched, Before, After) /\ contexts # << >>
  BY FetchedTyped
<1>2. Before \in Seq(AnyType) /\ Len(Before) \in Nat
  BY <1>1, InnermostType
<1>3. Exists(Fetched)
  BY DEF Exists
<1>4. CASE Fetched.op = "unreachable"
  <2>1. Needs(Fetched) = << >>
    BY <1>4 DEF Needs
  <2>2. SubSeq(Before, Len(Before) - Len(<< >>) + 1, Len(Before)) = << >>
    BY <1>2, SubSeqEmpty
  <2>. QED BY <1>2, <1>3, <2>1, <2>2, EmptySeq DEF Ended, Ends
<1>5. CASE Fetched.op = "memory.grow"
  <2>1. Needs(Fetched) = <<"i32">>
    BY <1>5 DEF Needs
  <2>2. Ends(Before, <<"i32">>)
    BY <1>1, <1>5 DEF InstrTyped, Turns
  <2>. QED BY <1>3, <2>1, <2>2, ValTypeAny DEF Ended
<1>. QED BY <1>4, <1>5

----------------------------------------------------------------------------
(* Every instruction finds what it needs *)

LEMMA EveryOpcode ==
  ASSUME IInv, Fetching
  PROVE  Fetched.op \in {"const", "numeric", "bitcount", "divide", "load", "store", "drop", "select",
           "return", "unreachable", "nop", "memory.size", "memory.grow", "local.get", "local.set",
           "local.tee", "global.get", "global.set", "block", "loop", "if", "br", "br_if", "br_table",
           "call", "call_indirect"}
<1>1. Fetched \in Instr(Blocks(prog))
  BY FetchedTyped
<1>. QED BY <1>1 DEF Instr

LEMMA AlwaysReady ==
  ASSUME IInv, Fetching
  PROVE  Ended /\ Ready(Fetched)
<1>1. contexts # << >>
  BY DEF Fetching
<1>2. Ended
  <2>1. CASE Fetched.op = "const"
    BY <2>1, ConstTurned DEF Turned
  <2>2. CASE Fetched.op \in {"numeric", "bitcount", "divide", "load", "memory.size"}
    BY <2>2, ComputeTurned DEF Turned
  <2>3. CASE Fetched.op \in {"drop", "store", "nop"}
    BY <2>3, DiscardTurned DEF Turned
  <2>4. CASE Fetched.op = "select"
    BY <2>4, SelectTurned DEF Turned
  <2>5. CASE Fetched.op \in {"local.get", "local.set", "local.tee"}
    BY <2>5, LocalTurned DEF Turned
  <2>6. CASE Fetched.op \in {"global.get", "global.set"}
    BY <2>6, GlobalTurned DEF Turned
  <2>7. CASE Fetched.op \in {"block", "loop", "if"}
    BY <2>7, BlockTurned DEF Turned
  <2>8. CASE Fetched.op \in {"br", "br_if", "br_table"}
    BY <2>8, BranchTurned
  <2>9. CASE Fetched.op = "return"
    BY <2>9, ReturnEnded
  <2>10. CASE Fetched.op = "call"
    BY <2>10, CallTurned DEF Turned
  <2>11. CASE Fetched.op = "call_indirect"
    BY <2>11, CallIndirectTurned DEF Turned
  <2>12. CASE Fetched.op \in {"unreachable", "memory.grow"}
    BY <2>12, TrapEnded
  <2>. QED BY <2>1, <2>2, <2>3, <2>4, <2>5, <2>6, <2>7, <2>8, <2>9, <2>10, <2>11, <2>12, EveryOpcode
<1>3. Branches(Fetched)
  BY TargetType DEF Branches
<1>. QED BY <1>1, <1>2, <1>3, RestType DEF Ready, Ended

\* At its end a block has its result.
LEMMA EndsWithResult ==
  ASSUME IInv, contexts # << >>, AtEnd
  PROVE  /\ Types(Operands) = Innermost.result /\ Innermost.result \in Seq(AnyType)
<1>1. /\ prog \in Programs /\ Here \in Blocks(prog) /\ Innermost.ip \in Nat
      /\ Suits(prog, Innermost) /\ Before \in Seq(AnyType) /\ Innermost \in Context(prog)
      /\ Before = TypesOf(prog, Here, Innermost.ip + 1)
  BY InnermostType
<1>2. Len(prog.code[Here]) \in Nat
  BY <1>1, BlockType
<1>3. Innermost.ip = Len(prog.code[Here])
  BY <1>1, <1>2 DEF Suits, AtEnd, Here
<1>4. TypesOf(prog, Here, Len(prog.code[Here]) + 1) \in {prog.typing[Here].rt, Dead}
  BY <1>1, ProgramType DEF BlockTyped
<1>5. Before = prog.typing[Here].rt
  BY <1>1, <1>3, <1>4, NotDead
<1>6. Innermost.result = prog.typing[Here].rt
  BY <1>1 DEF Suits, Here
<1>. QED BY <1>1, <1>5, <1>6 DEF Before

LEMMA IInvNeverStuck ==
  ASSUME IInv
  PROVE  NeverStuck
<1>1. CASE Running /\ contexts # << >> /\ AtEnd
  BY <1>1, EndsWithResult DEF NeverStuck
<1>2. CASE Running /\ contexts # << >> /\ ~AtEnd
  <2>1. Fetching
    BY <1>2 DEF Fetching
  <2>. QED BY <1>2, <2>1, AlwaysReady DEF NeverStuck
<1>. QED BY <1>1, <1>2 DEF NeverStuck

----------------------------------------------------------------------------
(* Steps *)

LEMMA KeepIInv ==
  ASSUME IInv, prog' = prog, globals' = globals, Good(prog, contexts', << >>)
  PROVE  IInv'
  BY DEF IInv

LEMMA NoContexts ==
  ASSUME NEW p
  PROVE  Good(p, << >>, << >>)
  BY EmptySeq DEF Good

\* The innermost context goes on, with the operands s and those it waits for.
LEMMA OnwardGood ==
  ASSUME IInv, Fetching, NEW s \in Seq(Values), NEW w, Types(s) \o w = After
  PROVE  /\ Good(prog, Onward(s), w) /\ Onward(s) \in Seq(Context(prog)) /\ Onward(s) # << >>
         /\ Len(Onward(s)) = Depth /\ Onward(s)[Depth].instrs = Here
         /\ \A k \in 1..Depth : Onward(s)[k].locals = contexts[k].locals
<1>. DEFINE c == [Innermost EXCEPT !.ip = Innermost.ip + 1, !.operands = s]
<1>1. /\ prog \in Programs /\ contexts \in Seq(Context(prog)) /\ Depth \in 1..Depth
      /\ Innermost \in Context(prog) /\ Innermost.ip \in Nat /\ Depth \in Nat \ {0}
  BY FetchedTyped, InnermostType
<1>2. Innermost.ip + 1 <= Len(prog.code[Here])
  BY FetchedTyped
<1>3. /\ c \in Context(prog) /\ c.instrs = Here /\ c.kind = Innermost.kind
      /\ c.result = Innermost.result /\ c.locals = Innermost.locals
      /\ c.ip = Innermost.ip + 1 /\ c.operands = s
  <2>1. PICK x : x = Innermost.ip + 1
    OBVIOUS
  <2>2. x \in Nat
    BY <1>1, <2>1
  <2>3. c = [Innermost EXCEPT !.ip = x, !.operands = s]
    BY <2>1
  <2>4. c \in Context(prog)
    BY <1>1, <2>2, <2>3 DEF Context
  <2>5. /\ c.instrs = Innermost.instrs /\ c.kind = Innermost.kind
        /\ c.result = Innermost.result /\ c.locals = Innermost.locals
        /\ c.ip = x /\ c.operands = s
    BY <1>1, <2>3 DEF Context
  <2>. QED BY <2>1, <2>4, <2>5 DEF Here
<1>. HIDE DEF c
<1>4. Fits(prog, c, w)
  <2>1. Innermost.ip + 1 + 1 = Innermost.ip + 2
    BY <1>1
  <2>. QED BY <1>3, <2>1 DEF Fits, After
<1>5. Depth \in 1..Len(contexts) /\ Innermost = contexts[Depth] /\ Good(prog, contexts, << >>)
  BY <1>1 DEF Depth, Innermost, IInv
<1>6. Good(prog, [SubSeq(contexts, 1, Depth) EXCEPT ![Depth] = c], w)
  BY <1>1, <1>2, <1>3, <1>4, <1>5, GoodTop DEF Here
<1>7. SubSeq(contexts, 1, Depth) = contexts
  BY <1>1, SubSeqFull DEF Depth
<1>8. Onward(s) = [contexts EXCEPT ![Depth] = c]
  BY DEF Onward, c
<1>9. /\ Len(Onward(s)) = Depth /\ Onward(s) \in Seq(Context(prog))
      /\ \A k \in 1..Depth : Onward(s)[k] = IF k = Depth THEN c ELSE contexts[k]
  BY <1>1, <1>3, <1>5, <1>8, ExceptSeq DEF Depth
<1>10. \A k \in 1..Depth : Onward(s)[k].locals = contexts[k].locals
  BY <1>3, <1>5, <1>9
<1>. QED BY <1>1, <1>3, <1>6, <1>7, <1>8, <1>9, <1>10, EmptySeq

\* An instruction that takes its operands and pushes others.
LEMMA PushGood ==
  ASSUME IInv, Fetching, NEW values \in Seq(Values), Turned(Types(values))
  PROVE  Good(prog, Onward(Rest \o values), << >>)
<1>1. contexts # << >> /\ Ended /\ After = Less(Before, Needs(Fetched)) \o Types(values)
  BY FetchedTyped DEF Turned
<1>2. Rest \in Seq(Values) /\ Types(Rest) = Less(Before, Needs(Fetched))
  BY <1>1, RestType
<1>3. /\ Rest \o values \in Seq(Values)
      /\ Types(Rest \o values) = Types(Rest) \o Types(values)
  BY <1>2, TypesConcat
<1>4. Types(Rest \o values) \o << >> = After
  <2>1. Types(Rest \o values) \in Seq(AnyType)
    BY <1>3, TypesType
  <2>. QED BY <1>1, <1>2, <1>3, <2>1, ConcatEmptySeq
<1>. QED BY <1>3, <1>4, OnwardGood

LEMMA PushKeeps ==
  ASSUME IInv, Fetching, NEW values \in Seq(Values), Turned(Types(values)),
         Push(values), globals' = globals
  PROVE  IInv'
  BY PushGood, KeepIInv DEF Push, Proceed

\* The contexts above n are left, and their results go to the one below.
LEMMA LeaveKeeps ==
  ASSUME IInv, NEW n \in 0..Depth - 1, NEW values \in Seq(Values),
         Types(values) = contexts[n + 1].result, LeaveTo(n, values)
  PROVE  IInv'
<1>1. prog \in Programs /\ Good(prog, contexts, << >>) /\ contexts \in Seq(Context(prog))
  BY DEF IInv, Good
<1>2. Depth \in Nat
  BY <1>1 DEF Depth
<1>3. prog' = prog /\ globals' = globals
  BY DEF LeaveTo, Proceed
<1>4. CASE n = 0
  <2>1. contexts' = << >>
    BY <1>4 DEF LeaveTo
  <2>. QED BY <1>3, <2>1, NoContexts, KeepIInv
<1>5. CASE n # 0
  <2>. DEFINE c == [contexts[n] EXCEPT !.operands = contexts[n].operands \o values]
  <2>1. n \in 1..Len(contexts) /\ n # Len(contexts)
    BY <1>2, <1>5 DEF Depth
  <2>2. /\ contexts[n] \in Context(prog) /\ contexts[n].operands \in Seq(Values)
    BY <1>1, <2>1, ContextType
  <2>3. /\ contexts[n].operands \o values \in Seq(Values)
        /\ Types(contexts[n].operands \o values) = Types(contexts[n].operands) \o Types(values)
    BY <2>2, TypesConcat
  <2>4. /\ c \in Context(prog) /\ c.instrs = contexts[n].instrs /\ c.kind = contexts[n].kind
        /\ c.result = contexts[n].result /\ c.locals = contexts[n].locals /\ c.ip = contexts[n].ip
        /\ c.operands = contexts[n].operands \o values
    BY <2>2, <2>3 DEF Context
  <2>. HIDE DEF c
  <2>5. Suits(prog, contexts[n]) /\ Fits(prog, contexts[n], contexts[n + 1].result)
    BY <1>1, <2>1 DEF Good, Expected
  <2>6. c.ip <= Len(prog.code[c.instrs])
    BY <2>4, <2>5 DEF Suits
  <2>7. Fits(prog, c, << >>)
    <3>1. Types(c.operands) = TypesOf(prog, c.instrs, c.ip + 1)
      BY <2>3, <2>4, <2>5 DEF Fits
    <3>2. Types(c.operands) \in Seq(AnyType)
      BY <2>3, <2>4, TypesType
    <3>. QED BY <3>1, <3>2, ConcatEmptySeq DEF Fits
  <2>8. Good(prog, [SubSeq(contexts, 1, n) EXCEPT ![n] = c], << >>)
    BY <1>1, <2>1, <2>4, <2>6, <2>7, GoodTop
  <2>9. contexts' = [SubSeq(contexts, 1, n) EXCEPT ![n] = c]
    BY <1>5 DEF LeaveTo, c
  <2>. QED BY <1>3, <2>8, <2>9, KeepIInv
<1>. QED BY <1>4, <1>5

\* A block is entered.
LEMMA OpenKeeps ==
  ASSUME IInv, Fetching, Fetched.op \in {"block", "loop", "if"},
         NEW body \in Blocks(prog), NEW kind \in {"control", "loop"},
         Nested(prog, Here, body, kind, Fetched.rt), Open(body, kind)
  PROVE  IInv'
<1>. DEFINE c  == BlockContext(body, kind, Fetched.rt)
            cs == Onward(Rest)
<1>1. Fetched.rt \in ResultType /\ Turned(Fetched.rt) /\ contexts # << >> /\ prog \in Programs
  BY BlockTurned, FetchedTyped DEF IInv
<1>2. Rest \in Seq(Values) /\ Types(Rest) \o Fetched.rt = After
  BY <1>1, RestType DEF Turned
<1>3. /\ Good(prog, cs, Fetched.rt) /\ cs \in Seq(Context(prog)) /\ cs # << >>
      /\ Len(cs) = Depth /\ cs[Depth].instrs = Here
  BY <1>2, OnwardGood
<1>4. /\ c \in Context(prog) /\ c.instrs = body /\ c.kind = kind /\ c.result = Fetched.rt
      /\ c.ip = 0 /\ c.operands = << >> /\ c.kind # "function"
  BY <1>1, EmptySeq DEF BlockContext, Context
<1>. HIDE DEF c, cs
<1>5. /\ prog.typing[body].kind = kind /\ prog.typing[body].rt = Fetched.rt
      /\ prog.typing[body].func = prog.typing[Here].func
      /\ Under(prog, body, Here)
  BY DEF Nested, Under
<1>6. Suits(prog, c)
  <2>1. Len(prog.code[body]) \in Nat
    BY <1>1, BlockType
  <2>. QED BY <1>4, <1>5, <2>1 DEF Suits
<1>7. Labelled(prog, Append(cs, c), Len(cs) + 1)
  BY <1>1, <1>3, <1>4, <1>5, LabelledBlock
<1>8. Fits(prog, c, << >>)
  <2>1. TypesOf(prog, body, 1) = << >>
    BY <1>1, BlockType
  <2>2. Types(c.operands) \o << >> = << >> /\ c.ip + 1 = 1
    BY <1>4, TypesNone, ConcatEmptySeq, EmptySeq
  <2>. QED BY <1>4, <2>1, <2>2 DEF Fits
<1>9. Good(prog, Append(cs, c), << >>)
  BY <1>1, <1>3, <1>4, <1>6, <1>7, <1>8, GoodAppend
<1>10. contexts' = Append(cs, c) /\ prog' = prog /\ globals' = globals
  BY DEF Open, Proceed, c, cs
<1>. QED BY <1>9, <1>10, KeepIInv

LEMMA ConstKeeps ==
  ASSUME IInv, Const
  PROVE  IInv'
<1>1. Fetching /\ Fetched.op = "const"
  BY DEF Const, At
<1>2. Turned(<<Fetched.t>>) /\ Fetched.t \in ValType /\ Fetched.v \in Val
  BY <1>1, ConstTurned
<1>3. PICK e : e = Value(Fetched.t, Fetched.v)
  OBVIOUS
<1>4. e \in Values /\ e.valtype = Fetched.t
  BY <1>2, <1>3 DEF Value, Values, AnyType
<1>5. <<e>> \in Seq(Values) /\ Types(<<e>>) = <<Fetched.t>>
  BY <1>4, TypesOne
<1>6. Push(<<e>>) /\ globals' = globals
  BY <1>3 DEF Const
<1>. QED BY <1>1, <1>2, <1>5, <1>6, PushKeeps

LEMMA ComputeKeeps ==
  ASSUME IInv, Compute
  PROVE  IInv'
<1>1. Fetching /\ Fetched.op \in {"numeric", "bitcount", "divide", "load", "memory.size"}
  BY DEF Compute, At
<1>2. Turned(<<Pushed(Fetched)>>) /\ Pushed(Fetched) \in ValType
  BY <1>1, ComputeTurned
<1>3. PICK v \in Val : Push(<<Value(Pushed(Fetched), v)>>)
  BY DEF Compute
<1>4. PICK e : e = Value(Pushed(Fetched), v)
  OBVIOUS
<1>5. e \in Values /\ e.valtype = Pushed(Fetched)
  BY <1>2, <1>4 DEF Value, Values, AnyType
<1>6. <<e>> \in Seq(Values) /\ Types(<<e>>) = <<Pushed(Fetched)>>
  BY <1>5, TypesOne
<1>7. Push(<<e>>) /\ globals' = globals
  BY <1>3, <1>4 DEF Compute
<1>. QED BY <1>1, <1>2, <1>6, <1>7, PushKeeps

LEMMA DiscardKeeps ==
  ASSUME IInv, Discard
  PROVE  IInv'
<1>1. Fetching /\ Fetched.op \in {"drop", "store", "nop"}
  BY DEF Discard, At
<1>2. Turned(<< >>)
  BY <1>1, DiscardTurned
<1>3. Push(<< >>) /\ globals' = globals
  BY DEF Discard
<1>. QED BY <1>1, <1>2, <1>3, TypesNone, PushKeeps

LEMMA SelectKeeps ==
  ASSUME IInv, Select
  PROVE  IInv'
<1>1. Fetching /\ Fetched.op = "select" /\ contexts # << >>
  BY DEF Select, At, Fetching
<1>2. PICK t \in ValType : Turned(<<t>>) /\ Needs(Fetched) = <<t, t, "i32">>
  BY <1>1, SelectTurned
<1>3. Ended
  BY <1>2 DEF Turned
<1>4. \A n \in 2..3 : Popped(Operands, n) \in Values /\ Popped(Operands, n).valtype = t
  <2>1. PICK us : us = Needs(Fetched)
    OBVIOUS
  <2>2. Len(us) = 3 /\ us[1] = t /\ us[2] = t
    BY <1>2, <2>1
  <2>3. \A n \in 1..Len(us) : /\ Popped(Operands, n) \in Values
                              /\ Popped(Operands, n).valtype = us[Len(us) - n + 1]
    BY <1>1, <1>3, <2>1, RestType
  <2>. QED BY <2>2, <2>3
<1>5. PICK e : e = Popped(Operands, IF Popped(Operands, 1).val # 0 THEN 3 ELSE 2)
  OBVIOUS
<1>6. e \in Values /\ e.valtype = t
  BY <1>4, <1>5
<1>7. <<e>> \in Seq(Values) /\ Types(<<e>>) = <<t>>
  BY <1>6, TypesOne
<1>8. Push(<<e>>) /\ globals' = globals
  BY <1>5 DEF Select
<1>. QED BY <1>1, <1>2, <1>7, <1>8, PushKeeps

LEMMA LocalGetKeeps ==
  ASSUME IInv, LocalGet
  PROVE  IInv'
<1>1. Fetching /\ Fetched.op = "local.get"
  BY DEF LocalGet, At
<1>2. PICK e : e = Locals[Fetched.idx + 1]
  OBVIOUS
<1>3. e \in Values /\ Turned(<<e.valtype>>)
  BY <1>1, <1>2, LocalTurned
<1>4. <<e>> \in Seq(Values) /\ Types(<<e>>) = <<e.valtype>>
  BY <1>3, TypesOne
<1>5. Push(<<e>>) /\ globals' = globals
  BY <1>2 DEF LocalGet
<1>. QED BY <1>1, <1>3, <1>4, <1>5, PushKeeps

\* What was popped and is pushed again makes up the operands.
LEMMA LessThenEnd ==
  ASSUME NEW ts \in Seq(AnyType), NEW us \in Seq(AnyType), Ends(ts, us)
  PROVE  Less(ts, us) \o us = ts
<1>1. Len(ts) \in Nat /\ Len(us) \in Nat /\ Len(us) <= Len(ts)
      /\ SubSeq(ts, Len(ts) - Len(us) + 1, Len(ts)) = us
  BY DEF Ends
<1>2. PICK k : k = Len(ts) - Len(us)
  OBVIOUS
<1>3. 1 \in 1..Len(ts) + 1 /\ k \in 1 - 1..Len(ts) /\ Len(ts) \in k..Len(ts)
  BY <1>1, <1>2
<1>4. SubSeq(ts, 1, k) \o SubSeq(ts, k + 1, Len(ts)) = SubSeq(ts, 1, Len(ts))
  BY <1>3, ConcatAdjacentSubSeq
<1>. QED BY <1>1, <1>2, <1>4, SubSeqFull DEF Less

LEMMA LocalSetKeeps ==
  ASSUME IInv, LocalSet
  PROVE  IInv'
<1>1. Fetching /\ Fetched.op \in {"local.set", "local.tee"}
  BY DEF LocalSet, At
<1>2. PICK e, t, s : /\ e = Popped(Operands, 1) /\ t = Locals[Fetched.idx + 1].valtype
                     /\ s = IF Fetched.op = "local.set" THEN Rest ELSE Operands
  OBVIOUS
<1>3. /\ Needs(Fetched) = <<t>> /\ Fetched.idx + 1 \in 1..Len(Locals)
      /\ Turned(IF Fetched.op = "local.set" THEN << >> ELSE <<t>>)
  BY <1>1, <1>2, LocalTurned
<1>4. contexts # << >> /\ Ended /\ Activation \in 1..Depth
      /\ Operands \in Seq(Values) /\ Before \in Seq(AnyType)
  BY <1>1, <1>3, FetchedTyped, InnermostType, ActivationType DEF Turned
<1>5. e \in Values /\ e.valtype = t
  <2>1. PICK us : us = Needs(Fetched)
    OBVIOUS
  <2>2. Len(us) = 1 /\ us[1] = t
    BY <1>3, <2>1
  <2>3. \A n \in 1..Len(us) : /\ Popped(Operands, n) \in Values
                              /\ Popped(Operands, n).valtype = us[Len(us) - n + 1]
    BY <1>4, <2>1, RestType
  <2>. QED BY <1>2, <2>2, <2>3
<1>6. s \in Seq(Values) /\ Types(s) \o << >> = After
  <2>1. Rest \in Seq(Values) /\ Types(Rest) = Less(Before, <<t>>)
    BY <1>3, <1>4, RestType
  <2>2. CASE Fetched.op = "local.set"
    <3>1. s = Rest /\ After = Less(Before, <<t>>) \o << >>
      BY <1>2, <1>3, <2>2 DEF Turned
    <3>. QED BY <2>1, <3>1
  <2>3. CASE Fetched.op = "local.tee"
    <3>1. s = Operands /\ After = Less(Before, <<t>>) \o <<t>>
      BY <1>2, <1>3, <2>3 DEF Turned
    <3>2. Less(Before, <<t>>) \o <<t>> = Before
      BY <1>3, <1>4, LessThenEnd DEF Ended
    <3>. QED BY <1>4, <3>1, <3>2, ConcatEmptySeq DEF Before
  <2>. QED BY <1>1, <2>2, <2>3
<1>7. PICK cs : cs = Onward(s)
  OBVIOUS
<1>8. Good(prog, cs, << >>) /\ Len(cs) = Depth /\ cs[Activation].locals = Locals
  BY <1>1, <1>4, <1>6, <1>7, OnwardGood DEF Locals
<1>9. prog \in Programs /\ Activation \in 1..Len(cs) /\ Fetched.idx + 1 \in 1..Len(cs[Activation].locals)
      /\ e.valtype = cs[Activation].locals[Fetched.idx + 1].valtype
  BY <1>2, <1>3, <1>4, <1>5, <1>8 DEF IInv
<1>10. Good(prog, [cs EXCEPT ![Activation].locals[Fetched.idx + 1] = e], << >>)
  BY <1>5, <1>8, <1>9, GoodLocal
<1>11. contexts' = [cs EXCEPT ![Activation].locals[Fetched.idx + 1] = e]
  BY <1>2, <1>7 DEF LocalSet
<1>12. prog' = prog /\ globals' = globals
  BY DEF LocalSet, Proceed
<1>. QED BY <1>10, <1>11, <1>12, KeepIInv

LEMMA GlobalGetKeeps ==
  ASSUME IInv, GlobalGet
  PROVE  IInv'
<1>1. Fetching /\ Fetched.op = "global.get"
  BY DEF GlobalGet, At
<1>2. PICK e : e = globals[Fetched.idx + 1]
  OBVIOUS
<1>3. e \in Values /\ Turned(<<e.valtype>>)
  BY <1>1, <1>2, GlobalTurned
<1>4. <<e>> \in Seq(Values) /\ Types(<<e>>) = <<e.valtype>>
  BY <1>3, TypesOne
<1>5. Push(<<e>>) /\ globals' = globals
  BY <1>2 DEF GlobalGet
<1>. QED BY <1>1, <1>3, <1>4, <1>5, PushKeeps

LEMMA GlobalSetKeeps ==
  ASSUME IInv, GlobalSet
  PROVE  IInv'
<1>1. Fetching /\ Fetched.op = "global.set" /\ contexts # << >>
  BY DEF GlobalSet, At, Fetching
<1>2. PICK e, t, i : e = Popped(Operands, 1) /\ t = globals[Fetched.idx + 1].valtype /\ i = Fetched.idx + 1
  OBVIOUS
<1>3. i \in 1..Len(globals) /\ Needs(Fetched) = <<t>> /\ Turned(<< >>)
  BY <1>1, <1>2, GlobalTurned
<1>4. e \in Values /\ e.valtype = t
  <2>1. PICK us : us = Needs(Fetched)
    OBVIOUS
  <2>2. Len(us) = 1 /\ us[1] = t
    BY <1>3, <2>1
  <2>3. \A n \in 1..Len(us) : /\ Popped(Operands, n) \in Values
                              /\ Popped(Operands, n).valtype = us[Len(us) - n + 1]
    BY <1>1, <1>3, <2>1, RestType DEF Turned
  <2>. QED BY <1>2, <2>2, <2>3
<1>5. Push(<< >>) /\ globals' = [globals EXCEPT ![i] = e]
  BY <1>2 DEF GlobalSet
<1>6. Good(prog, contexts', << >>) /\ prog' = prog
  <2>1. Turned(Types(<< >>)) /\ << >> \in Seq(Values)
    BY <1>3, TypesNone
  <2>. QED BY <1>1, <1>5, <2>1, PushGood DEF Push, Proceed
<1>7. GlobalsTyped(prog, globals')
  <2>1. GlobalsTyped(prog, globals)
    BY DEF IInv
  <2>2. /\ globals' \in Seq(Values) /\ Len(globals') = Len(globals)
        /\ \A j \in 1..Len(globals) : globals'[j] = IF j = i THEN e ELSE globals[j]
    BY <1>3, <1>4, <1>5, <2>1, ExceptSeq DEF GlobalsTyped
  <2>. QED BY <1>2, <1>4, <2>1, <2>2 DEF GlobalsTyped
<1>. QED BY <1>6, <1>7 DEF IInv

LEMMA EnterBlockKeeps ==
  ASSUME IInv, EnterBlock \/ EnterLoop \/ EnterThen \/ EnterElse
  PROVE  IInv'
<1>1. CASE EnterBlock
  <2>1. Fetching /\ Fetched.op = "block" /\ Open(Fetched.body, "control")
    BY <1>1 DEF EnterBlock, At
  <2>. QED BY <2>1, NestedType, OpenKeeps
<1>2. CASE EnterLoop
  <2>1. Fetching /\ Fetched.op = "loop" /\ Open(Fetched.body, "loop")
    BY <1>2 DEF EnterLoop, At
  <2>. QED BY <2>1, NestedType, OpenKeeps
<1>3. CASE EnterThen
  <2>1. Fetching /\ Fetched.op = "if" /\ Open(Fetched.then, "control")
    BY <1>3 DEF EnterThen, At
  <2>. QED BY <2>1, NestedType, OpenKeeps
<1>4. CASE EnterElse
  <2>1. Fetching /\ Fetched.op = "if" /\ Fetched.else # NoBlock /\ Open(Fetched.else, "control")
    BY <1>4 DEF EnterElse, At
  <2>. QED BY <2>1, NestedType, OpenKeeps
<1>. QED BY <1>1, <1>2, <1>3, <1>4

\* Without an else the block has no result to give.
LEMMA SkipIfKeeps ==
  ASSUME IInv, SkipIf
  PROVE  IInv'
<1>1. Fetching /\ Fetched.op = "if" /\ Fetched.else = NoBlock /\ Push(<< >>) /\ globals' = globals
  BY DEF SkipIf, At
<1>2. Turned(<< >>)
  BY <1>1, BlockTurned, NestedType
<1>. QED BY <1>1, <1>2, TypesNone, PushKeeps

\* Contexts are left with the results the lowest of them has.
Leaves == \E n \in 0..Depth - 1, values \in Seq(Values) :
            Types(values) = contexts[n + 1].result /\ LeaveTo(n, values)

LEMMA EndLeaves ==
  ASSUME IInv, End
  PROVE  Leaves
<1>1. contexts # << >> /\ AtEnd /\ LeaveTo(Depth - 1, Kept(Operands, Len(Innermost.result)))
  BY DEF End
<1>2. Operands \in Seq(Values) /\ Before \in Seq(AnyType) /\ Depth \in Nat \ {0}
  BY <1>1, InnermostType
<1>3. Before = Innermost.result
  BY <1>1, EndsWithResult DEF Before
<1>4. Ends(Before, Before)
  <2>1. Len(Before) \in Nat /\ Len(Before) - Len(Before) + 1 = 1
    BY <1>2
  <2>. QED BY <1>2, <2>1, SubSeqFull DEF Ends
<1>5. PICK values : values = Kept(Operands, Len(Innermost.result))
  OBVIOUS
<1>6. values \in Seq(Values) /\ Types(values) = Innermost.result
  BY <1>2, <1>3, <1>4, <1>5, EndsHolds DEF Before
<1>7. PICK n : n = Depth - 1
  OBVIOUS
<1>8. n \in 0..Depth - 1 /\ n + 1 = Depth
  BY <1>2, <1>7
<1>9. Types(values) = contexts[n + 1].result /\ LeaveTo(n, values)
  BY <1>1, <1>5, <1>6, <1>7, <1>8 DEF Innermost
<1>. QED BY <1>6, <1>8, <1>9 DEF Leaves

LEMMA EndKeeps == IInv /\ End => IInv'
  BY EndLeaves, LeaveKeeps DEF Leaves

LEMMA BranchLeaves ==
  ASSUME IInv, Fetching, Fetched.op \in {"br", "br_if", "br_table"}, NEW l \in Labels(Fetched), Branch(l),
         contexts[Depth - l].kind # "loop"
  PROVE  Leaves
<1>1. /\ l \in Nat /\ Depth - l \in 1..Depth
      /\ Kept(Rest, Len(Carried(l))) \in Seq(Values)
      /\ Types(Kept(Rest, Len(Carried(l)))) = Carried(l)
  BY TargetType
<1>2. Depth \in Nat
  BY InnermostType, FetchedTyped
<1>3. PICK values, n : values = Kept(Rest, Len(Carried(l))) /\ n = Depth - l - 1
  OBVIOUS
<1>4. n \in 0..Depth - 1 /\ n + 1 = Depth - l
  BY <1>1, <1>2, <1>3
<1>5. LeaveTo(n, values)
  BY <1>3 DEF Branch
<1>6. values \in Seq(Values) /\ Types(values) = contexts[n + 1].result
  BY <1>1, <1>3, <1>4 DEF Carried
<1>. QED BY <1>4, <1>5, <1>6 DEF Leaves

LEMMA BranchKeeps ==
  ASSUME IInv, Fetching, Fetched.op \in {"br", "br_if", "br_table"}, NEW l \in Labels(Fetched), Branch(l)
  PROVE  IInv'
<1>1. /\ l \in Nat /\ Depth - l \in 1..Depth
      /\ Kept(Rest, Len(Carried(l))) \in Seq(Values)
      /\ Types(Kept(Rest, Len(Carried(l)))) = Carried(l)
  BY TargetType
<1>2. prog \in Programs /\ Good(prog, contexts, << >>) /\ Depth \in Nat /\ contexts # << >>
  BY InnermostType, FetchedTyped DEF IInv
<1>3. PICK t : t = Depth - l
  OBVIOUS
<1>4. CASE contexts[t].kind = "loop"
  <2>. DEFINE c == [contexts[t] EXCEPT !.ip = 0, !.operands = << >>]
  <2>1. t \in 1..Len(contexts) /\ contexts[t] \in Context(prog) /\ contexts[t].instrs \in Blocks(prog)
    BY <1>1, <1>2, <1>3, ContextType DEF Depth
  <2>2. /\ c \in Context(prog) /\ c.instrs = contexts[t].instrs /\ c.kind = contexts[t].kind
        /\ c.result = contexts[t].result /\ c.locals = contexts[t].locals
        /\ c.ip = 0 /\ c.operands = << >>
    BY <2>1, EmptySeq DEF Context
  <2>. HIDE DEF c
  <2>3. c.ip <= Len(prog.code[c.instrs]) /\ TypesOf(prog, c.instrs, 1) = << >>
    BY <1>2, <2>1, <2>2, BlockType
  <2>4. Fits(prog, c, << >>)
    <3>1. Types(c.operands) \o << >> = << >> /\ c.ip + 1 = 1
      BY <2>2, TypesNone, ConcatEmptySeq, EmptySeq
    <3>. QED BY <2>3, <3>1 DEF Fits
  <2>5. Good(prog, [SubSeq(contexts, 1, t) EXCEPT ![t] = c], << >>)
    BY <1>2, <2>1, <2>2, <2>3, <2>4, GoodTop
  <2>6. contexts' = [SubSeq(contexts, 1, t) EXCEPT ![t] = c] /\ prog' = prog /\ globals' = globals
    BY <1>3, <1>4 DEF Branch, Proceed, c
  <2>. QED BY <2>5, <2>6, KeepIInv
<1>5. CASE contexts[t].kind # "loop"
  <2>1. Leaves
    BY <1>3, <1>5, BranchLeaves
  <2>. QED BY <2>1, LeaveKeeps DEF Leaves
<1>. QED BY <1>4, <1>5

LEMMA BrKeeps ==
  ASSUME IInv, Br \/ BrIf
  PROVE  IInv'
<1>1. Fetching /\ Fetched.op \in {"br", "br_if"} /\ Branch(Fetched.label)
  BY DEF Br, BrIf, At
<1>2. Fetched.label \in Labels(Fetched)
  BY <1>1 DEF Labels
<1>. QED BY <1>1, <1>2, BranchKeeps

LEMMA NotBrIfKeeps ==
  ASSUME IInv, NotBrIf
  PROVE  IInv'
<1>1. Fetching /\ Fetched.op = "br_if" /\ Push(<< >>) /\ globals' = globals
  BY DEF NotBrIf, At
<1>2. Turned(<< >>)
  BY <1>1, BranchTurned
<1>. QED BY <1>1, <1>2, TypesNone, PushKeeps

\* The topmost operand, where an instruction takes it off first.
LEMMA TopOperand ==
  ASSUME IInv, Fetching, Ended, Needs(Fetched) # << >>
  PROVE  Popped(Operands, 1) \in Values /\ Popped(Operands, 1).val \in Nat
<1>1. contexts # << >> /\ Len(Needs(Fetched)) \in Nat \ {0}
  BY EmptySeq DEF Fetching, Ended
<1>2. 1 \in 1..Len(Needs(Fetched))
  BY <1>1
<1>3. Popped(Operands, 1) \in Values
  BY <1>1, <1>2, RestType
<1>. QED BY <1>3, CodeAssumption DEF Values

LEMMA BrTableBranches ==
  ASSUME IInv, BrTable
  PROVE  /\ Fetching /\ Fetched.op = "br_table"
         /\ \E l \in Labels(Fetched) : Branch(l)
<1>1. PICK v : v = Popped(Operands, 1).val
  OBVIOUS
<1>2. /\ Fetching /\ Fetched.op = "br_table"
      /\ Branch(IF v < Len(Fetched.labels) THEN Fetched.labels[v + 1] ELSE Fetched.default)
  BY <1>1 DEF BrTable, At
<1>3. Ended /\ Needs(Fetched) = <<"i32">> /\ Fetched \in Instr(Blocks(prog))
  BY <1>2, BranchTurned, FetchedTyped
<1>4. v \in Nat
  BY <1>1, <1>2, <1>3, TopOperand
<1>5. Fetched.labels \in Seq(Nat)
  BY <1>2, <1>3 DEF Instr
<1>6. (IF v < Len(Fetched.labels) THEN Fetched.labels[v + 1] ELSE Fetched.default) \in Labels(Fetched)
  <2>1. v < Len(Fetched.labels) => v + 1 \in 1..Len(Fetched.labels)
    BY <1>4, <1>5
  <2>. QED BY <1>2, <2>1 DEF Labels
<1>. QED BY <1>2, <1>6

LEMMA BrTableKeeps == IInv /\ BrTable => IInv'
  BY BrTableBranches, BranchKeeps

LEMMA ReturnLeaves ==
  ASSUME IInv, Return
  PROVE  Leaves
<1>1. Fetching /\ Fetched.op = "return" /\ contexts # << >>
  BY DEF Return, At, Fetching
<1>2. PICK values, n : values = Kept(Operands, Len(Needs(Fetched))) /\ n = Activation - 1
  OBVIOUS
<1>3. Ended /\ Needs(Fetched) = contexts[Activation].result
  BY <1>1, ReturnEnded
<1>4. values \in Seq(Values) /\ Types(values) = Needs(Fetched)
  BY <1>1, <1>2, <1>3, RestType
<1>5. n \in 0..Depth - 1 /\ n + 1 = Activation
  BY <1>1, <1>2, ActivationType, InnermostType
<1>6. LeaveTo(n, values)
  BY <1>2 DEF Return
<1>. QED BY <1>3, <1>4, <1>5, <1>6 DEF Leaves

LEMMA ReturnKeeps == IInv /\ Return => IInv'
  BY ReturnLeaves, LeaveKeeps DEF Leaves


\* An activation with arguments of the types of its parameters.
LEMMA FuncContextType ==
  ASSUME NEW p \in Programs, NEW k \in 1..Len(p.funcs), NEW args \in Seq(Values),
         Types(args) = p.funcs[k].t1
  PROVE  LET c == FuncContext(p.funcs[k], args)
         IN  /\ c \in Context(p) /\ Suits(p, c) /\ c.kind = "function" /\ c.result = p.funcs[k].t2
             /\ p.typing[c.instrs].labels = <<c.instrs>> /\ Fits(p, c, << >>)
<1>1. PICK f : f = p.funcs[k]
  OBVIOUS
<1>2. f \in Func(Blocks(p)) /\ FuncTyped(p, k) /\ k \in Nat /\ Len(p.funcs) \in Nat
  BY <1>1, ProgramType, ElementOfSeq
<1>3. /\ f.body \in Blocks(p) /\ f.t1 \in Seq(AnyType) /\ f.locals \in Seq(ValType)
      /\ f.locals \in Seq(AnyType)
  BY <1>2, ValTypeAny DEF Func, ValueTypes
<1>4. /\ p.typing[f.body].kind = "function" /\ p.typing[f.body].rt = f.t2
      /\ p.typing[f.body].func = k - 1 /\ p.typing[f.body].labels = <<f.body>>
  BY <1>1, <1>2 DEF FuncTyped
<1>5. f.t2 \in ResultType
  BY <1>2, <1>3, <1>4, BlockType
<1>6. PICK zeros : zeros = [n \in 1..Len(f.locals) |-> Value(f.locals[n], 0)]
  OBVIOUS
<1>7. zeros \in Seq(Values) /\ Types(zeros) = f.locals
  <2>1. Len(f.locals) \in Nat
    BY <1>3
  <2>2. ASSUME NEW n \in 1..Len(f.locals)
        PROVE  Value(f.locals[n], 0) \in Values /\ Value(f.locals[n], 0).valtype = f.locals[n]
    <3>1. f.locals[n] \in AnyType
      BY <1>3, ElementOfSeq
    <3>. QED BY <3>1, CodeAssumption DEF Value, Values
  <2>3. zeros \in Seq(Values)
    BY <1>6, <2>1, <2>2, IsASeq
  <2>4. Len(zeros) = Len(f.locals) /\ \A n \in 1..Len(f.locals) : zeros[n].valtype = f.locals[n]
    BY <1>6, <2>1, <2>2
  <2>5. /\ Types(zeros) \in Seq(AnyType) /\ Len(Types(zeros)) = Len(f.locals)
        /\ \A n \in 1..Len(f.locals) : Types(zeros)[n] = f.locals[n]
    BY <2>3, <2>4, TypesType
  <2>. QED BY <1>3, <2>3, <2>5, SeqEqual
<1>8. args \o zeros \in Seq(Values) /\ Types(args \o zeros) = f.t1 \o f.locals
  BY <1>1, <1>7, TypesConcat
<1>9. PICK c : c = FuncContext(f, args)
  OBVIOUS
<1>10. /\ c \in Context(p) /\ c.instrs = f.body /\ c.ip = 0 /\ c.kind = "function"
       /\ c.result = f.t2 /\ c.operands = << >> /\ c.locals = args \o zeros
  BY <1>3, <1>5, <1>6, <1>8, <1>9, EmptySeq DEF FuncContext, Context
<1>11. FuncOf(p, f.body) = f
  BY <1>1, <1>2, <1>4 DEF FuncOf
<1>12. Suits(p, c)
  <2>1. LocalTypes(p, f.body) = f.t1 \o f.locals
    BY <1>11 DEF LocalTypes
  <2>2. c.ip <= Len(p.code[c.instrs])
    BY <1>3, <1>10, BlockType
  <2>3. c.kind = p.typing[c.instrs].kind /\ c.result = p.typing[c.instrs].rt
    BY <1>4, <1>10
  <2>4. p.typing[c.instrs].func < Len(p.funcs)
    BY <1>2, <1>4, <1>10
  <2>5. c.result = FuncOf(p, c.instrs).t2 /\ Types(c.locals) = LocalTypes(p, c.instrs)
    BY <1>8, <1>10, <1>11, <2>1
  <2>. QED BY <2>2, <2>3, <2>4, <2>5 DEF Suits
<1>13. Fits(p, c, << >>)
  <2>1. TypesOf(p, f.body, 1) = << >>
    BY <1>3, BlockType
  <2>2. Types(c.operands) \o << >> = << >> /\ c.ip + 1 = 1
    BY <1>10, TypesNone, ConcatEmptySeq, EmptySeq
  <2>. QED BY <1>10, <2>1, <2>2 DEF Fits
<1>. QED BY <1>1, <1>4, <1>9, <1>10, <1>12, <1>13

\* The first activation.
LEMMA FirstContext ==
  ASSUME NEW p \in Programs, NEW k \in 1..Len(p.funcs), NEW args \in Seq(Values),
         Types(args) = p.funcs[k].t1
  PROVE  Good(p, <<FuncContext(p.funcs[k], args)>>, << >>)
<1>1. PICK c, none : c = FuncContext(p.funcs[k], args) /\ none = << >>
  OBVIOUS
<1>2. /\ c \in Context(p) /\ Suits(p, c) /\ c.kind = "function"
      /\ p.typing[c.instrs].labels = <<c.instrs>> /\ Fits(p, c, << >>)
  BY <1>1, FuncContextType
<1>3. Good(p, none, << >>) /\ none \in Seq(Context(p))
  BY <1>1, NoContexts, EmptySeq
<1>4. Labelled(p, Append(none, c), Len(none) + 1)
  BY <1>2, <1>3, LabelledFunction
<1>5. Good(p, Append(none, c), << >>)
  BY <1>1, <1>2, <1>3, <1>4, GoodAppend
<1>6. Append(none, c) = <<c>>
  BY <1>1
<1>. QED BY <1>1, <1>5, <1>6

LEMMA EnterKeeps ==
  ASSUME IInv, Fetching, NEW k \in 1..Len(prog.funcs), NEW s \in Seq(Values),
         Ends(Types(s), prog.funcs[k].t1),
         Less(Types(s), prog.funcs[k].t1) \o prog.funcs[k].t2 = After,
         Enter(prog.funcs[k], s)
  PROVE  IInv'
<1>1. PICK f : f = prog.funcs[k]
  OBVIOUS
<1>2. prog \in Programs /\ f \in Func(Blocks(prog))
  BY <1>1, ProgramType, ElementOfSeq DEF IInv
<1>3. f.t1 \in Seq(AnyType)
  BY <1>2, ValTypeAny DEF Func
<1>4. /\ Dropped(s, Len(f.t1)) \in Seq(Values) /\ Types(Dropped(s, Len(f.t1))) = Less(Types(s), f.t1)
      /\ Kept(s, Len(f.t1)) \in Seq(Values) /\ Types(Kept(s, Len(f.t1))) = f.t1
  BY <1>1, <1>3, EndsHolds
<1>5. PICK c, cs : c = FuncContext(f, Kept(s, Len(f.t1))) /\ cs = Onward(Dropped(s, Len(f.t1)))
  OBVIOUS
<1>6. /\ c \in Context(prog) /\ Suits(prog, c) /\ c.kind = "function" /\ c.result = f.t2
      /\ prog.typing[c.instrs].labels = <<c.instrs>> /\ Fits(prog, c, << >>)
  BY <1>1, <1>2, <1>4, <1>5, FuncContextType
<1>7. Good(prog, cs, f.t2) /\ cs \in Seq(Context(prog))
  <2>1. Types(Dropped(s, Len(f.t1))) \o f.t2 = After
    BY <1>1, <1>4
  <2>. QED BY <1>4, <1>5, <2>1, OnwardGood
<1>8. Labelled(prog, Append(cs, c), Len(cs) + 1)
  BY <1>2, <1>6, <1>7, LabelledFunction
<1>9. Good(prog, Append(cs, c), << >>)
  BY <1>2, <1>6, <1>7, <1>8, GoodAppend
<1>10. contexts' = Append(cs, c) /\ prog' = prog /\ globals' = globals
  BY <1>1, <1>5 DEF Enter, Proceed
<1>. QED BY <1>9, <1>10, KeepIInv

LEMMA CallKeeps ==
  ASSUME IInv, Call
  PROVE  IInv'
<1>1. Fetching /\ Fetched.op = "call" /\ Enter(prog.funcs[Fetched.func + 1], Operands) /\ contexts # << >>
  BY DEF Call, At, Fetching
<1>2. PICK k : k = Fetched.func + 1
  OBVIOUS
<1>3. k \in 1..Len(prog.funcs) /\ Needs(Fetched) = prog.funcs[k].t1 /\ Turned(prog.funcs[k].t2)
  BY <1>1, <1>2, CallTurned
<1>4. Operands \in Seq(Values)
  BY <1>1, InnermostType
<1>5. /\ Ends(Types(Operands), prog.funcs[k].t1)
      /\ Less(Types(Operands), prog.funcs[k].t1) \o prog.funcs[k].t2 = After
  BY <1>3 DEF Turned, Ended, Before
<1>. QED BY <1>1, <1>2, <1>3, <1>4, <1>5, EnterKeeps

\* The last operand goes first, then those before it.
LEMMA EndsInTwo ==
  ASSUME NEW ts \in Seq(AnyType), NEW us \in Seq(AnyType), NEW t \in AnyType, Ends(ts, Append(us, t)),
         NEW rest, rest = SubSeq(ts, 1, Len(ts) - 1)
  PROVE  Ends(rest, us) /\ Less(rest, us) = Less(ts, Append(us, t))
<1>1. PICK n, m, v : n = Len(ts) /\ m = Len(us) /\ v = Append(us, t)
  OBVIOUS
<1>2. /\ v \in Seq(AnyType) /\ Len(v) = m + 1 /\ \A k \in 1..m : v[k] = us[k]
  BY <1>1, AppendProperties
<1>3. n \in Nat /\ m \in Nat /\ n >= m + 1 /\ SubSeq(ts, n - (m + 1) + 1, n) = v
  BY <1>1, <1>2 DEF Ends
<1>4. \A k \in 1..n : ts[k] \in AnyType
  BY <1>1, ElementOfSeq
<1>5. PICK d, a : d = n - m - 1 /\ a = n - m
  OBVIOUS
<1>6. /\ d \in Nat /\ a = d + 1 /\ n - (m + 1) + 1 = a /\ n - (m + 1) = d /\ n - 1 - m = d
      /\ n - 1 - m + 1 = a /\ n - 1 \in Nat /\ n - 1 = d + m /\ n = d + m + 1
  BY <1>3, <1>5
<1>7. \A k \in 1..m : v[k] = ts[d + k]
  <2>1. a \in Int /\ n \in Int /\ a >= 1 /\ n - a + 1 = m + 1 /\ \A k \in a..n : ts[k] \in AnyType
    BY <1>3, <1>4, <1>6
  <2>2. \A k \in 1..n - a + 1 : SubSeq(ts, a, n)[k] = ts[a + k - 1]
    BY <2>1, SubSeqProperties
  <2>3. SubSeq(ts, a, n) = v
    BY <1>3, <1>6
  <2>4. \A k \in 1..m : k \in 1..n - a + 1 /\ a + k - 1 = d + k
    BY <1>3, <1>6, <2>1
  <2>. QED BY <2>2, <2>3, <2>4
<1>8. rest \in Seq(AnyType) /\ Len(rest) = n - 1 /\ \A k \in 1..n - 1 : rest[k] = ts[k]
  <2>1. Dropped(ts, 1) = rest /\ 1 \in Nat /\ 1 <= Len(ts)
    BY <1>1, <1>3 DEF Dropped
  <2>. QED BY <1>1, <2>1, DroppedType
<1>9. Ends(rest, us)
  <2>1. PICK x : x = SubSeq(rest, a, n - 1)
    OBVIOUS
  <2>2. m <= Len(rest)
    BY <1>3, <1>6, <1>8
  <2>3. x = Kept(rest, m)
    BY <1>6, <1>8, <2>1 DEF Kept
  <2>4. x \in Seq(AnyType) /\ Len(x) = m /\ \A k \in 1..m : x[k] = rest[Len(rest) - m + k]
    BY <1>3, <1>8, <2>2, <2>3, KeptType
  <2>5. ASSUME NEW k \in 1..m
        PROVE  x[k] = us[k]
    <3>1. d + k \in 1..n - 1
      BY <1>3, <1>6
    <3>2. Len(rest) - m = d
      BY <1>3, <1>6, <1>8
    <3>3. x[k] = rest[d + k]
      BY <2>4, <3>2
    <3>4. rest[d + k] = ts[d + k]
      BY <1>8, <3>1
    <3>. QED BY <1>2, <1>7, <3>3, <3>4
  <2>6. x = us
    BY <1>1, <2>4, <2>5, SeqEqual
  <2>7. SubSeq(rest, Len(rest) - Len(us) + 1, Len(rest)) = x
    BY <1>1, <1>6, <1>8, <2>1
  <2>. QED BY <1>1, <1>8, <2>2, <2>6, <2>7 DEF Ends
<1>10. Less(rest, us) = Less(ts, v)
  <2>1. PICK x, y : x = SubSeq(rest, 1, d) /\ y = SubSeq(ts, 1, d)
    OBVIOUS
  <2>2. Less(rest, us) = x /\ Less(ts, v) = y
    BY <1>1, <1>2, <1>6, <1>8, <2>1 DEF Less
  <2>3. x \in Seq(AnyType) /\ Len(x) = d /\ \A k \in 1..d : x[k] = rest[k]
    <3>1. m \in Nat /\ m <= Len(rest) /\ Len(rest) - m = d
      BY <1>3, <1>6, <1>8
    <3>2. Dropped(rest, m) = x
      BY <2>1, <3>1 DEF Dropped
    <3>. QED BY <1>8, <3>1, <3>2, DroppedType
  <2>4. y \in Seq(AnyType) /\ Len(y) = d /\ \A k \in 1..d : y[k] = ts[k]
    <3>1. m + 1 \in Nat /\ m + 1 <= Len(ts) /\ Len(ts) - (m + 1) = d
      BY <1>1, <1>3, <1>6
    <3>2. Dropped(ts, m + 1) = y
      BY <2>1, <3>1 DEF Dropped
    <3>. QED BY <3>1, <3>2, DroppedType
  <2>5. \A k \in 1..d : rest[k] = ts[k]
    BY <1>3, <1>6, <1>8
  <2>6. x = y
    BY <2>3, <2>4, <2>5, SeqEqual
  <2>. QED BY <2>2, <2>6
<1>. QED BY <1>1, <1>9, <1>10

LEMMA TypesDropped ==
  ASSUME NEW s \in Seq(Values), NEW n \in Nat, n <= Len(s)
  PROVE  /\ Dropped(s, n) \in Seq(Values)
         /\ Types(Dropped(s, n)) = SubSeq(Types(s), 1, Len(Types(s)) - n)
<1>1. PICK d, ts, e : d = Dropped(s, n) /\ ts = Types(s) /\ e = Dropped(ts, n)
  OBVIOUS
<1>2. /\ d \in Seq(Values) /\ Len(d) = Len(s) - n /\ Len(s) - n \in Nat
      /\ \A k \in 1..Len(s) - n : d[k] = s[k]
  BY <1>1, DroppedType
<1>3. ts \in Seq(AnyType) /\ Len(ts) = Len(s) /\ \A k \in 1..Len(s) : ts[k] = s[k].valtype
  BY <1>1, TypesType
<1>4. /\ Types(d) \in Seq(AnyType) /\ Len(Types(d)) = Len(s) - n
      /\ \A k \in 1..Len(s) - n : Types(d)[k] = d[k].valtype
  BY <1>2, TypesType
<1>5. e \in Seq(AnyType) /\ Len(e) = Len(s) - n /\ \A k \in 1..Len(s) - n : e[k] = ts[k]
  <2>1. n <= Len(ts) /\ ts \in Seq(AnyType)
    BY <1>3
  <2>2. /\ Dropped(ts, n) \in Seq(AnyType) /\ Len(Dropped(ts, n)) = Len(ts) - n
        /\ \A k \in 1..Len(ts) - n : Dropped(ts, n)[k] = ts[k]
    BY <2>1, DroppedType
  <2>. QED BY <1>1, <1>3, <2>2
<1>6. ASSUME NEW k \in 1..Len(s) - n
      PROVE  Types(d)[k] = e[k]
  <2>1. k \in 1..Len(s)
    BY <1>2
  <2>. QED BY <1>2, <1>3, <1>4, <1>5, <2>1
<1>7. Types(d) = e
  BY <1>4, <1>5, <1>6, SeqEqual
<1>. QED BY <1>1, <1>2, <1>7 DEF Dropped

\* The function a table entry leads to is one of the module.
LEMMA CalleeType ==
  ASSUME IInv, NEW v \in Nat, Callable(v)
  PROVE  LET k == prog.table[v + 1].func + 1
         IN  /\ k \in 1..Len(prog.funcs)
             /\ prog.funcs[k].t1 = Fetched.t1 /\ prog.funcs[k].t2 = Fetched.t2
<1>1. prog \in Programs
  BY DEF IInv
<1>2. /\ prog.table \in Seq([initialized : BOOLEAN, func : Nat])
      /\ prog.funcs \in Seq(Func(Blocks(prog)))
      /\ \A n \in 1..Len(prog.table) : prog.table[n].initialized => prog.table[n].func < Len(prog.funcs)
  BY <1>1, CodeAssumption, TypingAssumption DEF IsProgram, Valid
<1>3. v + 1 \in 1..Len(prog.table) /\ prog.table[v + 1].initialized
  BY <1>2 DEF Callable
<1>4. prog.table[v + 1] \in [initialized : BOOLEAN, func : Nat]
  BY <1>2, <1>3, ElementOfSeq
<1>5. prog.table[v + 1].func \in Nat /\ prog.table[v + 1].func < Len(prog.funcs)
  BY <1>2, <1>3, <1>4
<1>6. prog.table[v + 1].func + 1 \in 1..Len(prog.funcs)
  <2>1. PICK f, n : f = prog.table[v + 1].func /\ n = Len(prog.funcs)
    OBVIOUS
  <2>2. f \in Nat /\ n \in Nat /\ f < n
    BY <1>2, <1>5, <2>1
  <2>3. f + 1 \in 1..n
    BY <2>2
  <2>. QED BY <2>1, <2>3
<1>. QED BY <1>6 DEF Callable

LEMMA CallIndirectKeeps ==
  ASSUME IInv, CallIndirect
  PROVE  IInv'
<1>1. PICK v, s : v = Popped(Operands, 1).val /\ s = Dropped(Operands, 1)
  OBVIOUS
<1>2. /\ Fetching /\ Fetched.op = "call_indirect" /\ contexts # << >> /\ Callable(v)
      /\ Enter(prog.funcs[prog.table[v + 1].func + 1], s)
  BY <1>1 DEF CallIndirect, At, Fetching
<1>3. PICK us : us = Append(Fetched.t1, "i32")
  OBVIOUS
<1>4. /\ Needs(Fetched) = us /\ Ended /\ Less(Before, us) \o Fetched.t2 = After
      /\ Ends(Before, us)
  BY <1>2, <1>3, CallIndirectTurned DEF Turned, Ended
<1>5. /\ Fetched.t1 \in Seq(AnyType) /\ "i32" \in AnyType /\ us \in Seq(AnyType)
      /\ Len(us) = Len(Fetched.t1) + 1 /\ Len(Fetched.t1) \in Nat
  BY <1>2, <1>3, CallIndirectTurned, ValTypeAny, AppendProperties
<1>6. v \in Nat
  <2>1. us # << >>
    BY <1>5, EmptySeq
  <2>. QED BY <1>1, <1>2, <1>4, <2>1, TopOperand
<1>7. PICK k : k = prog.table[v + 1].func + 1
  OBVIOUS
<1>8. k \in 1..Len(prog.funcs) /\ prog.funcs[k].t1 = Fetched.t1 /\ prog.funcs[k].t2 = Fetched.t2
  BY <1>2, <1>6, <1>7, CalleeType
<1>9. Operands \in Seq(Values) /\ Before \in Seq(AnyType) /\ Len(Before) = Len(Operands)
  BY <1>2, InnermostType, TypesType DEF Before
<1>10. 1 <= Len(Operands)
  <2>1. Len(Before) >= Len(us) /\ Len(Before) \in Nat
    BY <1>4, <1>9 DEF Ends
  <2>. QED BY <1>5, <1>9, <2>1
<1>11. s \in Seq(Values) /\ Types(s) = SubSeq(Before, 1, Len(Before) - 1)
  BY <1>1, <1>9, <1>10, TypesDropped DEF Before
<1>12. Ends(Types(s), Fetched.t1) /\ Less(Types(s), Fetched.t1) = Less(Before, us)
  <2>1. PICK ts, t1, r, t : ts = Before /\ t1 = Fetched.t1 /\ r = Types(s) /\ t = "i32"
    OBVIOUS
  <2>2. ts \in Seq(AnyType) /\ t1 \in Seq(AnyType) /\ t \in AnyType
    BY <1>5, <1>9, <2>1
  <2>3. Ends(ts, Append(t1, t)) /\ r = SubSeq(ts, 1, Len(ts) - 1) /\ us = Append(t1, t)
    BY <1>3, <1>4, <1>11, <2>1
  <2>4. Ends(r, t1) /\ Less(r, t1) = Less(ts, Append(t1, t))
    BY <2>2, <2>3, EndsInTwo
  <2>. QED BY <2>1, <2>3, <2>4
<1>13. /\ Ends(Types(s), prog.funcs[k].t1)
       /\ Less(Types(s), prog.funcs[k].t1) \o prog.funcs[k].t2 = After
  BY <1>4, <1>8, <1>12
<1>. QED BY <1>2, <1>7, <1>8, <1>11, <1>13, EnterKeeps

LEMMA TrapKeeps ==
  ASSUME IInv, Trap
  PROVE  IInv'
<1>1. contexts' = << >> /\ prog' = prog /\ globals' = globals
  BY DEF Trap
<1>. QED BY <1>1, NoContexts, KeepIInv

----------------------------------------------------------------------------
(* The host *)

LEMMA InvokeKeeps ==
  ASSUME IInv, Invoke
  PROVE  IInv'
<1>1. PICK e \in prog.exports :
        \E args \in [1..Len(prog.funcs[e + 1].t1) -> Val] :
          contexts' = <<FuncContext(prog.funcs[e + 1],
                          [n \in 1..Len(prog.funcs[e + 1].t1) |-> Value(prog.funcs[e + 1].t1[n], args[n])])>>
  BY DEF Invoke
<1>2. prog \in Programs
  BY DEF IInv
<1>3. prog.exports \subseteq 0..Len(prog.funcs) - 1 /\ prog.funcs \in Seq(Func(Blocks(prog)))
  BY <1>2, CodeAssumption DEF IsProgram
<1>4. PICK k : k = e + 1
  OBVIOUS
<1>5. k \in 1..Len(prog.funcs)
  BY <1>3, <1>4
<1>6. PICK ts : ts = prog.funcs[k].t1
  OBVIOUS
<1>7. prog.funcs[k] \in Func(Blocks(prog))
  BY <1>3, <1>5, ElementOfSeq
<1>8. ts \in Seq(AnyType) /\ Len(ts) \in Nat
  BY <1>6, <1>7, ValTypeAny DEF Func
<1>9. PICK args \in [1..Len(ts) -> Val] :
        contexts' = <<FuncContext(prog.funcs[k], [n \in 1..Len(ts) |-> Value(ts[n], args[n])])>>
  BY <1>1, <1>4, <1>6
<1>10. PICK s : s = [n \in 1..Len(ts) |-> Value(ts[n], args[n])]
  OBVIOUS
<1>11. ASSUME NEW n \in 1..Len(ts)
       PROVE  Value(ts[n], args[n]) \in Values /\ Value(ts[n], args[n]).valtype = ts[n]
  <2>1. ts[n] \in AnyType /\ args[n] \in Val
    BY <1>8, ElementOfSeq
  <2>. QED BY <2>1 DEF Value, Values
<1>12. s \in Seq(Values) /\ Len(s) = Len(ts) /\ \A n \in 1..Len(ts) : s[n].valtype = ts[n]
  <2>1. s \in Seq(Values)
    BY <1>8, <1>10, <1>11, IsASeq
  <2>. QED BY <1>8, <1>10, <1>11, <2>1
<1>13. Types(s) = ts
  <2>1. /\ Types(s) \in Seq(AnyType) /\ Len(Types(s)) = Len(ts)
        /\ \A n \in 1..Len(ts) : Types(s)[n] = ts[n]
    BY <1>12, TypesType
  <2>. QED BY <1>8, <2>1, SeqEqual
<1>14. Good(prog, <<FuncContext(prog.funcs[k], s)>>, << >>)
  BY <1>2, <1>5, <1>6, <1>12, <1>13, FirstContext
<1>15. contexts' = <<FuncContext(prog.funcs[k], s)>> /\ prog' = prog /\ globals' = globals
  BY <1>9, <1>10 DEF Invoke
<1>. QED BY <1>14, <1>15, KeepIInv

LEMMA StutterKeeps ==
  ASSUME IInv, prog' = prog, contexts' = contexts, globals' = globals
  PROVE  IInv'
  BY DEF IInv

LEMMA InitIInv ==
  ASSUME Init
  PROVE  IInv
<1>1. prog \in Programs /\ globals = prog.globals
  BY DEF Init, Instantiated
<1>2. GlobalsTyped(prog, globals)
  BY <1>1, ProgramType DEF GlobalsTyped
<1>3. Good(prog, contexts, << >>)
  <2>1. CASE prog.start = << >>
    BY <2>1, NoContexts DEF Init, Instantiated
  <2>2. CASE prog.start # << >>
    <3>1. /\ prog.start \in Seq(Nat) /\ prog.funcs \in Seq(Func(Blocks(prog)))
          /\ \A n \in 1..Len(prog.start) :
               prog.start[n] < Len(prog.funcs) /\ prog.funcs[prog.start[n] + 1].t1 = << >>
      BY <1>1, CodeAssumption DEF IsProgram
    <3>2. 1 \in 1..Len(prog.start)
      BY <2>2, <3>1, EmptySeq
    <3>3. prog.start[1] \in Nat /\ prog.start[1] < Len(prog.funcs)
          /\ prog.funcs[prog.start[1] + 1].t1 = << >>
      BY <3>1, <3>2, ElementOfSeq
    <3>4. PICK k, args : k = prog.start[1] + 1 /\ args = << >>
      OBVIOUS
    <3>5. k \in 1..Len(prog.funcs)
      BY <3>1, <3>3, <3>4
    <3>6. args \in Seq(Values) /\ Types(args) = prog.funcs[k].t1
      BY <3>3, <3>4, TypesNone
    <3>7. Good(prog, <<FuncContext(prog.funcs[k], args)>>, << >>)
      BY <1>1, <3>5, <3>6, FirstContext
    <3>8. contexts = <<FuncContext(prog.funcs[k], args)>>
      BY <2>2, <3>4 DEF Init, Instantiated
    <3>. QED BY <3>7, <3>8
  <2>. QED BY <2>1, <2>2
<1>. QED BY <1>1, <1>2, <1>3 DEF IInv

LEMMA Inductive == IInv /\ [Next]_vars => IInv'
<1>. SUFFICES ASSUME IInv, [Next]_vars PROVE IInv'
  OBVIOUS
<1>1. CASE Const \/ Compute \/ Discard \/ Select
  BY <1>1, ConstKeeps, ComputeKeeps, DiscardKeeps, SelectKeeps
<1>2. CASE LocalGet \/ LocalSet \/ GlobalGet \/ GlobalSet
  BY <1>2, LocalGetKeeps, LocalSetKeeps, GlobalGetKeeps, GlobalSetKeeps
<1>3. CASE EnterBlock \/ EnterLoop \/ EnterThen \/ EnterElse \/ SkipIf \/ End
  BY <1>3, EnterBlockKeeps, SkipIfKeeps, EndKeeps
<1>4. CASE Br \/ BrIf \/ NotBrIf \/ BrTable \/ Return
  BY <1>4, BrKeeps, NotBrIfKeeps, BrTableKeeps, ReturnKeeps
<1>5. CASE Call \/ CallIndirect \/ Trap \/ Invoke
  BY <1>5, CallKeeps, CallIndirectKeeps, TrapKeeps, InvokeKeeps
<1>6. CASE InvokeUnknown \/ Finish
  BY <1>6, StutterKeeps DEF InvokeUnknown, Finish
<1>7. CASE UNCHANGED vars
  BY <1>7, StutterKeeps DEF vars
<1>. QED BY <1>1, <1>2, <1>3, <1>4, <1>5, <1>6, <1>7 DEF Next

----------------------------------------------------------------------------
(* What a call leaves to its caller *)

\* A call that is to leave results of the types d has not left anything before
\* its last context is gone, and then just those.
Owes(d) == IF contexts = << >> THEN Types(results) = d
           ELSE results = << >> /\ contexts[1].result = d

First(cs) == cs # << >> /\ cs[1].result = contexts[1].result

LEMMA OwesFirst ==
  ASSUME NEW d, Owes(d), contexts # << >>, results' = results, First(contexts')
  PROVE  Owes(d)'
  BY DEF Owes, First

\* The contexts, or some of them, with the one at n replaced.
LEMMA FirstReplaced ==
  ASSUME NEW S, contexts \in Seq(S), NEW n \in 1..Len(contexts),
         NEW c, c.result = contexts[n].result
  PROVE  First([SubSeq(contexts, 1, n) EXCEPT ![n] = c])
<1>1. PICK t, T : t = SubSeq(contexts, 1, n) /\ T = S \cup {c}
  OBVIOUS
<1>2. t \in Seq(T) /\ Len(t) = n /\ \A k \in 1..n : t[k] = contexts[k]
  BY <1>1, SubSeqProperties
<1>3. PICK u : u = [t EXCEPT ![n] = c]
  OBVIOUS
<1>4. Len(u) = n /\ \A k \in 1..n : u[k] = IF k = n THEN c ELSE t[k]
  <2>1. n \in 1..Len(t) /\ c \in T
    BY <1>1, <1>2
  <2>. QED BY <1>2, <1>3, <2>1, ExceptSeq

<1>5. 1 \in 1..n
  OBVIOUS
<1>6. u # << >> /\ u[1].result = contexts[1].result
  BY <1>2, <1>4, <1>5
<1>. QED BY <1>1, <1>3, <1>6 DEF First

\* The innermost context goes on, with one more above it or none.
LEMMA FirstOnward ==
  ASSUME IInv, contexts # << >>, NEW o, NEW c
  PROVE  First(Onward(o)) /\ First(Append(Onward(o), c))
<1>1. PICK d, T : /\ d = [Innermost EXCEPT !.ip = Innermost.ip + 1, !.operands = o]
                  /\ T = Context(prog) \cup {d, c}
  OBVIOUS
<1>2. /\ contexts \in Seq(Context(prog)) /\ Innermost \in Context(prog)
      /\ Depth = Len(contexts) /\ Depth \in 1..Depth /\ Innermost = contexts[Depth]
  BY InnermostType DEF Depth, Innermost
<1>3. d.result = Innermost.result
  BY <1>1, <1>2 DEF Context
<1>4. PICK u : u = Onward(o)
  OBVIOUS
<1>5. u = [contexts EXCEPT ![Depth] = d] /\ contexts \in Seq(T) /\ d \in T /\ c \in T
  BY <1>1, <1>2, <1>4 DEF Onward
<1>6. u \in Seq(T) /\ Len(u) = Depth /\ \A k \in 1..Depth : u[k] = IF k = Depth THEN d ELSE contexts[k]
  BY <1>2, <1>5, ExceptSeq
<1>7. 1 \in 1..Depth
  BY <1>2
<1>8. u # << >> /\ u[1].result = contexts[1].result
  BY <1>2, <1>3, <1>6, <1>7
<1>9. Append(u, c) # << >> /\ Append(u, c)[1] = u[1]
  BY <1>5, <1>6, <1>7, AppendProperties
<1>. QED BY <1>4, <1>8, <1>9 DEF First

LEMMA LeavesOwes ==
  ASSUME IInv, contexts # << >>, NEW d, Owes(d), Leaves
  PROVE  Owes(d)'
<1>1. PICK n \in 0..Depth - 1, values \in Seq(Values) :
        Types(values) = contexts[n + 1].result /\ LeaveTo(n, values)
  BY DEF Leaves
<1>2. contexts \in Seq(Context(prog)) /\ Depth = Len(contexts) /\ Depth \in Nat \ {0}
  BY InnermostType DEF Depth
<1>3. CASE n = 0
  BY <1>1, <1>3 DEF LeaveTo, Owes, Types
<1>4. CASE n # 0
  <2>1. PICK c : c = [contexts[n] EXCEPT !.operands = contexts[n].operands \o values]
    OBVIOUS
  <2>2. n \in 1..Len(contexts) /\ contexts[n] \in Context(prog)
    BY <1>2, <1>4, ElementOfSeq
  <2>3. c.result = contexts[n].result
    BY <2>1, <2>2 DEF Context
  <2>4. First([SubSeq(contexts, 1, n) EXCEPT ![n] = c])
    BY <1>2, <2>2, <2>3, FirstReplaced
  <2>5. contexts' = [SubSeq(contexts, 1, n) EXCEPT ![n] = c] /\ results' = results
    BY <1>1, <1>4, <2>1 DEF LeaveTo
  <2>. QED BY <2>4, <2>5, OwesFirst
<1>. QED BY <1>3, <1>4

LEMMA BranchOwes ==
  ASSUME IInv, Fetching, Fetched.op \in {"br", "br_if", "br_table"}, NEW l \in Labels(Fetched), Branch(l),
         NEW d, Owes(d)
  PROVE  Owes(d)'
<1>1. Depth - l \in 1..Depth /\ contexts # << >> /\ contexts \in Seq(Context(prog))
  BY TargetType, FetchedTyped, InnermostType
<1>2. CASE contexts[Depth - l].kind # "loop"
  <2>1. Leaves
    BY <1>2, BranchLeaves
  <2>. QED BY <1>1, <2>1, LeavesOwes
<1>3. CASE contexts[Depth - l].kind = "loop"
  <2>1. PICK t, c : t = Depth - l /\ c = [contexts[t] EXCEPT !.ip = 0, !.operands = << >>]
    OBVIOUS
  <2>2. t \in 1..Len(contexts) /\ contexts[t] \in Context(prog)
    BY <1>1, <2>1, ElementOfSeq DEF Depth
  <2>3. c.result = contexts[t].result
    BY <2>1, <2>2 DEF Context
  <2>4. First([SubSeq(contexts, 1, t) EXCEPT ![t] = c])
    BY <1>1, <2>2, <2>3, FirstReplaced
  <2>5. contexts' = [SubSeq(contexts, 1, t) EXCEPT ![t] = c] /\ results' = results
    BY <1>3, <2>1 DEF Branch
  <2>. QED BY <1>1, <2>4, <2>5, OwesFirst
<1>. QED BY <1>2, <1>3

LEMMA LocalSetOwes ==
  ASSUME IInv, LocalSet, NEW d, Owes(d)
  PROVE  Owes(d)'
<1>1. Fetching /\ results' = results /\ contexts # << >>
  BY DEF LocalSet, At, Fetching
<1>2. PICK u, a, i, v : /\ u = Onward(IF Fetched.op = "local.set" THEN Rest ELSE Operands)
                        /\ a = Activation /\ i = Fetched.idx + 1 /\ v = Popped(Operands, 1)
  OBVIOUS
<1>3. First(u) /\ contexts' = [u EXCEPT ![a].locals[i] = v]
  BY <1>1, <1>2, FirstOnward DEF LocalSet
<1>4. DOMAIN contexts' = DOMAIN u /\ contexts'[1].result = u[1].result
  <2>1. PICK e : e = [u[a].locals EXCEPT ![i] = v]
    OBVIOUS
  <2>2. contexts' = [u EXCEPT ![a] = [u[a] EXCEPT !.locals = e]]
    BY <1>3, <2>1
  <2>. QED BY <2>2
<1>. QED BY <1>1, <1>3, <1>4, OwesFirst DEF First

LEMMA OwesKept ==
  ASSUME IInv, NEW d, Owes(d), Next, Running, Running', mode' = mode
  PROVE  Owes(d)'
<1>1. ASSUME NEW o, NEW c, contexts # << >>, results' = results,
             contexts' = Onward(o) \/ contexts' = Append(Onward(o), c)
      PROVE  Owes(d)'
  BY <1>1, FirstOnward, OwesFirst
<1>2. CASE \/ Const \/ Compute \/ Discard \/ Select \/ LocalGet \/ GlobalGet \/ GlobalSet
           \/ SkipIf \/ NotBrIf
  <2>1. Fetching /\ \E vs : Push(vs)
    BY <1>2 DEF Const, Compute, Discard, Select, LocalGet, GlobalGet, GlobalSet, SkipIf, NotBrIf, At
  <2>. QED BY <1>1, <2>1 DEF Push, Fetching
<1>3. CASE LocalSet
  BY <1>3, LocalSetOwes
<1>4. CASE EnterBlock \/ EnterLoop \/ EnterThen \/ EnterElse
  <2>1. Fetching /\ \E body, kind : Open(body, kind)
    BY <1>4 DEF EnterBlock, EnterLoop, EnterThen, EnterElse, At
  <2>. QED BY <1>1, <2>1 DEF Open, Fetching
<1>5. CASE Call \/ CallIndirect
  <2>1. Fetching /\ \E f, s : Enter(f, s)
    BY <1>5 DEF Call, CallIndirect, At
  <2>. QED BY <1>1, <2>1 DEF Enter, Fetching
<1>6. CASE End \/ Return
  <2>1. contexts # << >> /\ Leaves
    BY <1>6, EndLeaves, ReturnLeaves DEF End, Return, At, Fetching
  <2>. QED BY <2>1, LeavesOwes
<1>7. CASE Br \/ BrIf
  <2>1. Fetching /\ Fetched.op \in {"br", "br_if"} /\ Branch(Fetched.label)
    BY <1>7 DEF Br, BrIf, At
  <2>2. Fetched.label \in Labels(Fetched)
    BY <2>1 DEF Labels
  <2>. QED BY <2>1, <2>2, BranchOwes
<1>8. CASE BrTable
  BY <1>8, BrTableBranches, BranchOwes
<1>9. CASE Trap \/ Invoke \/ InvokeUnknown \/ Finish
  BY <1>9 DEF Trap, Invoke, InvokeUnknown, Finish, Running
<1>. QED BY <1>2, <1>3, <1>4, <1>5, <1>6, <1>7, <1>8, <1>9 DEF Next

----------------------------------------------------------------------------
(* The theorems *)

LEMMA IInvHolds == Spec => []IInv
  BY InitIInv, Inductive, PTL DEF Spec

\* Every context, suspended or not, has exactly the operands its next
\* instruction was validated against: what the typed pops of the opcode
\* handlers assume, for every valid module and not only for the runs'.
THEOREM OperandsTyped == Spec => []OperandsMatchTyping
<1>1. Spec => []IInv
  BY IInvHolds
<1>. QED BY <1>1, IInvImplies, PTL

\* The labels a block was validated with are the contexts below it, so that a
\* branch by depth ends where the nesting of the blocks says.
THEOREM LabelsAlive == Spec => []LabelsMatchContexts
<1>1. Spec => []IInv
  BY IInvHolds
<1>. QED BY <1>1, IInvImplies, PTL

\* A valid module never gets stuck: whenever an instruction is fetched, it
\* finds its operands with their types, its local, global or function and its
\* branch targets, and a block that ends has exactly its result.
THEOREM Soundness == Spec => []NeverStuck
<1>1. Spec => []IInv
  BY IInvHolds
<1>. QED BY <1>1, IInvNeverStuck, PTL
=============================================================================
