---------------------------- MODULE ParserProofs ----------------------------
(***************************************************************************)
(* Which sections a module is made of, for every file.                     *)
(***************************************************************************)
EXTENDS Parser, SequenceTheorems, WellFoundedInduction, TLAPS

\* A sequence of whatever there is.
IsSeq(s) == \E S : s \in Seq(S)

LEMMA EmptyIsSeq == IsSeq(<< >>)
BY << >> \in Seq({}) DEF IsSeq

\* Appending to a sequence.
LEMMA AppendIsSeq ==
  ASSUME NEW s, NEW v, IsSeq(s)
  PROVE  /\ IsSeq(Append(s, v))
         /\ Len(s) \in Nat /\ Len(Append(s, v)) = Len(s) + 1
         /\ Append(s, v)[Len(s) + 1] = v
         /\ \A i \in 1..Len(s) : Append(s, v)[i] = s[i]
<1>1. PICK S : s \in Seq(S)
  BY DEF IsSeq
<1>2. s \in Seq(S \cup {v}) /\ v \in S \cup {v}
  BY <1>1, SeqMonotonic
<1>3. Append(s, v) \in Seq(S \cup {v})
  BY <1>2
<1>4. IsSeq(Append(s, v))
  BY <1>3 DEF IsSeq
<1> QED
  BY <1>1, <1>2, <1>4

\* What is left without the last.
LEMMA FrontIsSeq ==
  ASSUME NEW s, NEW n \in Nat, IsSeq(s), n <= Len(s)
  PROVE  /\ IsSeq(SubSeq(s, 1, n)) /\ Len(SubSeq(s, 1, n)) = n
         /\ \A i \in 1..n : SubSeq(s, 1, n)[i] = s[i]
<1>1. PICK S : s \in Seq(S)
  BY DEF IsSeq
<1>2. SubSeq(s, 1, n) \in Seq(S)
  BY <1>1, SubSeqProperties
<1>3. IsSeq(SubSeq(s, 1, n))
  BY <1>2 DEF IsSeq
<1> QED
  BY <1>1, <1>3, SubSeqProperties

----------------------------------------------------------------------------
(* The C stack while a section is read *)

IsStack(cs) == IsSeq(cs) /\ \A k \in 1..Len(cs) : IsSeq(cs[k].read)

\* Everything but the last.
Under(cs) == SubSeq(cs, 1, Len(cs) - 1)

Changed(cs, f) == Append(Under(cs), f)
Called(cs, f)  == Append(cs, f)
Returned(cs, f) == Append(SubSeq(cs, 1, Len(cs) - 2), f)

\* The first n frames are the same.
SameBelow(cs, ds, n) == \A k \in 1..n : cs[k] = ds[k]

\* The function on top changes.
LEMMA TopChanges ==
  ASSUME NEW cs, IsStack(cs), Len(cs) >= 1, NEW f, IsSeq(f.read)
  PROVE  /\ IsStack(Changed(cs, f)) /\ Len(cs) \in Nat
         /\ Len(Changed(cs, f)) = Len(cs) /\ Changed(cs, f)[Len(cs)] = f
         /\ SameBelow(Changed(cs, f), cs, Len(cs) - 1)
<1>1. IsSeq(cs) /\ Len(cs) \in Nat
  BY AppendIsSeq DEF IsStack
<1>2. PICK n \in Nat : n = Len(cs) - 1
  BY <1>1
<1>3. /\ IsSeq(Under(cs)) /\ Len(Under(cs)) = n
      /\ \A i \in 1..n : Under(cs)[i] = cs[i]
  BY <1>1, <1>2, FrontIsSeq DEF Under
<1> DEFINE ds == Append(Under(cs), f)
<1>4. IsSeq(ds) /\ Len(ds) = n + 1 /\ ds[n + 1] = f /\ \A i \in 1..n : ds[i] = cs[i]
  BY <1>3, AppendIsSeq
<1> HIDE DEF ds
<1>5. \A k \in 1..Len(ds) : IsSeq(ds[k].read)
  <2> SUFFICES ASSUME NEW k \in 1..Len(ds) PROVE IsSeq(ds[k].read)
    OBVIOUS
  <2>1. CASE k = n + 1
    BY <1>4, <2>1
  <2>2. CASE k # n + 1
    <3>1. k \in 1..n /\ k \in 1..Len(cs)
      BY <1>1, <1>2, <1>4, <2>2
    <3> QED
      BY <1>4, <3>1 DEF IsStack
  <2> QED
    BY <2>1, <2>2
<1> QED
  BY <1>1, <1>2, <1>4, <1>5 DEF IsStack, ds, Changed, SameBelow

\* A function is called.
LEMMA TopCalls ==
  ASSUME NEW cs, IsStack(cs), NEW f, IsSeq(f.read)
  PROVE  /\ IsStack(Called(cs, f)) /\ Len(cs) \in Nat
         /\ Len(Called(cs, f)) = Len(cs) + 1 /\ Called(cs, f)[Len(cs) + 1] = f
         /\ SameBelow(Called(cs, f), cs, Len(cs))
<1> DEFINE ds == Append(cs, f)
<1>1. /\ IsSeq(ds) /\ Len(cs) \in Nat /\ Len(ds) = Len(cs) + 1 /\ ds[Len(cs) + 1] = f
      /\ \A i \in 1..Len(cs) : ds[i] = cs[i]
  BY AppendIsSeq DEF IsStack
<1> HIDE DEF ds
<1>2. \A k \in 1..Len(ds) : IsSeq(ds[k].read)
  <2> SUFFICES ASSUME NEW k \in 1..Len(ds) PROVE IsSeq(ds[k].read)
    OBVIOUS
  <2>1. CASE k = Len(cs) + 1
    BY <1>1, <2>1
  <2>2. CASE k # Len(cs) + 1
    <3>1. k \in 1..Len(cs)
      BY <1>1, <2>2
    <3> QED
      BY <1>1, <3>1 DEF IsStack
  <2> QED
    BY <2>1, <2>2
<1> QED
  BY <1>1, <1>2 DEF IsStack, ds, Called, SameBelow

\* The function on top returns to its caller.
LEMMA TopReturns ==
  ASSUME NEW cs, IsStack(cs), Len(cs) >= 2, NEW f, IsSeq(f.read)
  PROVE  /\ IsStack(Returned(cs, f)) /\ Len(cs) \in Nat
         /\ Len(Returned(cs, f)) = Len(cs) - 1 /\ Returned(cs, f)[Len(cs) - 1] = f
         /\ SameBelow(Returned(cs, f), cs, Len(cs) - 2)
<1>1. IsSeq(cs) /\ Len(cs) \in Nat
  BY AppendIsSeq DEF IsStack
<1>2. PICK n \in Nat : n = Len(cs) - 2
  BY <1>1
<1> DEFINE es == SubSeq(cs, 1, Len(cs) - 2)
           ds == Append(es, f)
<1>3. IsSeq(es) /\ Len(es) = n /\ \A i \in 1..n : es[i] = cs[i]
  BY <1>1, <1>2, FrontIsSeq
<1> HIDE DEF es
<1>4. IsStack(es)
  <2>1. \A k \in 1..n : k \in 1..Len(cs)
    BY <1>1, <1>2
  <2> QED
    BY <1>3, <2>1 DEF IsStack
<1>5. /\ IsStack(ds) /\ Len(ds) = n + 1 /\ ds[n + 1] = f
      /\ \A k \in 1..n : ds[k] = cs[k]
  BY <1>3, <1>4, TopCalls DEF Called, SameBelow
<1> HIDE DEF ds
<1>6. Len(cs) - 1 = n + 1
  BY <1>1, <1>2
<1> QED
  BY <1>1, <1>2, <1>5, <1>6 DEF ds, es, Returned, SameBelow

\* Top.read, with a value more or as it is, stays a sequence.
LEMMA TopFrame ==
  ASSUME IsStack(calls), Len(calls) >= 1
  PROVE  /\ IsSeq(Top.read) /\ Below = Under(calls)
         /\ \A gs, v : IsSeq(Frame(gs, Append(Top.read, v)).read) /\ IsSeq(Frame(gs, Top.read).read)
<1>1. Len(calls) \in 1..Len(calls)
  BY AppendIsSeq DEF IsStack
<1>2. IsSeq(Top.read)
  BY <1>1 DEF IsStack, Top
<1> QED
  BY <1>2, AppendIsSeq DEF Frame, Below, Under

\* A next_ function reads something, or calls another one.
Goes(f)     == IsSeq(f.read) /\ calls' = Changed(calls, f)
Calls(f, g) == IsSeq(f.read) /\ IsSeq(g.read) /\ calls' = Called(Changed(calls, f), g)

LEMMA GotGoes ==
  ASSUME IsStack(calls), Len(calls) >= 1, NEW v, calls' = Got(v)
  PROVE  \E f : Goes(f)
<1>1. Goes(Frame(Tail(Top.todo), Append(Top.read, v)))
  BY TopFrame DEF Got, Goes, Changed
<1> QED
  BY <1>1

LEMMA InsteadGoes ==
  ASSUME IsStack(calls), Len(calls) >= 1, NEW gs, calls' = Instead(gs)
  PROVE  \E f : Goes(f)
<1>1. Goes(Frame(gs \o Tail(Top.todo), Top.read))
  BY TopFrame DEF Instead, Goes, Changed
<1> QED
  BY <1>1

LEMMA EnterCalls ==
  ASSUME IsStack(calls), Len(calls) >= 1, NEW gs, NEW vs, IsSeq(vs), calls' = Enter(gs, vs)
  PROVE  \E f, g : Calls(f, g)
<1>1. Calls(Frame(Tail(Top.todo), Top.read), Frame(gs, vs))
  BY TopFrame DEF Enter, Calls, Frame, Changed, Called
<1> QED
  BY <1>1

LEMMA OneIsSeq == ASSUME NEW v PROVE IsSeq(<<v>>)
<1>1. <<v>> \in Seq({v})
  OBVIOUS
<1> QED
  BY <1>1 DEF IsSeq

\* What a step inside of a section may do to the stack.
LEMMA StepForms ==
  ASSUME phase = "section", phase' = "section", Step, IsStack(calls), Len(calls) >= 1
  PROVE  /\ sections' = sections /\ module' = module
         /\ \/ Return
            \/ Reading /\ \E f : Goes(f)
            \/ Reading /\ \E f, g : Calls(f, g)
<1>1. CASE ReadU32
  BY <1>1, GotGoes DEF ReadU32, At, Doing, Keep
<1>2. CASE ReadRaw
  <2>1. PICK v : calls' = Got(v)
    BY <1>2 DEF ReadRaw
  <2> QED
    BY <1>2, <2>1, GotGoes DEF ReadRaw, At, Doing, Keep
<1>3. CASE Select
  <2>1. Peek \in Accepts[Now.on]
    BY <1>3 DEF Select, Throw
  <2>2. calls' = Enter(Follows(Now.on, Peek), <<Peek>>) /\ Keep /\ Reading
    BY <1>3, <2>1 DEF Select, At, Doing
  <2>3. \E f, g : Calls(f, g)
    BY <2>2, EnterCalls, OneIsSeq
  <2> QED
    BY <2>2, <2>3 DEF Keep
<1>4. CASE Skip
  BY <1>4, GotGoes DEF Skip, At, Doing, Keep
<1>5. CASE ReadCount
  <2>1. calls' = Enter(<<[do |-> "items", of |-> Now.of, left |-> Peek]>>, << >>) /\ Keep /\ Reading
    BY <1>5 DEF ReadCount, At, Doing
  <2>2. \E f, g : Calls(f, g)
    BY <2>1, EnterCalls, EmptyIsSeq
  <2> QED
    BY <2>1, <2>2 DEF Keep
<1>6. CASE NextItem
  <2>1. PICK gs : calls' = Instead(gs)
    BY <1>6 DEF NextItem
  <2> QED
    BY <1>6, <2>1, InsteadGoes DEF NextItem, Doing, Keep
<1>7. CASE Begin
  <2>1. calls' = Enter(Now.parts, << >>) /\ Keep /\ Reading
    BY <1>7 DEF Begin, Doing
  <2>2. \E f, g : Calls(f, g)
    BY <2>1, EnterCalls, EmptyIsSeq
  <2> QED
    BY <2>1, <2>2 DEF Keep
<1>8. CASE Return
  BY <1>8 DEF Return, Keep
<1>9. CASE NextInstruction
  <2>1. PICK gs : calls' = Instead(gs)
    BY <1>9 DEF NextInstruction
  <2> QED
    BY <1>9, <2>1, InsteadGoes DEF NextInstruction, At, Doing, Keep
<1>10. CASE ReadEnd
  BY <1>10, InsteadGoes DEF ReadEnd, At, Doing, Keep
<1>11. CASE ReadElse
  <2>1. Keep /\ Reading
    BY <1>11 DEF ReadElse, At, Doing
  <2>2. CASE Peek = OP_ELSE
    BY <1>11, <2>1, <2>2, InsteadGoes DEF ReadElse, Keep
  <2>3. CASE Peek # OP_ELSE
    BY <1>11, <2>1, <2>3, GotGoes DEF ReadElse, Keep
  <2> QED
    BY <2>2, <2>3
<1>12. ~(CheckMagic \/ CheckVersion \/ NextSection \/ EndOfFile \/ Overflow \/ StoreSection \/ AssignTypes)
  BY DEF CheckMagic, CheckVersion, NextSection, EndOfFile, Overflow, StoreSection, AssignTypes, Throw
<1> QED
  BY <1>1, <1>2, <1>3, <1>4, <1>5, <1>6, <1>7, <1>8, <1>9, <1>10, <1>11, <1>12 DEF Step

----------------------------------------------------------------------------
(* How far next_section is *)

\* What next_section has read: n things, the first of them the identifier.
HasRead(r, n) == IsSeq(r) /\ Len(r) = n /\ r[1] \in 0..11
IsSection(s)  == s[1] \in 0..11 /\ (s[1] \notin {CUSTOM, START} => IsSeq(s[3]))

\* _parse waits for next_section, and that for the function above it.
Awaited(cs) == cs[1] = Frame(<< >>, << >>)

AtId(cs)      == Len(cs) = 1 /\ cs[1] = Frame(<<On("section")>>, << >>)
AtSize(cs)    == /\ Len(cs) = 2 /\ Awaited(cs)
                 /\ HasRead(cs[2].read, 1) /\ cs[2].todo = <<U32, Content(cs[2].read[1])>>
AtContent(cs) == /\ Len(cs) = 2 /\ Awaited(cs)
                 /\ HasRead(cs[2].read, 2) /\ cs[2].todo = <<Content(cs[2].read[1])>>
InContent(cs) == /\ Len(cs) >= 3 /\ Awaited(cs)
                 /\ HasRead(cs[2].read, 2) /\ cs[2].todo = << >>
AtEnd(cs)     == /\ Len(cs) = 2 /\ Awaited(cs)
                 /\ IsSection(cs[2].read) /\ cs[2].todo = << >>
Complete(cs)  == Len(cs) = 1 /\ IsSection(cs[1].read[1]) /\ cs[1].todo = << >>

Stage(cs) == AtId(cs) \/ AtSize(cs) \/ AtContent(cs) \/ InContent(cs) \/ AtEnd(cs) \/ Complete(cs)

\* A section is skipped, or a number, or a vector.
LEMMA ContentKinds ==
  ASSUME NEW b \in 0..11
  PROVE  \/ b = CUSTOM /\ Content(b).do = "skip"
         \/ b = START /\ Content(b).do = "u32"
         \/ b \notin {CUSTOM, START} /\ Content(b).do = "vec"
BY DEF Content, CUSTOM, TYPE, IMPORT, FUNCTION, TABLE, MEMORY, GLOBAL, EXPORT, START, ELEMENT, CODE, DATA,
       VecOf, U32, Skipped

\* What a function that is about to read something of one kind does.
LEMMA ReadsOnly ==
  ASSUME phase = "section", phase' = "section", Step, Reading
  PROVE  /\ Now.do = "choose" => Select
         /\ Now.do = "u32" => ReadU32
         /\ Now.do = "skip" => Skip
         /\ Now.do = "vec" => ReadCount
BY DEF Step, CheckMagic, CheckVersion, NextSection, EndOfFile, Overflow, ReadU32, ReadRaw, Select, Skip,
       ReadCount, NextItem, Begin, Return, NextInstruction, ReadEnd, ReadElse, StoreSection, AssignTypes,
       Throw, At, Doing, Reading

\* One thing more has been read.
LEMMA ReadsMore ==
  ASSUME NEW r, NEW n \in Nat \ {0}, HasRead(r, n), NEW v
  PROVE  HasRead(Append(r, v), n + 1) /\ Append(r, v)[1] = r[1] /\ Append(r, v)[n + 1] = v
<1>1. 1 \in 1..n
  OBVIOUS
<1> QED
  BY <1>1, AppendIsSeq DEF HasRead

\* The identifier is read, and decides what else is.
LEMMA IdStep ==
  ASSUME phase = "section", phase' = "section", Step, IsStack(calls), AtId(calls)
  PROVE  AtSize(calls')
<1>1. Len(calls) = 1 /\ Top = Frame(<<On("section")>>, << >>) /\ calls # << >>
  BY DEF AtId, Top
<1>2. Top.todo # << >> /\ Now = On("section") /\ Tail(Top.todo) = << >> /\ Top.read = << >>
  BY <1>1 DEF Frame, Now
<1>3. Select
  BY <1>1, <1>2, ReadsOnly DEF Reading, On
<1>4. PICK b \in 0..11 : calls' = Enter(Follows("section", b), <<b>>)
  <2>1. Now.on = "section" /\ Accepts["section"] = 0..11
    BY <1>2 DEF On, Accepts
  <2> QED
    BY <1>3, <2>1 DEF Select, Throw
<1> DEFINE f == Frame(<< >>, << >>)
           g == Frame(<<U32, Content(b)>>, <<b>>)
<1>5. calls' = Called(Changed(calls, f), g)
  BY <1>2, <1>4 DEF Enter, Follows, Below, Under, Called, Changed
<1>6. /\ IsSeq(f.read) /\ IsSeq(g.read) /\ HasRead(g.read, 1)
      /\ g.todo = <<U32, Content(g.read[1])>>
  <2>1. Len(<<b>>) = 1 /\ (<<b>>)[1] = b
    OBVIOUS
  <2> QED
    BY <2>1, EmptyIsSeq, OneIsSeq DEF Frame, HasRead
<1> HIDE DEF g
<1>7. IsStack(Changed(calls, f)) /\ Len(Changed(calls, f)) = 1 /\ Changed(calls, f)[1] = f
  BY <1>1, <1>6, TopChanges
<1>8. Len(calls') = 2 /\ calls'[2] = g /\ SameBelow(calls', Changed(calls, f), 1)
  <2>1. PICK ds : ds = Changed(calls, f)
    OBVIOUS
  <2>2. IsStack(ds) /\ Len(ds) = 1 /\ 1 + 1 = 2
    BY <1>7, <2>1
  <2>3. /\ Len(Called(ds, g)) = Len(ds) + 1 /\ Called(ds, g)[Len(ds) + 1] = g
        /\ SameBelow(Called(ds, g), ds, Len(ds))
    BY <1>6, <2>2, TopCalls
  <2> QED
    BY <1>5, <2>1, <2>2, <2>3
<1>9. calls'[1] = f
  BY <1>7, <1>8 DEF SameBelow
<1> QED
  BY <1>6, <1>8, <1>9 DEF AtSize, Awaited

\* The size is read.
LEMMA SizeStep ==
  ASSUME phase = "section", phase' = "section", Step, IsStack(calls), AtSize(calls)
  PROVE  AtContent(calls')
<1>1. Len(calls) = 2 /\ Top = calls[2] /\ calls # << >>
  BY DEF AtSize, Top
<1>2. PICK b : b = Top.read[1]
  OBVIOUS
<1>3. /\ Top.todo = <<U32, Content(b)>> /\ HasRead(Top.read, 1)
      /\ Top.todo # << >> /\ Now = U32 /\ Tail(Top.todo) = <<Content(b)>>
  <2>1. \A x, y : <<x, y>> # << >> /\ Head(<<x, y>>) = x /\ Tail(<<x, y>>) = <<y>>
    OBVIOUS
  <2>2. Top.todo = <<U32, Content(b)>> /\ HasRead(Top.read, 1)
    BY <1>1, <1>2 DEF AtSize
  <2> QED
    BY <2>1, <2>2 DEF Now
<1>4. ReadU32
  BY <1>1, <1>3, ReadsOnly DEF Reading, U32
<1> DEFINE f == Frame(<<Content(b)>>, Append(Top.read, Peek))
<1>5. calls' = Changed(calls, f)
  BY <1>3, <1>4 DEF ReadU32, Got, Below, Under, Changed
<1>6. HasRead(f.read, 2) /\ f.todo = <<Content(f.read[1])>> /\ IsSeq(f.read)
  <2>1. 1 + 1 = 2 /\ 1 \in Nat \ {0}
    OBVIOUS
  <2>2. HasRead(Append(Top.read, Peek), 2) /\ Append(Top.read, Peek)[1] = b
    BY <1>2, <1>3, <2>1, ReadsMore
  <2> QED
    BY <2>2 DEF Frame, HasRead
<1> HIDE DEF f
<1>7. Len(calls') = 2 /\ calls'[2] = f /\ SameBelow(calls', calls, 1)
  <2>1. 2 - 1 = 1
    OBVIOUS
  <2> QED
    BY <1>1, <1>5, <1>6, <2>1, TopChanges
<1>8. calls'[1] = calls[1]
  BY <1>7 DEF SameBelow
<1> QED
  BY <1>6, <1>7, <1>8 DEF AtSize, AtContent, Awaited

\* The content is read at once, or the function that reads it called.
LEMMA ContentStep ==
  ASSUME phase = "section", phase' = "section", Step, IsStack(calls), AtContent(calls)
  PROVE  AtEnd(calls') \/ InContent(calls')
<1>1. Len(calls) = 2 /\ Top = calls[2] /\ calls # << >> /\ Awaited(calls)
  BY DEF AtContent, Top
<1>2. PICK b : b = Top.read[1]
  OBVIOUS
<1>3. /\ Top.todo = <<Content(b)>> /\ HasRead(Top.read, 2) /\ b \in 0..11
      /\ Top.todo # << >> /\ Now = Content(b) /\ Tail(Top.todo) = << >>
  <2>1. \A x : <<x>> # << >> /\ Head(<<x>>) = x /\ Tail(<<x>>) = << >>
    OBVIOUS
  <2>2. Top.todo = <<Content(b)>> /\ HasRead(Top.read, 2)
    BY <1>1, <1>2 DEF AtContent
  <2>3. b \in 0..11
    BY <1>2, <2>2 DEF HasRead
  <2> QED
    BY <2>1, <2>2, <2>3 DEF Now
<1>4. Reading
  BY <1>1, <1>3 DEF Reading
<1>5. 2 - 1 = 1 /\ 2 + 1 = 3 /\ 2 \in Nat \ {0}
  OBVIOUS
<1>6. CASE b \in {CUSTOM, START}
  <2>1. Skip \/ ReadU32
    BY <1>3, <1>4, <1>6, ContentKinds, ReadsOnly
  <2>2. PICK c : calls' = Got(c)
    BY <2>1 DEF Skip, ReadU32
  <2> DEFINE f == Frame(<< >>, Append(Top.read, c))
  <2>3. calls' = Changed(calls, f)
    BY <1>3, <2>2 DEF Got, Below, Under, Changed
  <2>4. IsSeq(f.read) /\ IsSection(f.read) /\ f.todo = << >>
    <3>1. HasRead(Append(Top.read, c), 3) /\ Append(Top.read, c)[1] = b
      BY <1>2, <1>3, <1>5, ReadsMore
    <3> QED
      BY <1>6, <3>1 DEF Frame, HasRead, IsSection
  <2> HIDE DEF f
  <2>5. Len(calls') = 2 /\ calls'[2] = f /\ SameBelow(calls', calls, 1)
    BY <1>1, <1>5, <2>3, <2>4, TopChanges
  <2>6. calls'[1] = calls[1]
    BY <2>5 DEF SameBelow
  <2> QED
    BY <1>1, <2>4, <2>5, <2>6 DEF AtEnd, Awaited
<1>7. CASE b \notin {CUSTOM, START}
  <2>1. ReadCount
    BY <1>3, <1>4, <1>7, ContentKinds, ReadsOnly
  <2>2. PICK gs : calls' = Enter(gs, << >>)
    BY <2>1 DEF ReadCount
  <2> DEFINE f == Frame(<< >>, Top.read)
             g == Frame(gs, << >>)
  <2>3. calls' = Called(Changed(calls, f), g)
    BY <1>3, <2>2 DEF Enter, Below, Under, Changed, Called
  <2>4. IsSeq(f.read) /\ IsSeq(g.read) /\ HasRead(f.read, 2) /\ f.todo = << >>
    BY <1>3, EmptyIsSeq DEF Frame, HasRead
  <2> HIDE DEF f, g
  <2>5. /\ IsStack(Changed(calls, f)) /\ Len(Changed(calls, f)) = 2
        /\ Changed(calls, f)[2] = f /\ SameBelow(Changed(calls, f), calls, 1)
    BY <1>1, <1>5, <2>4, TopChanges
  <2>6. Len(calls') = 3 /\ SameBelow(calls', Changed(calls, f), 2)
    <3>1. PICK ds : ds = Changed(calls, f)
      OBVIOUS
    <3>2. IsStack(ds) /\ Len(ds) = 2
      BY <2>5, <3>1
    <3>3. Len(Called(ds, g)) = Len(ds) + 1 /\ SameBelow(Called(ds, g), ds, Len(ds))
      BY <2>4, <3>2, TopCalls
    <3> QED
      BY <1>5, <2>3, <3>1, <3>2, <3>3
  <2>7. calls'[1] = calls[1] /\ calls'[2] = f
    BY <2>5, <2>6 DEF SameBelow
  <2> QED
    BY <1>1, <2>4, <2>6, <2>7 DEF InContent, Awaited
<1> QED
  BY <1>6, <1>7

\* Whatever goes on above it, next_section waits, until the content is there.
LEMMA InContentStep ==
  ASSUME phase = "section", phase' = "section", Step, IsStack(calls), InContent(calls)
  PROVE  AtEnd(calls') \/ InContent(calls')
<1>1. PICK n \in Nat : n = Len(calls) /\ n >= 3
  BY AppendIsSeq DEF IsStack, InContent
<1>2. Awaited(calls) /\ HasRead(calls[2].read, 2) /\ calls[2].todo = << >> /\ Len(calls) >= 1 /\ Len(calls) >= 2
  BY <1>1 DEF InContent
<1>3. 1 \in 1..n - 1 /\ 2 \in 1..n - 1 /\ 1 \in 1..n /\ 2 \in 1..n /\ n \in 1..n /\ n - 1 \in 1..n
  BY <1>1
<1>4. ASSUME NEW f, Goes(f) PROVE InContent(calls')
  <2>1. Len(calls') = n /\ SameBelow(calls', calls, n - 1)
    BY <1>1, <1>2, <1>4, TopChanges DEF Goes
  <2>2. calls'[1] = calls[1] /\ calls'[2] = calls[2]
    BY <1>3, <2>1 DEF SameBelow
  <2> QED
    BY <1>1, <1>2, <2>1, <2>2 DEF InContent, Awaited
<1>5. ASSUME NEW f, NEW g, Calls(f, g) PROVE InContent(calls')
  <2>1. PICK ds : ds = Changed(calls, f)
    OBVIOUS
  <2>2. IsStack(ds) /\ Len(ds) = n /\ SameBelow(ds, calls, n - 1)
    BY <1>1, <1>2, <1>5, <2>1, TopChanges DEF Calls
  <2>3. Len(calls') = Len(ds) + 1 /\ SameBelow(calls', ds, Len(ds))
    BY <1>5, <2>1, <2>2, TopCalls DEF Calls
  <2>4. calls'[1] = calls[1] /\ calls'[2] = calls[2]
    BY <1>3, <2>2, <2>3 DEF SameBelow
  <2>5. Len(calls') >= 3
    BY <1>1, <2>2, <2>3
  <2> QED
    BY <1>2, <2>4, <2>5 DEF InContent, Awaited
<1>6. CASE Return
  <2> DEFINE caller == calls[Len(calls) - 1]
             f == Frame(caller.todo, Append(caller.read, Top.read))
  <2>1. calls' = Returned(calls, f)
    BY <1>6 DEF Return, Returned
  <2>2. IsSeq(caller.read) /\ IsSeq(Top.read)
    BY <1>1, <1>3 DEF IsStack, Top
  <2>3. IsSeq(f.read) /\ f.read = Append(caller.read, Top.read) /\ f.todo = caller.todo
    BY <2>2, AppendIsSeq DEF Frame
  <2> HIDE DEF f
  <2>4. Len(calls') = n - 1 /\ calls'[n - 1] = f /\ SameBelow(calls', calls, n - 2)
    BY <1>1, <1>2, <2>1, <2>3, TopReturns
  <2>5. CASE n = 3
    <3>1. caller = calls[2] /\ Len(calls') = 2 /\ calls'[2] = f /\ SameBelow(calls', calls, 1)
      BY <1>1, <2>4, <2>5
    <3>2. calls'[1] = calls[1]
      BY <3>1 DEF SameBelow
    <3>3. HasRead(f.read, 3) /\ f.read[3] = Top.read
      <4>1. 2 + 1 = 3 /\ 2 \in Nat \ {0}
        OBVIOUS
      <4> HIDE DEF caller
      <4>2. f.read = Append(calls[2].read, Top.read)
        BY <2>3, <3>1
      <4>3. /\ HasRead(Append(calls[2].read, Top.read), 2 + 1)
            /\ Append(calls[2].read, Top.read)[2 + 1] = Top.read
        BY <1>2, <4>1, ReadsMore
      <4> QED
        BY <4>1, <4>2, <4>3
    <3>4. IsSection(f.read)
      BY <2>2, <3>3 DEF HasRead, IsSection
    <3> QED
      BY <1>2, <2>3, <3>1, <3>2, <3>4 DEF AtEnd, Awaited
  <2>6. CASE n # 3
    <3>1. 1 \in 1..n - 2 /\ 2 \in 1..n - 2 /\ n - 1 >= 3
      BY <1>1, <2>6
    <3>2. calls'[1] = calls[1] /\ calls'[2] = calls[2]
      BY <2>4, <3>1 DEF SameBelow
    <3> QED
      BY <1>2, <2>4, <3>1, <3>2 DEF InContent, Awaited
  <2> QED
    BY <2>5, <2>6
<1> QED
  BY <1>2, <1>4, <1>5, <1>6, StepForms

\* next_section returns the section it has read.
LEMMA EndStep ==
  ASSUME phase = "section", phase' = "section", Step, IsStack(calls), AtEnd(calls)
  PROVE  Complete(calls')
<1>1. /\ Len(calls) = 2 /\ Top = calls[2] /\ Top.todo = << >> /\ IsSection(Top.read)
      /\ calls[1] = Frame(<< >>, << >>) /\ Len(calls) >= 1 /\ Len(calls) >= 2
  BY DEF AtEnd, Top, Awaited
<1>2. Return
  BY <1>1, StepForms DEF Reading
<1> DEFINE f == Frame(<< >>, Append(<< >>, Top.read))
<1>3. calls' = Returned(calls, f)
  BY <1>1, <1>2 DEF Return, Returned, Frame
<1>4. IsSeq(f.read) /\ f.todo = << >> /\ f.read[1] = Top.read
  <2>1. IsSeq(Append(<< >>, Top.read)) /\ Append(<< >>, Top.read)[Len(<< >>) + 1] = Top.read
    BY EmptyIsSeq, AppendIsSeq
  <2>2. Len(<< >>) + 1 = 1
    OBVIOUS
  <2> QED
    BY <2>1, <2>2 DEF Frame
<1> HIDE DEF f
<1>5. Len(calls') = Len(calls) - 1 /\ calls'[Len(calls) - 1] = f
  BY <1>1, <1>3, <1>4, TopReturns
<1> QED
  BY <1>1, <1>4, <1>5 DEF Complete

\* The stack stays one.
LEMMA StackStep ==
  ASSUME phase = "section", phase' = "section", Step, IsStack(calls), Len(calls) >= 1
  PROVE  IsStack(calls')
<1>1. ASSUME NEW f, Goes(f) PROVE IsStack(calls')
  BY <1>1, TopChanges DEF Goes
<1>2. ASSUME NEW f, NEW g, Calls(f, g) PROVE IsStack(calls')
  <2>1. IsStack(Changed(calls, f))
    BY <1>2, TopChanges DEF Calls
  <2> QED
    BY <1>2, <2>1, TopCalls DEF Calls
<1>3. CASE Return
  <2> DEFINE caller == calls[Len(calls) - 1]
             f == Frame(caller.todo, Append(caller.read, Top.read))
  <2>1. calls' = Returned(calls, f) /\ Len(calls) >= 2
    <3>1. Len(calls) \in Nat
      BY AppendIsSeq DEF IsStack
    <3> QED
      BY <1>3, <3>1 DEF Return, Returned
  <2>2. IsSeq(f.read)
    <3>1. Len(calls) - 1 \in 1..Len(calls)
      BY <2>1, AppendIsSeq DEF IsStack
    <3>2. IsSeq(caller.read)
      BY <3>1 DEF IsStack
    <3> QED
      BY <3>2, AppendIsSeq DEF Frame
  <2> HIDE DEF f
  <2> QED
    BY <2>1, <2>2, TopReturns
<1> QED
  BY <1>1, <1>2, <1>3, StepForms

LEMMA StageStep ==
  ASSUME phase = "section", phase' = "section", Step, IsStack(calls), Stage(calls)
  PROVE  IsStack(calls') /\ Stage(calls')
<1>1. Len(calls) >= 1
  <2>1. Len(calls) \in Nat
    BY AppendIsSeq DEF IsStack
  <2> QED
    BY <2>1 DEF Stage, AtId, AtSize, AtContent, InContent, AtEnd, Complete
<1>2. IsStack(calls')
  BY <1>1, StackStep
<1>3. ~Complete(calls)
  <2> SUFFICES ASSUME Complete(calls) PROVE FALSE
    OBVIOUS
  <2>1. Len(calls) = 1 /\ Top.todo = << >>
    BY DEF Complete, Top
  <2>2. ~Reading /\ ~Return
    BY <2>1 DEF Reading, Return
  <2> QED
    BY <1>1, <2>2, StepForms
<1> QED
  BY <1>2, <1>3, IdStep, SizeStep, ContentStep, InContentStep, EndStep DEF Stage
----------------------------------------------------------------------------
(* The last section of a kind *)

\* Positions have a greatest.
LEMMA GreatestPosition ==
  ASSUME NEW n \in Nat, NEW those, those \subseteq 1..n, those # {}
  PROVE  \E k \in those : \A j \in those : j <= k
<1> DEFINE gaps == {d \in Nat : n - d \in those}
<1>1. gaps \subseteq Nat /\ gaps # {}
  <2>1. PICK k \in those : TRUE
    OBVIOUS
  <2>2. n - k \in Nat /\ n - (n - k) = k
    BY <2>1
  <2>3. n - k \in gaps
    BY <2>1, <2>2
  <2> QED
    BY <2>3
<1>2. PICK d \in gaps : \A e \in gaps : ~(<<e, d>> \in OpToRel(<, Nat))
  BY <1>1, NatLessThanWellFounded, WFMin
<1>3. \A j \in those : j <= n - d
  <2> SUFFICES ASSUME NEW j \in those, ~(j <= n - d) PROVE FALSE
    OBVIOUS
  <2>1. n - j \in Nat /\ n - (n - j) = j /\ n - j < d /\ d \in Nat
    OBVIOUS
  <2>2. n - j \in gaps
    BY <2>1
  <2>3. <<n - j, d>> \in OpToRel(<, Nat)
    BY <2>1 DEF OpToRel
  <2> QED
    BY <1>2, <2>2, <2>3
<1>4. n - d \in those
  OBVIOUS
<1> QED
  BY <1>3, <1>4

\* Where the sections of a kind are.
Places(ss, id)  == {k \in 1..Len(ss) : ss[k][1] = id}
IsLast(those, k) == k \in those /\ \A j \in those : j <= k

LEMMA LastPlace ==
  ASSUME NEW those, those \subseteq Nat, NEW k, IsLast(those, k)
  PROVE  (CHOOSE i \in those : \A j \in those : j <= i) = k
<1> DEFINE i == CHOOSE i \in those : \A j \in those : j <= i
<1>1. i \in those /\ \A j \in those : j <= i
  BY DEF IsLast
<1> HIDE DEF i
<1>2. i <= k /\ k <= i /\ i \in Nat /\ k \in Nat
  BY <1>1 DEF IsLast
<1>3. i = k
  BY <1>2
<1> QED
  BY <1>3 DEF i

\* What a kind is last said to be, by the place.
LEMMA LastOfIs ==
  ASSUME NEW id
  PROVE  /\ Places(sections, id) = {} => LastOf(id) = << >>
         /\ \A k : IsLast(Places(sections, id), k) => LastOf(id) = <<sections[k][3]>>
<1>1. Places(sections, id) \subseteq Nat
  BY DEF Places
<1>2. \A k : IsLast(Places(sections, id), k) =>
         (CHOOSE i \in Places(sections, id) : \A j \in Places(sections, id) : j <= i) = k
  BY <1>1, LastPlace
<1>3. \A k : IsLast(Places(sections, id), k) => Places(sections, id) # {}
  BY DEF IsLast
<1> QED
  BY <1>2, <1>3 DEF LastOf, Places

LEMMA LastOfIsNext ==
  ASSUME NEW id
  PROVE  /\ Places(sections', id) = {} => LastOf(id)' = << >>
         /\ \A k : IsLast(Places(sections', id), k) => LastOf(id)' = <<sections'[k][3]>>
<1>1. Places(sections', id) \subseteq Nat
  BY DEF Places
<1>2. \A k : IsLast(Places(sections', id), k) =>
         (CHOOSE i \in Places(sections', id) : \A j \in Places(sections', id) : j <= i) = k
  BY <1>1, LastPlace
<1>3. \A k : IsLast(Places(sections', id), k) => Places(sections', id) # {}
  BY DEF IsLast
<1> QED
  BY <1>2, <1>3 DEF LastOf, Places

\* There is none, or there is a last.
LEMMA NoneOrLast ==
  ASSUME NEW ss, IsSeq(ss), NEW id
  PROVE  Places(ss, id) = {} \/ \E k \in 1..Len(ss) : IsLast(Places(ss, id), k)
<1>1. Len(ss) \in Nat /\ Places(ss, id) \subseteq 1..Len(ss)
  BY AppendIsSeq DEF Places
<1>2. CASE Places(ss, id) # {}
  <2>1. PICK k \in Places(ss, id) : \A j \in Places(ss, id) : j <= k
    BY <1>1, <1>2, GreatestPosition
  <2> QED
    BY <1>1, <2>1 DEF IsLast
<1> QED
  BY <1>2

\* A section more is the last of its kind, and changes no other.
LEMMA LastOfAppended ==
  ASSUME IsSeq(sections), NEW s, sections' = Append(sections, s), NEW id
  PROVE  LastOf(id)' = IF s[1] = id THEN <<s[3]>> ELSE LastOf(id)
<1>1. PICK n \in Nat : n = Len(sections)
  BY AppendIsSeq
<1>2. /\ IsSeq(sections') /\ Len(sections') = n + 1 /\ sections'[n + 1] = s
      /\ \A i \in 1..n : sections'[i] = sections[i]
  BY <1>1, AppendIsSeq
<1>3. CASE s[1] = id
  <2>1. IsLast(Places(sections', id), n + 1)
    BY <1>2, <1>3 DEF IsLast, Places
  <2> QED
    BY <1>2, <1>3, <2>1, LastOfIsNext
<1>4. CASE s[1] # id
  <2>1. Places(sections', id) = Places(sections, id)
    BY <1>1, <1>2, <1>4 DEF Places
  <2>2. CASE Places(sections, id) = {}
    BY <1>4, <2>1, <2>2, LastOfIs, LastOfIsNext
  <2>3. ASSUME NEW k \in 1..n, IsLast(Places(sections, id), k)
        PROVE  LastOf(id)' = LastOf(id)
    BY <1>2, <2>1, <2>3, LastOfIs, LastOfIsNext
  <2> QED
    BY <1>1, <1>4, <2>2, <2>3, NoneOrLast
<1> QED
  BY <1>3, <1>4

\* The content of a section of any kind but two is a vector.
LEMMA LastIsSeq ==
  ASSUME IsSeq(sections), \A k \in 1..Len(sections) : IsSection(sections[k]),
         NEW id \in 1..11, id # START, LastOf(id) # << >>
  PROVE  IsSeq(LastOf(id)[1])
<1>1. PICK k \in 1..Len(sections) : IsLast(Places(sections, id), k)
  BY NoneOrLast, LastOfIs
<1>2. LastOf(id) = <<sections[k][3]>> /\ sections[k][1] = id
  BY <1>1, LastOfIs DEF IsLast, Places
<1>3. LastOf(id)[1] = sections[k][3]
  BY <1>2
<1> QED
  BY <1>2, <1>3 DEF IsSection, CUSTOM

----------------------------------------------------------------------------
(* The invariant *)

SectionsReturned == IsSeq(sections) /\ \A k \in 1..Len(sections) : IsSection(sections[k])
FieldsOfLast     == module = [id \in 1..11 |-> LastOf(id)]
FarEnough        == phase = "section" => IsStack(calls) /\ Stage(calls)

ParserInv == FarEnough /\ SectionsReturned /\ FieldsOfLast /\ LastSectionWins

LEMMA InvInit == Init => ParserInv
<1> SUFFICES ASSUME Init PROVE ParserInv
  OBVIOUS
<1>1. FarEnough /\ LastSectionWins
  BY DEF Init, FarEnough, LastSectionWins
<1>2. SectionsReturned
  BY EmptyIsSeq DEF Init, SectionsReturned
<1>3. \A id : LastOf(id) = << >>
  BY LastOfIs DEF Init, Places
<1>4. FieldsOfLast
  BY <1>3 DEF Init, FieldsOfLast
<1> QED
  BY <1>1, <1>2, <1>4 DEF ParserInv

\* What a step that reads no section leaves.
LEMMA SectionsKept ==
  ASSUME ParserInv, sections' = sections, module' = module
  PROVE  SectionsReturned' /\ FieldsOfLast' /\ \A id : LastOf(id)' = LastOf(id)
BY DEF ParserInv, SectionsReturned, FieldsOfLast, LastOf

\* The functions get their types.
LEMMA TypesAssigned ==
  ASSUME ParserInv, AssignTypes, phase' = "done"
  PROVE  LastSectionWins'
<1>1. /\ \A id : LastOf(id)' = LastOf(id)
      /\ module' = module /\ sections' = sections
  BY SectionsKept DEF AssignTypes, Throw
<1>2. PICK functions, funcs : functions = LastOf(FUNCTION) /\ funcs = LastOf(CODE)
  OBVIOUS
<1>3. module[FUNCTION] = functions /\ module[CODE] = funcs /\ \A id \in 1..11 : module[id] = LastOf(id)
  BY <1>2 DEF ParserInv, FieldsOfLast, FUNCTION, CODE
<1>4. /\ functions # << >>
      /\ functions[1] = << >> \/ ~(funcs = << >> \/ Len(funcs[1]) < Len(functions[1]))
      /\ types' = IF funcs = << >> THEN << >>
                  ELSE [i \in 1..Len(funcs[1]) |->
                          IF i <= Len(functions[1]) THEN functions[1][i] ELSE 0]
  BY <1>3 DEF AssignTypes, Throw
<1>5. IsSeq(functions[1])
  BY <1>2, <1>4, LastIsSeq DEF ParserInv, SectionsReturned, FUNCTION, START
<1>6. funcs # << >> => IsSeq(funcs[1])
  BY <1>2, LastIsSeq DEF ParserInv, SectionsReturned, CODE, START
<1>7. ASSUME funcs # << >> PROVE Len(types') = Len(funcs[1])
  <2>1. PICK n \in Nat : n = Len(funcs[1])
    BY <1>6, <1>7, AppendIsSeq
  <2>2. PICK T : T = [i \in 1..n |-> IF i <= Len(functions[1]) THEN functions[1][i] ELSE 0]
    OBVIOUS
  <2>3. T \in [1..n -> {T[i] : i \in 1..n}]
    BY <2>2
  <2>4. T \in Seq({T[i] : i \in 1..n}) /\ Len(T) = n
    BY <2>1, <2>2, <2>3, LenProperties
  <2>5. types' = T
    BY <1>4, <1>7, <2>1, <2>2
  <2> QED
    BY <2>1, <2>4, <2>5
<1>8. ASSUME NEW i \in 1..Len(functions[1]) PROVE types'[i] = functions[1][i]
  <2>1. PICK m \in Nat : m = Len(functions[1])
    BY <1>5, AppendIsSeq
  <2>2. functions[1] # << >>
    BY <1>8, <2>1
  <2>3. funcs # << >> /\ ~(Len(funcs[1]) < m)
    BY <1>4, <2>1, <2>2
  <2>4. Len(funcs[1]) \in Nat
    BY <1>6, <2>3, AppendIsSeq
  <2>5. i \in 1..Len(funcs[1]) /\ i <= m
    BY <1>8, <2>1, <2>3, <2>4
  <2> QED
    BY <1>4, <2>1, <2>3, <2>5
<1>9. LastOf(FUNCTION)' = functions /\ LastOf(CODE)' = funcs
  BY <1>1, <1>2
<1> QED
  BY <1>1, <1>3, <1>7, <1>8, <1>9 DEF LastSectionWins

\* next_section returns to _parse, which stores what it got.
LEMMA SectionStored ==
  ASSUME ParserInv, StoreSection
  PROVE  ParserInv'
<1>1. Len(calls) = 1 /\ Top = calls[1] /\ Top.todo = << >> /\ phase = "section" /\ phase' = "between"
  BY DEF StoreSection, Top
<1>2. Complete(calls)
  <2>1. ~(<<On("section")>> = << >>)
    OBVIOUS
  <2>2. ~AtId(calls)
    BY <1>1, <2>1 DEF AtId, Frame
  <2> QED
    BY <1>1, <2>2 DEF ParserInv, FarEnough, Stage, AtSize, AtContent, InContent, AtEnd
<1>3. PICK s : s = Top.read[1]
  OBVIOUS
<1>4. IsSection(s) /\ sections' = Append(sections, s) /\ module' = Stored(s)
  BY <1>1, <1>2, <1>3 DEF StoreSection, Complete
<1>5. SectionsReturned'
  <2>1. /\ IsSeq(sections') /\ Len(sections) \in Nat /\ Len(sections') = Len(sections) + 1
        /\ sections'[Len(sections) + 1] = s
        /\ \A i \in 1..Len(sections) : sections'[i] = sections[i]
    BY <1>4, AppendIsSeq DEF ParserInv, SectionsReturned
  <2>2. ASSUME NEW k \in 1..Len(sections') PROVE IsSection(sections'[k])
    <3>1. CASE k = Len(sections) + 1
      BY <1>4, <2>1, <3>1
    <3>2. CASE k # Len(sections) + 1
      <4>1. k \in 1..Len(sections)
        BY <2>1, <2>2, <3>2
      <4> QED
        BY <2>1, <4>1 DEF ParserInv, SectionsReturned
    <3> QED
      BY <3>1, <3>2
  <2> QED
    BY <2>1, <2>2 DEF SectionsReturned
<1>6. FieldsOfLast'
  <2>1. \A id : LastOf(id)' = IF s[1] = id THEN <<s[3]>> ELSE LastOf(id)
    BY <1>4, LastOfAppended DEF ParserInv, SectionsReturned
  <2>2. module = [id \in 1..11 |-> LastOf(id)] /\ s[1] \in 0..11
    BY <1>4 DEF ParserInv, FieldsOfLast, IsSection
  <2>3. CASE s[1] = 0
    BY <1>4, <2>1, <2>2, <2>3 DEF Stored, CUSTOM, FieldsOfLast
  <2>4. CASE s[1] # 0
    BY <1>4, <2>1, <2>2, <2>4 DEF Stored, CUSTOM, FieldsOfLast
  <2> QED
    BY <2>3, <2>4
<1> QED
  BY <1>1, <1>5, <1>6 DEF ParserInv, FarEnough, LastSectionWins

\* The header, the next section, an exception.
LEMMA OutsideSections ==
  ASSUME phase # "section" \/ phase' # "section", Step, ~AssignTypes, ~StoreSection
  PROVE  /\ sections' = sections /\ module' = module
         /\ phase' # "done"
         /\ phase' = "section" => calls' = <<Frame(<<On("section")>>, << >>)>>
<1>1. CASE CheckMagic
  BY <1>1 DEF CheckMagic, Compare, Throw, Keep
<1>2. CASE CheckVersion
  BY <1>2 DEF CheckVersion, Compare, Throw, Keep
<1>3. CASE NextSection
  BY <1>3 DEF NextSection, Keep
<1>4. CASE EndOfFile \/ Overflow
  BY <1>4 DEF EndOfFile, Overflow, Throw
<1>5. CASE Select
  BY <1>5 DEF Select, Throw, At, Doing, Reading, Keep, Going
<1>6. CASE ReadU32 \/ ReadRaw \/ Skip \/ ReadCount \/ NextItem \/ Begin \/ Return \/ NextInstruction
           \/ ReadEnd \/ ReadElse
  BY <1>6 DEF ReadU32, ReadRaw, Skip, ReadCount, NextItem, Begin, Return, NextInstruction, ReadEnd,
              ReadElse, At, Doing, Reading, Keep, Going
<1> QED
  BY <1>1, <1>2, <1>3, <1>4, <1>5, <1>6 DEF Step

LEMMA InvNext == ParserInv /\ [Step]_vars => ParserInv'
<1> SUFFICES ASSUME ParserInv, [Step]_vars PROVE ParserInv'
  OBVIOUS
<1>1. CASE UNCHANGED vars
  <2>1. sections' = sections /\ module' = module /\ phase' = phase /\ calls' = calls /\ types' = types
    BY <1>1 DEF vars
  <2>2. SectionsReturned' /\ FieldsOfLast' /\ \A id : LastOf(id)' = LastOf(id)
    BY <2>1, SectionsKept
  <2>3. FarEnough'
    BY <2>1 DEF ParserInv, FarEnough
  <2>4. LastSectionWins'
    <3>1. PICK L : L = LastOf(CODE)
      OBVIOUS
    <3>2. PICK M : M = LastOf(FUNCTION)
      OBVIOUS
    <3>3. LastOf(CODE)' = L /\ LastOf(FUNCTION)' = M
      BY <2>2, <3>1, <3>2
    <3> QED
      BY <2>1, <2>2, <3>1, <3>2, <3>3 DEF ParserInv, LastSectionWins
  <2> QED
    BY <2>2, <2>3, <2>4 DEF ParserInv
<1>2. CASE Step /\ phase = "section" /\ phase' = "section"
  <2>1. IsStack(calls) /\ Stage(calls)
    BY <1>2 DEF ParserInv, FarEnough
  <2>2. Len(calls) >= 1
    <3>1. Len(calls) \in Nat
      BY <2>1, AppendIsSeq DEF IsStack
    <3> QED
      BY <2>1, <3>1 DEF Stage, AtId, AtSize, AtContent, InContent, AtEnd, Complete
  <2>3. sections' = sections /\ module' = module
    BY <1>2, <2>1, <2>2, StepForms
  <2>4. FarEnough'
    BY <1>2, <2>1, StageStep DEF FarEnough
  <2> QED
    BY <1>2, <2>3, <2>4, SectionsKept DEF ParserInv, LastSectionWins
<1>3. CASE StoreSection
  BY <1>3, SectionStored
<1>4. CASE AssignTypes
  <2>1. sections' = sections /\ module' = module /\ phase' # "section"
    BY <1>4 DEF AssignTypes, Throw
  <2>2. LastSectionWins'
    BY <1>4, TypesAssigned DEF LastSectionWins
  <2> QED
    BY <2>1, <2>2, SectionsKept DEF ParserInv, FarEnough
<1>5. CASE Step /\ (phase # "section" \/ phase' # "section") /\ ~AssignTypes /\ ~StoreSection
  <2>1. /\ sections' = sections /\ module' = module /\ phase' # "done"
        /\ phase' = "section" => calls' = <<Frame(<<On("section")>>, << >>)>>
    BY <1>5, OutsideSections
  <2>2. FarEnough'
    <3> SUFFICES ASSUME phase' = "section" PROVE IsStack(calls') /\ Stage(calls')
      BY DEF FarEnough
    <3> DEFINE f == Frame(<<On("section")>>, << >>)
    <3>1. calls' = <<f>> /\ IsSeq(f.read)
      BY <2>1, EmptyIsSeq DEF Frame
    <3> HIDE DEF f
    <3>2. Len(calls') = 1 /\ calls'[1] = f
      BY <3>1
    <3>3. IsStack(calls')
      BY <3>1, <3>2, OneIsSeq DEF IsStack
    <3> QED
      BY <3>2, <3>3 DEF Stage, AtId, f
  <2> QED
    BY <2>1, <2>2, SectionsKept DEF ParserInv, LastSectionWins
<1> QED
  BY <1>1, <1>2, <1>3, <1>4, <1>5

\* For every file, a module that has been parsed consists of the last section
\* of each kind, in whatever order they came and however often, and its bodies
\* have the types the function section names (parser.c:802-851).
THEOREM SectionsInAnyOrder == Spec => []LastSectionWins
<1>1. ParserInv => LastSectionWins
  BY DEF ParserInv
<1> QED
  BY <1>1, InvInit, InvNext, PTL DEF Spec
=============================================================================
