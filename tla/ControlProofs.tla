--------------------------- MODULE ControlProofs ---------------------------
(***************************************************************************)
(* First: the evaluation loop keeps its types, and always has an           *)
(* activation at the bottom of its frame stack: for every module, valid or *)
(* not, and for hosts that call again after an exception.  The two need    *)
(* each other: the activation that peek_func_frame finds is what gives a   *)
(* local its type.  This part cites neither TypingAssumption nor           *)
(* HandledAssumption.                                                      *)
(*                                                                         *)
(* Then: with valid modules it implements module Structured.  Sim says     *)
(* that the frames and the operand stack are those of a list of contexts;  *)
(* how each change of the two stacks changes the contexts is said once     *)
(* (SimPushed, SimTraded, SimMarked, SimBelowMarkers, SimBelowTopmost).    *)
(* That the handlers never find too little is taken from the invariant of  *)
(* Structured, which holds of the contexts the two stacks are read as:     *)
(* each action of Control is shown to be a step of Structured in a state   *)
(* that has the invariant, and so has the next.                            *)
(***************************************************************************)
EXTENDS ControlTyping, StackProofs

----------------------------------------------------------------------------
(* The inductive invariant *)

Modes == {"start", "idle", "run", "dead"}

\* A frame stack with an activation at the bottom.
FramesOK(fs) == fs \in Seq(Frame) /\ (fs # << >> => fs[1].context = "function")

StacksOK(fs, s) == FramesOK(fs) /\ s \in Seq(Entries)

\* What the host asked for exists, as long as it runs.
CalleeOK == mode = "run" => callee < Len(prog.funcs)

IInv == /\ prog \in Programs
        /\ StacksOK(frames, opd)
        /\ globals \in Seq(Values) /\ Len(globals) = Len(prog.globals)
        /\ clobbered \subseteq Blocks(prog) \X Nat
        /\ callee \in Nat /\ invocations \in 0..MaxInvocations
        /\ mode \in Modes /\ outcome \in Outcomes
        /\ CalleeOK

LEMMA IInvImplies == IInv => TypeOK /\ BottomIsActivation
  BY DEF IInv, StacksOK, FramesOK, TypeOK, BottomIsActivation, Modes

\* What a step of the loop has to leave, for IInv to hold again.
Fine == /\ StacksOK(frames', opd')
        /\ mode' \in Modes /\ outcome' \in Outcomes /\ (mode' = "run" => mode = "run")

LEMMA FrameUnchanged == prog' = prog => Frame' = Frame /\ Blocks(prog)' = Blocks(prog)
  BY DEF Frame, Blocks

LEMMA KeepIInv ==
  ASSUME IInv, Keep, Fine
  PROVE  IInv'
<1>1. /\ prog' = prog /\ globals' = globals /\ clobbered' = clobbered
      /\ callee' = callee /\ invocations' = invocations
  BY DEF Keep
<1>2. Frame' = Frame /\ Blocks(prog)' = Blocks(prog)
  BY <1>1, FrameUnchanged
<1>3. StacksOK(frames, opd)'
  BY <1>2 DEF Fine, StacksOK, FramesOK
<1>4. CalleeOK'
  BY <1>1 DEF IInv, CalleeOK, Fine
<1>. QED BY <1>1, <1>2, <1>3, <1>4 DEF IInv, Fine

----------------------------------------------------------------------------
(* Programs and frames *)

LEMMA ProgramType ==
  ASSUME IInv
  PROVE  IsProgram(prog)
  BY CodeAssumption, ControlAssumption DEF IInv

\* What is fetched is an instruction of the program.
LEMMA FetchedType ==
  ASSUME IInv, Fetching
  PROVE  /\ Len(frames) \in Nat \ {0} /\ Top \in Frame
         /\ Fetched \in Instr(Blocks(prog))
<1>1. frames \in Seq(Frame) /\ frames # << >>
  BY DEF IInv, StacksOK, FramesOK, Fetching
<1>2. Len(frames) \in Nat \ {0}
  BY <1>1, EmptySeq
<1>3. Top \in Frame
  BY <1>1, <1>2, ElementOfSeq DEF Top
<1>4. Top.instrs \in Blocks(prog) /\ Top.ip \in Nat
  BY <1>3 DEF Frame
<1>5. prog.code[Top.instrs] \in Seq(Instr(Blocks(prog)))
  BY <1>4, ProgramType DEF IsProgram
<1>6. Top.ip + 1 \in 1..Len(prog.code[Top.instrs])
  BY <1>4, <1>5 DEF Fetching, AtEnd
<1>7. Fetched \in Instr(Blocks(prog))
  BY <1>5, <1>6, ElementOfSeq DEF Fetched
<1>. QED BY <1>2, <1>3, <1>7

LEMMA PrefixOK ==
  ASSUME NEW fs, FramesOK(fs), NEW n \in 0..Len(fs)
  PROVE  FramesOK(SubSeq(fs, 1, n))
<1>1. fs \in Seq(Frame)
  BY DEF FramesOK
<1>2. /\ SubSeq(fs, 1, n) \in Seq(Frame) /\ Len(SubSeq(fs, 1, n)) = n
      /\ \A k \in 1..n : SubSeq(fs, 1, n)[k] = fs[k]
  BY <1>1, SubSeqProperties
<1>3. ASSUME SubSeq(fs, 1, n) # << >>
      PROVE  SubSeq(fs, 1, n)[1].context = "function"
  <2>1. n # 0
    BY <1>2, <1>3, EmptySeq
  <2>2. 1 \in 1..n /\ fs # << >>
    BY <1>1, <2>1, EmptySeq
  <2>. QED BY <1>2, <2>2 DEF FramesOK
<1>. QED BY <1>2, <1>3 DEF FramesOK

LEMMA AppendOK ==
  ASSUME NEW fs, FramesOK(fs), NEW f \in Frame, fs = << >> => f.context = "function"
  PROVE  FramesOK(Append(fs, f))
<1>1. fs \in Seq(Frame)
  BY DEF FramesOK
<1>2. /\ Append(fs, f) \in Seq(Frame) /\ Len(Append(fs, f)) = Len(fs) + 1
      /\ \A k \in 1..Len(fs) : Append(fs, f)[k] = fs[k]
      /\ Append(fs, f)[Len(fs) + 1] = f
  BY <1>1, AppendProperties
<1>3. CASE fs = << >>
  BY <1>2, <1>3, EmptySeq DEF FramesOK
<1>4. CASE fs # << >>
  <2>1. 1 \in 1..Len(fs)
    BY <1>1, <1>4, EmptySeq
  <2>. QED BY <1>2, <1>4, <2>1 DEF FramesOK
<1>. QED BY <1>3, <1>4

\* A frame replaced by one with the same context.
LEMMA ExceptOK ==
  ASSUME NEW fs, FramesOK(fs), NEW n \in 1..Len(fs), NEW f \in Frame, f.context = fs[n].context
  PROVE  FramesOK([fs EXCEPT ![n] = f]) /\ Len([fs EXCEPT ![n] = f]) = Len(fs)
<1>1. fs \in Seq(Frame)
  BY DEF FramesOK
<1>2. /\ [fs EXCEPT ![n] = f] \in Seq(Frame) /\ Len([fs EXCEPT ![n] = f]) = Len(fs)
      /\ \A k \in 1..Len(fs) : [fs EXCEPT ![n] = f][k] = IF k = n THEN f ELSE fs[k]
  BY <1>1, ExceptSeq
<1>3. 1 \in 1..Len(fs) /\ fs # << >>
  BY <1>1, EmptySeq
<1>4. [fs EXCEPT ![n] = f][1].context = "function"
  BY <1>2, <1>3 DEF FramesOK
<1>. QED BY <1>2, <1>4 DEF FramesOK

\* fetch_next_instr increments the ip of the top frame, and nothing else.
LEMMA AdvancedOK ==
  ASSUME IInv, frames # << >>
  PROVE  /\ FramesOK(Advanced) /\ Len(Advanced) = Len(frames) /\ Advanced # << >>
         /\ \A k \in 1..Len(frames) : /\ Advanced[k] \in Frame
                                      /\ Advanced[k].context = frames[k].context
                                      /\ Advanced[k].locals = frames[k].locals
<1>1. FramesOK(frames) /\ frames \in Seq(Frame) /\ Len(frames) \in 1..Len(frames)
  BY EmptySeq DEF IInv, StacksOK, FramesOK
<1>2. PICK f : f = [Top EXCEPT !.ip = Top.ip + 1]
  OBVIOUS
<1>3. Top \in Frame
  BY <1>1, ElementOfSeq DEF Top
<1>4. f \in Frame /\ f.context = Top.context /\ f.locals = Top.locals
  BY <1>2, <1>3 DEF Frame
<1>5. Advanced = [frames EXCEPT ![Len(frames)] = f]
  BY <1>2 DEF Advanced, Top
<1>6. FramesOK(Advanced) /\ Len(Advanced) = Len(frames)
  BY <1>1, <1>4, <1>5, ExceptOK DEF Top
<1>7. \A k \in 1..Len(frames) : Advanced[k] = IF k = Len(frames) THEN f ELSE frames[k]
  BY <1>1, <1>4, <1>5, ExceptSeq
<1>8. \A k \in 1..Len(frames) : frames[k] \in Frame
  BY <1>1, ElementOfSeq
<1>9. Advanced # << >>
  BY <1>1, <1>6, EmptySeq
<1>. QED BY <1>4, <1>6, <1>7, <1>8, <1>9 DEF Top

\* peek_func_frame finds an activation.
LEMMA FuncIndexType ==
  ASSUME IInv, frames # << >>
  PROVE  /\ FuncIndex(frames) \in 1..Len(frames)
         /\ CurrentFunc \in Frame /\ CurrentFunc.context = "function"
<1>1. frames \in Seq(Frame) /\ Len(frames) \in Nat /\ 1 \in 1..Len(frames)
      /\ frames[1].context = "function"
  BY EmptySeq DEF IInv, StacksOK, FramesOK
<1>. DEFINE T == {k \in 1..Len(frames) : frames[k].context = "function"}
<1>2. T \in SUBSET (1..Len(frames)) /\ T # {}
  BY <1>1
<1>3. PICK k \in T : \A j \in T : j <= k
  BY <1>1, <1>2, NatMax
<1>4. \E n \in 1..Len(frames) : /\ frames[n].context = "function"
                                /\ \A j \in n + 1..Len(frames) : frames[j].context # "function"
  <2>1. SUFFICES ASSUME NEW j \in k + 1..Len(frames), frames[j].context = "function"
                 PROVE  FALSE
    BY <1>3
  <2>2. j \in T /\ j > k
    BY <1>3, <2>1
  <2>. QED BY <1>3, <2>2
<1>5. FuncIndex(frames) \in 1..Len(frames) /\ frames[FuncIndex(frames)].context = "function"
  BY <1>4 DEF FuncIndex
<1>. QED BY <1>1, <1>5, ElementOfSeq DEF CurrentFunc
----------------------------------------------------------------------------
(* Leaving the loop *)

LEMMA ProceedFine ==
  ASSUME IInv, Proceed, StacksOK(frames', opd')
  PROVE  Fine
  BY DEF IInv, Proceed, Fine

LEMMA RaiseFine ==
  ASSUME IInv, Running, NEW code \in Exceptions, Raise(code), StacksOK(frames', opd')
  PROVE  Fine
  BY DEF Raise, Running, Fine, Modes, Outcomes, Deaths

LEMMA DieFine ==
  ASSUME IInv, NEW cause \in Deaths, Die(cause)
  PROVE  Fine
<1>1. StacksOK(frames', opd')
  BY DEF IInv, Die
<1>. QED BY <1>1 DEF Die, Fine, Modes, Outcomes

LEMMA PopFailsFine ==
  ASSUME IInv, Running, NEW s, NEW ts, NEW fs, FramesOK(fs), PopFails(s, ts, fs)
  PROVE  Fine
<1>1. CASE Mismatch(s, ts)
  BY <1>1, DieFine DEF PopFails, Deaths
<1>2. CASE ~Mismatch(s, ts)
  <2>1. StacksOK(frames', opd')
    BY <1>2, EmptySeq DEF PopFails, StacksOK
  <2>. QED BY <1>2, <2>1, RaiseFine DEF PopFails, Exceptions
<1>. QED BY <1>1, <1>2

\* A handler that leaves the frames alone.
LEMMA AdvanceFine ==
  ASSUME IInv, frames # << >>, Advance, opd' \in Seq(Entries)
  PROVE  Fine
  BY AdvancedOK, ProceedFine DEF Advance, StacksOK

----------------------------------------------------------------------------
(* The frames that are pushed *)

LEMMA ValueType ==
  ASSUME NEW t \in AnyType, NEW v \in Val
  PROVE  Value(t, v) \in Values
  BY DEF Value, Values

LEMMA ZeroType ==
  ASSUME NEW t \in AnyType
  PROVE  Value(t, 0) \in Values
  BY ValueType, CodeAssumption, ControlAssumption

LEMMA BlockFrameType ==
  ASSUME NEW body \in Blocks(prog), NEW rt \in ResultType, NEW context \in {"control", "loop"}
  PROVE  BlockFrame(body, rt, context) \in Frame
<1>1. << >> \in Seq(Values)
  BY EmptySeq
<1>2. rt # << >> => rt[1] \in AnyType
  BY DEF ResultType, AnyType
<1>. QED BY <1>1, <1>2 DEF BlockFrame, Frame, AnyType

LEMMA ZeroedType ==
  ASSUME NEW ts \in ValueTypes
  PROVE  [k \in 1..Len(ts) |-> Value(ts[k], 0)] \in Seq(Values)
<1>1. \A k \in 1..Len(ts) : Value(ts[k], 0) \in Values
  BY ZeroType, ElementOfSeq DEF ValueTypes, AnyType
<1>2. Len(ts) \in Nat
  BY DEF ValueTypes
<1>. QED BY <1>1, <1>2, IsASeq

LEMMA FuncFrameType ==
  ASSUME NEW f \in Func(Blocks(prog)), NEW args \in Seq(Values)
  PROVE  FuncFrame(f, args) \in Frame /\ FuncFrame(f, args).context = "function"
<1>1. f.body \in Blocks(prog) /\ f.t2 \in Seq(ValType) /\ f.locals \in ValueTypes
  BY DEF Func, ValueTypes
<1>2. FuncFrame(f, args).locals \in Seq(Values)
  BY <1>1, ZeroedType, ConcatProperties DEF FuncFrame
<1>3. f.t2 # << >> => f.t2[1] \in AnyType
  BY <1>1, EmptySeq, ElementOfSeq DEF AnyType
<1>4. Len(f.t2) \in Nat
  BY <1>1
<1>. QED BY <1>1, <1>2, <1>3, <1>4 DEF FuncFrame, Frame, AnyType

LEMMA PartialFrameType ==
  ASSUME NEW f \in Func(Blocks(prog)), NEW s \in Seq(Values), Len(s) < Len(f.t1)
  PROVE  PartialFrame(f, s) \in Frame /\ PartialFrame(f, s).context = "function"
<1>. DEFINE unset  == [k \in 1..Len(f.t1) - Len(s) |-> Value("unknown", 0)]
            locals == IF s = << >> THEN << >> ELSE unset \o s
<1>1. f.t1 \in Seq(ValType)
  BY DEF Func, ValueTypes
<1>2. Len(f.t1) - Len(s) \in Nat /\ Value("unknown", 0) \in Values
  BY <1>1, ZeroType DEF AnyType
<1>3. unset \in Seq(Values)
  BY <1>2, IsASeq
<1>4. locals \in Seq(Values)
  BY <1>3, EmptySeq, ConcatProperties
<1>5. << >> \in Seq(Values)
  BY EmptySeq
<1>6. FuncFrame(f, << >>) \in Frame /\ FuncFrame(f, << >>).context = "function"
  BY <1>5, FuncFrameType
<1>7. PartialFrame(f, s) = [FuncFrame(f, << >>) EXCEPT !.locals = locals]
  BY DEF PartialFrame
<1>. HIDE DEF locals
<1>. QED BY <1>4, <1>6, <1>7 DEF Frame

----------------------------------------------------------------------------
(* What handlers pop *)

LEMMA CarriesType ==
  ASSUME NEW frame \in Frame
  PROVE  Carries(frame) \in Seq(AnyType)
  BY EmptySeq DEF Carries, Frame

\* The operands a handler needs, when the index it uses is in bounds.
LEMMA NeedsType ==
  ASSUME IInv, Fetching, Present(Fetched)
  PROVE  Needs(Fetched) \in Seq(AnyType)
<1>1. Fetched \in Instr(Blocks(prog)) /\ frames # << >>
  BY FetchedType DEF Fetching
<1>2. ValType \subseteq AnyType /\ "i32" \in AnyType
  BY DEF AnyType, ValType
<1>3. \A t \in AnyType : <<t>> \in Seq(AnyType) /\ <<t, t, "i32">> \in Seq(AnyType) /\ <<"i32", t>> \in Seq(AnyType)
  BY <1>2
<1>4. CASE Fetched.op = "numeric"
  <2>1. Fetched.pops \in Seq(ValType)
    BY <1>1, <1>4 DEF Instr, ValueTypes
  <2>2. Fetched.pops \in Seq(AnyType)
    BY <2>1, <1>2, SeqMonotonic
  <2>. QED BY <1>4, <2>2 DEF Needs
<1>5. CASE Fetched.op \in {"bitcount", "store"}
  <2>1. Fetched.t \in AnyType
    BY <1>1, <1>2, <1>5 DEF Instr
  <2>. QED BY <1>3, <1>5, <2>1 DEF Needs
<1>6. CASE Fetched.op = "divide"
  <2>1. Fetched.t \in AnyType
    BY <1>1, <1>2, <1>6 DEF Instr
  <2>2. <<Fetched.t, Fetched.t>> \in Seq(AnyType)
    BY <2>1
  <2>. QED BY <1>6, <2>2 DEF Needs
<1>7. CASE Fetched.op = "select"
  <2>1. SelectType \in AnyType
    <3>1. opd \in Seq(Entries)
      BY DEF IInv, StacksOK
    <3>2. CASE Len(opd) >= 2
      <4>1. Len(opd) - 2 + 1 \in 1..Len(opd)
        BY <3>1, <3>2
      <4>2. Popped(opd, 2) \in Entries
        BY <3>1, <4>1, ElementOfSeq DEF Popped
      <4>. QED BY <4>2 DEF SelectType, Entries, Values, LabelMarker, FuncMarker, AnyType
    <3>3. CASE ~(Len(opd) >= 2)
      BY <3>3 DEF SelectType, AnyType
    <3>. QED BY <3>2, <3>3
  <2>. QED BY <1>3, <1>7, <2>1 DEF Needs
<1>8. CASE Fetched.op \in {"local.set", "local.tee"}
  <2>1. Fetched.idx \in Nat
    BY <1>1, <1>8 DEF Instr
  <2>2. Fetched.idx < Len(CurrentFunc.locals)
    BY <1>8 DEF Present
  <2>3. CurrentFunc.locals \in Seq(Values)
    BY <1>1, FuncIndexType DEF Frame
  <2>4. Fetched.idx + 1 \in 1..Len(CurrentFunc.locals)
    BY <2>1, <2>2, <2>3
  <2>5. CurrentFunc.locals[Fetched.idx + 1] \in Values
    BY <2>3, <2>4, ElementOfSeq
  <2>6. CurrentFunc.locals[Fetched.idx + 1].valtype \in AnyType
    BY <2>5 DEF Values
  <2>. QED BY <1>3, <1>8, <2>6 DEF Needs
<1>9. CASE Fetched.op = "global.set"
  <2>1. Fetched.idx \in Nat
    BY <1>1, <1>9 DEF Instr
  <2>2. Fetched.idx < Len(globals) /\ globals \in Seq(Values)
    BY <1>9 DEF Present, IInv
  <2>3. Fetched.idx + 1 \in 1..Len(globals)
    BY <2>1, <2>2
  <2>4. globals[Fetched.idx + 1] \in Values
    BY <2>2, <2>3, ElementOfSeq
  <2>5. globals[Fetched.idx + 1].valtype \in AnyType
    BY <2>4 DEF Values
  <2>. QED BY <1>3, <1>9, <2>5 DEF Needs
<1>10. CASE Fetched.op \in {"load", "if", "br_if", "br_table", "call_indirect"}
  BY <1>2, <1>3, <1>10 DEF Needs
<1>11. CASE Fetched.op \in {"const", "drop", "return", "unreachable", "nop", "local.get",
                            "global.get", "block", "loop", "br", "call",
                            "memory.size", "memory.grow"}
  BY <1>11, EmptySeq DEF Needs
<1>. QED BY <1>1, <1>4, <1>5, <1>6, <1>7, <1>8, <1>9, <1>10, <1>11 DEF Instr

\* A handler that finds its operands: what it pops are values, what is left is
\* a stack.
LEMMA AtType ==
  ASSUME IInv, NEW ops, At(ops)
  PROVE  /\ Rest \in Seq(Entries) /\ opd \in Seq(Entries)
         /\ \A k \in 1..Len(Needs(Fetched)) : Popped(opd, k) \in Values
         /\ Fetched \in Instr(Blocks(prog)) /\ frames # << >>
<1>1. Fetching /\ Present(Fetched) /\ Holds(opd, Needs(Fetched)) /\ opd \in Seq(Entries)
  BY DEF At, IInv, StacksOK
<1>2. Needs(Fetched) \in Seq(AnyType)
  BY <1>1, NeedsType
<1>3. Len(Needs(Fetched)) \in Nat /\ Len(Needs(Fetched)) <= Len(opd)
  BY <1>1, <1>2, HoldsValues
<1>4. Rest \in Seq(Entries)
  BY <1>1, <1>3, DroppedType DEF Rest
<1>. QED BY <1>1, <1>2, <1>4, HoldsValues, FetchedType DEF Fetching

\* The handler raises after it has popped its operands.
LEMMA TrapFine ==
  ASSUME IInv, NEW ops, At(ops), NEW code \in Exceptions, Trap(code)
  PROVE  IInv'
<1>1. Rest \in Seq(Entries) /\ frames # << >> /\ Running
  BY AtType DEF At, Fetching
<1>2. StacksOK(frames', opd')
  BY <1>1, AdvancedOK DEF Trap, StacksOK
<1>3. Fine
  BY <1>1, <1>2, RaiseFine DEF Trap
<1>. QED BY <1>3, KeepIInv DEF Trap

----------------------------------------------------------------------------
(* The end of a frame, and return *)

LEMMA UnwoundType ==
  ASSUME IInv, NEW res \in Seq(AnyType), NEW m, CanUnwind(res, m)
  PROVE  Unwound(res, m) \in Seq(Entries)
<1>1. opd \in Seq(Entries) /\ Holds(opd, res)
  BY DEF IInv, StacksOK, CanUnwind
<1>2. Len(res) \in Nat /\ Len(res) <= Len(opd)
  BY <1>1, HoldsValues
<1>3. Dropped(opd, Len(res)) \in Seq(Entries) /\ Kept(opd, Len(res)) \in Seq(Entries)
  BY <1>1, <1>2, DroppedType, KeptType
<1>4. BelowTopmost(Dropped(opd, Len(res)), m) \in Seq(Entries)
  BY <1>3, BelowTopmostType DEF CanUnwind
<1>. QED BY <1>3, <1>4, ConcatProperties DEF Unwound

LEMMA FrameEndTyped == IInv /\ FrameEnd => IInv'
<1>. SUFFICES ASSUME IInv, FrameEnd PROVE IInv'
  OBVIOUS
<1>. DEFINE m == IF Top.context = "function" THEN "function" ELSE "label"
<1>1. Running /\ frames # << >> /\ Keep
  BY DEF FrameEnd
<1>2. FramesOK(frames) /\ frames \in Seq(Frame) /\ Len(frames) \in Nat \ {0}
  BY <1>1, EmptySeq DEF IInv, StacksOK, FramesOK
<1>3. Carries(Top) \in Seq(AnyType)
  BY <1>2, ElementOfSeq, CarriesType DEF Top
<1>4. CASE CanUnwind(Carries(Top), m)
  <2>1. opd' = Unwound(Carries(Top), m) /\ frames' = SubSeq(frames, 1, Len(frames) - 1) /\ Proceed
    BY <1>4 DEF FrameEnd
  <2>2. FramesOK(SubSeq(frames, 1, Len(frames) - 1))
    BY <1>2, PrefixOK
  <2>3. StacksOK(frames', opd')
    BY <1>3, <1>4, <2>1, <2>2, UnwoundType DEF StacksOK
  <2>. QED BY <1>1, <2>1, <2>3, ProceedFine, KeepIInv
<1>5. CASE ~CanUnwind(Carries(Top), m)
  <2>1. PopFails(opd, Carries(Top), frames)
    BY <1>5 DEF FrameEnd
  <2>. QED BY <1>1, <1>2, <2>1, PopFailsFine, KeepIInv
<1>. QED BY <1>4, <1>5

LEMMA ReturnTyped == IInv /\ Return => IInv'
<1>. SUFFICES ASSUME IInv, Return PROVE IInv'
  OBVIOUS
<1>1. Running /\ frames # << >> /\ Keep
  BY DEF Return, At, Fetching
<1>2. FramesOK(frames) /\ FuncIndex(frames) \in 1..Len(frames) /\ CurrentFunc \in Frame
  BY <1>1, FuncIndexType DEF IInv, StacksOK
<1>3. Carries(CurrentFunc) \in Seq(AnyType)
  BY <1>2, CarriesType
<1>4. CASE CanUnwind(Carries(CurrentFunc), "function")
  <2>1. /\ opd' = Unwound(Carries(CurrentFunc), "function")
        /\ frames' = SubSeq(frames, 1, FuncIndex(frames) - 1) /\ Proceed
    BY <1>4 DEF Return
  <2>2. FuncIndex(frames) - 1 \in 0..Len(frames)
    BY <1>2
  <2>3. FramesOK(SubSeq(frames, 1, FuncIndex(frames) - 1))
    BY <1>2, <2>2, PrefixOK
  <2>4. StacksOK(frames', opd')
    BY <1>3, <1>4, <2>1, <2>3, UnwoundType DEF StacksOK
  <2>. QED BY <1>1, <2>1, <2>4, ProceedFine, KeepIInv
<1>5. CASE ~CanUnwind(Carries(CurrentFunc), "function")
  <2>1. PopFails(opd, Carries(CurrentFunc), Advanced)
    BY <1>5 DEF Return
  <2>. QED BY <1>1, <2>1, AdvancedOK, PopFailsFine, KeepIInv
<1>. QED BY <1>4, <1>5

----------------------------------------------------------------------------
(* Branches *)

LEMMA FramesAfterBranchOK ==
  ASSUME IInv, frames # << >>, NEW l \in Nat, l < Len(Advanced)
  PROVE  FramesOK(FramesAfterBranch(l))
<1>. DEFINE t == Len(Advanced) - l
<1>1. FramesOK(Advanced) /\ Advanced \in Seq(Frame) /\ Len(Advanced) \in Nat
  BY AdvancedOK DEF FramesOK
<1>2. t \in 1..Len(Advanced) /\ t \in 0..Len(Advanced) /\ t - 1 \in 0..Len(Advanced)
  BY <1>1
<1>3. FramesOK(SubSeq(Advanced, 1, t - 1))
  BY <1>1, <1>2, PrefixOK
<1>4. PICK fs : fs = SubSeq(Advanced, 1, t)
  OBVIOUS
<1>5. FramesOK(fs) /\ fs \in Seq(Frame) /\ Len(fs) = t
  <2>1. FramesOK(fs)
    BY <1>1, <1>2, <1>4, PrefixOK
  <2>2. Len(fs) = t
    BY <1>1, <1>2, <1>4, SubSeqProperties
  <2>. QED BY <2>1, <2>2 DEF FramesOK
<1>6. PICK f : f = [fs[t] EXCEPT !.ip = 0]
  OBVIOUS
<1>7. t \in 1..Len(fs) /\ fs[t] \in Frame
  BY <1>2, <1>5, ElementOfSeq
<1>8. f \in Frame /\ f.context = fs[t].context
  BY <1>6, <1>7 DEF Frame
<1>9. [fs EXCEPT ![t] = f] = [fs EXCEPT ![t].ip = 0]
  BY <1>6
<1>10. FramesOK([fs EXCEPT ![t].ip = 0])
  BY <1>5, <1>7, <1>8, <1>9, ExceptOK
<1>. QED BY <1>3, <1>4, <1>10 DEF FramesAfterBranch

LEMMA BranchFine ==
  ASSUME IInv, Running, frames # << >>, NEW l \in Nat, NEW s \in Seq(Entries), Branch(l, s)
  PROVE  Fine
<1>. DEFINE t    == Len(Advanced) - l
            res  == Carries(Advanced[t])
            body == Dropped(s, Len(res))
<1>1. FramesOK(Advanced) /\ Advanced \in Seq(Frame) /\ Len(Advanced) \in Nat
  BY AdvancedOK DEF FramesOK
<1>2. CASE l >= Len(Advanced)
  <2>1. frames' = Advanced /\ opd' = s /\ Raise("VECTOR_EXCEPTION")
    BY <1>2 DEF Branch
  <2>2. StacksOK(frames', opd')
    BY <1>1, <2>1 DEF StacksOK
  <2>. QED BY <2>1, <2>2, RaiseFine DEF Exceptions
<1>3. CASE l < Len(Advanced)
  <2>1. t \in 1..Len(Advanced)
    BY <1>1, <1>3
  <2>2. Advanced[t] \in Frame
    BY <1>1, <2>1, ElementOfSeq
  <2>3. res \in Seq(AnyType)
    BY <2>2, CarriesType
  <2>4. CASE ~Holds(s, res)
    <3>1. PopFails(s, res, Advanced)
      BY <1>1, <1>3, <2>4 DEF Branch
    <3>. QED BY <1>1, <3>1, PopFailsFine
  <2>5. CASE Holds(s, res)
    <3>1. Len(res) \in Nat /\ Len(res) <= Len(s)
      BY <2>3, <2>5, HoldsValues
    <3>2. body \in Seq(Entries) /\ Kept(s, Len(res)) \in Seq(Entries)
      BY <3>1, DroppedType, KeptType
    <3>3. MarkerCount(body) \in Nat
      BY <3>2, RankType
    <3>4. CASE MarkerCount(body) <= l
      <4>1. /\ frames' = SubSeq(Advanced, 1, Len(Advanced) - MarkerCount(body))
            /\ opd' = << >> /\ Raise("VECTOR_EXCEPTION")
        BY <1>1, <1>3, <2>5, <3>4 DEF Branch
      <4>2. Len(Advanced) - MarkerCount(body) \in 0..Len(Advanced)
        BY <1>1, <1>3, <3>3, <3>4
      <4>3. FramesOK(SubSeq(Advanced, 1, Len(Advanced) - MarkerCount(body)))
        BY <1>1, <4>2, PrefixOK
      <4>4. StacksOK(frames', opd')
        BY <4>1, <4>3, EmptySeq DEF StacksOK
      <4>. QED BY <4>1, <4>4, RaiseFine DEF Exceptions
    <3>5. CASE ~(MarkerCount(body) <= l)
      <4>1. /\ frames' = FramesAfterBranch(l)
            /\ opd' = BelowMarkers(body, l + 1) \o MarkerAgain(Advanced[t]) \o Kept(s, Len(res))
            /\ Proceed
        BY <1>1, <1>3, <2>5, <3>5 DEF Branch
      <4>2. l + 1 \in 1..MarkerCount(body)
        BY <3>3, <3>5
      <4>3. BelowMarkers(body, l + 1) \in Seq(Entries)
        BY <3>2, <4>2, BelowMarkersType
      <4>4. MarkerAgain(Advanced[t]) \in Seq(Entries)
        BY EmptySeq DEF MarkerAgain, Entries
      <4>5. BelowMarkers(body, l + 1) \o MarkerAgain(Advanced[t]) \in Seq(Entries)
        BY <4>3, <4>4, ConcatProperties
      <4>6. opd' \in Seq(Entries)
        BY <3>2, <4>1, <4>5, ConcatProperties
      <4>7. StacksOK(frames', opd')
        BY <1>3, <4>1, <4>6, FramesAfterBranchOK DEF StacksOK
      <4>. QED BY <4>1, <4>7, ProceedFine
    <3>. QED BY <3>4, <3>5
  <2>. QED BY <2>4, <2>5
<1>. QED BY <1>1, <1>2, <1>3

LEMMA BrTyped == IInv /\ Br => IInv'
<1>. SUFFICES ASSUME IInv, Br PROVE IInv'
  OBVIOUS
<1>1. /\ Rest \in Seq(Entries) /\ frames # << >> /\ Running
      /\ Fetched \in Instr(Blocks(prog)) /\ Fetched.op = "br"
  BY AtType DEF Br, At, Fetching
<1>2. Fetched.label \in Nat
  BY <1>1 DEF Instr
<1>. QED BY <1>1, <1>2, BranchFine, KeepIInv DEF Br

LEMMA BrIfTyped == IInv /\ BrIf => IInv'
<1>. SUFFICES ASSUME IInv, BrIf PROVE IInv'
  OBVIOUS
<1>1. /\ Rest \in Seq(Entries) /\ frames # << >> /\ Running /\ Keep
      /\ Fetched \in Instr(Blocks(prog)) /\ Fetched.op = "br_if"
  BY AtType DEF BrIf, At, Fetching
<1>2. Fetched.label \in Nat
  BY <1>1 DEF Instr
<1>3. CASE Popped(opd, 1).val # 0
  BY <1>1, <1>2, <1>3, BranchFine, KeepIInv DEF BrIf
<1>4. CASE Popped(opd, 1).val = 0
  BY <1>1, <1>4, AdvanceFine, KeepIInv DEF BrIf
<1>. QED BY <1>3, <1>4

\* br_table also marks its instruction as overwritten.
LEMMA BrTableTyped == IInv /\ BrTable => IInv'
<1>. SUFFICES ASSUME IInv, BrTable PROVE IInv'
  OBVIOUS
<1>. DEFINE v == Popped(opd, 1).val
            l == IF v < Len(Fetched.labels) THEN Fetched.labels[v + 1] ELSE Fetched.default
<1>1. /\ Rest \in Seq(Entries) /\ frames # << >> /\ Running /\ Fetching
      /\ Fetched \in Instr(Blocks(prog)) /\ Fetched.op = "br_table"
      /\ \A k \in 1..Len(Needs(Fetched)) : Popped(opd, k) \in Values
  BY AtType DEF BrTable, At, Fetching
<1>2. Fetched.labels \in Seq(Nat) /\ Fetched.default \in Nat
  BY <1>1 DEF Instr
<1>3. v \in Nat
  <2>1. Len(Needs(Fetched)) = 1
    BY <1>1 DEF Needs
  <2>2. Popped(opd, 1) \in Values
    BY <1>1, <2>1
  <2>. QED BY <2>2, CodeAssumption, ControlAssumption DEF Values
<1>4. l \in Nat
  <2>1. v < Len(Fetched.labels) => v + 1 \in 1..Len(Fetched.labels)
    BY <1>2, <1>3
  <2>. QED BY <1>2, <2>1, ElementOfSeq
<1>5. Fine
  <2>1. CASE Site \in clobbered
    BY <2>1, DieFine DEF BrTable, Deaths
  <2>2. CASE Site \notin clobbered
    <3>1. Branch(l, Rest)
      BY <2>2 DEF BrTable
    <3>. QED BY <1>1, <1>4, <3>1, BranchFine
  <2>. QED BY <2>1, <2>2
<1>6. Site \in Blocks(prog) \X Nat
  BY <1>1, FetchedType DEF Site, Frame
<1>7. /\ prog' = prog /\ globals' = globals /\ callee' = callee /\ invocations' = invocations
      /\ clobbered' = clobbered \cup {Site}
  BY DEF BrTable
<1>8. Frame' = Frame /\ Blocks(prog)' = Blocks(prog)
  BY <1>7, FrameUnchanged
<1>9. StacksOK(frames, opd)'
  BY <1>5, <1>8 DEF Fine, StacksOK, FramesOK
<1>10. CalleeOK'
  BY <1>5, <1>7 DEF IInv, CalleeOK, Fine
<1>11. (clobbered \subseteq Blocks(prog) \X Nat)'
  BY <1>6, <1>7, <1>8 DEF IInv
<1>. QED BY <1>5, <1>7, <1>9, <1>10, <1>11 DEF IInv, Fine

----------------------------------------------------------------------------
(* Numeric, memory, parametric and variable opcodes *)

LEMMA AbsentTyped == IInv /\ Absent => IInv'
<1>. SUFFICES ASSUME IInv, Absent PROVE IInv'
  OBVIOUS
<1>1. Running /\ frames # << >> /\ Keep
  BY DEF Absent, Fetching
<1>2. PICK code \in {"NO_MEMORY", "VECTOR_EXCEPTION"} : Raise(code)
  BY DEF Absent
<1>3. StacksOK(frames', opd')
  BY <1>1, AdvancedOK DEF Absent, IInv, StacksOK
<1>. QED BY <1>1, <1>2, <1>3, RaiseFine, KeepIInv DEF Exceptions

LEMMA BadOperandTyped == IInv /\ BadOperand => IInv'
  BY AdvancedOK, PopFailsFine, KeepIInv DEF BadOperand, Fetching

\* A handler that leaves the frames alone and pushes at most one value.
LEMMA PushTyped ==
  ASSUME IInv, NEW ops, At(ops), NEW s \in Seq(Entries), NEW e \in Values,
         opd' = s \/ opd' = Append(s, e), Advance, Keep
  PROVE  IInv'
<1>1. frames # << >>
  BY AtType
<1>2. e \in Entries
  BY DEF Entries
<1>3. opd' \in Seq(Entries)
  BY <1>2, AppendProperties
<1>. QED BY <1>1, <1>3, AdvanceFine, KeepIInv

LEMMA PlainTyped ==
  IInv /\ (Const \/ Numeric \/ BitCount \/ Load \/ Store \/ Nop) => IInv'
<1>. SUFFICES ASSUME IInv, Const \/ Numeric \/ BitCount \/ Load \/ Store \/ Nop PROVE IInv'
  OBVIOUS
<1>1. ValType \subseteq AnyType
  BY DEF AnyType
<1>2. CASE Const
  <2>1. At({"const"}) /\ Fetched.op = "const"
    BY <1>2 DEF Const, At
  <2>2. Fetched.t \in AnyType /\ Fetched.v \in Val
    BY <1>1, <2>1, AtType DEF Instr
  <2>. QED BY <1>2, <2>1, <2>2, ValueType, AtType, PushTyped DEF Const
<1>3. CASE Numeric
  <2>1. At({"numeric"}) /\ Fetched.op = "numeric"
    BY <1>3 DEF Numeric, At
  <2>2. Fetched.push \in AnyType
    BY <1>1, <2>1, AtType DEF Instr
  <2>3. PICK v \in Val : opd' = Append(Rest, Value(Fetched.push, v))
    BY <1>3 DEF Numeric
  <2>. QED BY <1>3, <2>1, <2>2, <2>3, ValueType, AtType, PushTyped DEF Numeric
<1>4. CASE BitCount
  <2>1. At({"bitcount"}) /\ Fetched.op = "bitcount"
    BY <1>4 DEF BitCount, At
  <2>2. Fetched.t \in AnyType
    BY <1>1, <2>1, AtType DEF Instr
  <2>3. PICK v \in Val : opd' = Append(opd, Value(Fetched.t, v))
    BY <1>4 DEF BitCount
  <2>. QED BY <1>4, <2>1, <2>2, <2>3, ValueType, AtType, PushTyped DEF BitCount
<1>5. CASE Load
  <2>1. At({"load"}) /\ Fetched.op = "load"
    BY <1>5 DEF Load, At
  <2>2. Fetched.t \in AnyType
    BY <1>1, <2>1, AtType DEF Instr
  <2>3. PICK v \in Val : opd' = Append(Rest, Value(Fetched.t, v))
    BY <1>5 DEF Load
  <2>. QED BY <1>5, <2>1, <2>2, <2>3, ValueType, AtType, PushTyped DEF Load
<1>6. CASE Store
  BY <1>6, AtType, ZeroType, PushTyped DEF Store, AnyType
<1>7. CASE Nop
  BY <1>7, AtType, ZeroType, PushTyped DEF Nop, AnyType
<1>. QED BY <1>2, <1>3, <1>4, <1>5, <1>6, <1>7

\* The two handlers that can end the process.
LEMMA DieTyped ==
  ASSUME IInv, NEW cause \in Deaths, Die(cause), Keep
  PROVE  IInv'
  BY DieFine, KeepIInv

LEMMA LethalTyped == IInv /\ (Divide \/ MemorySize) => IInv'
<1>1. ASSUME IInv, Divide PROVE IInv'
  <2>1. At({"divide"}) /\ Fetched.op = "divide" /\ Keep
    BY <1>1 DEF Divide, At
  <2>2. Fetched.t \in AnyType
    BY <1>1, <2>1, AtType DEF Instr, AnyType
  <2>3. CASE Die("arithmetic")
    BY <1>1, <2>1, <2>3, DieTyped DEF Deaths
  <2>4. CASE Advance /\ \E v \in Val : opd' = Append(Rest, Value(Fetched.t, v))
    BY <1>1, <2>1, <2>2, <2>4, ValueType, AtType, PushTyped
  <2>. QED BY <1>1, <2>3, <2>4 DEF Divide
<1>2. ASSUME IInv, MemorySize PROVE IInv'
  <2>1. At({"memory.size"}) /\ Keep
    BY <1>2 DEF MemorySize
  <2>2. CASE Die("segfault")
    BY <1>2, <2>1, <2>2, DieTyped DEF Deaths
  <2>3. CASE Advance /\ \E v \in Val : opd' = Append(opd, Value("i32", v))
    BY <1>2, <2>1, <2>3, ValueType, AtType, PushTyped DEF AnyType, ValType
  <2>. QED BY <1>2, <2>2, <2>3 DEF MemorySize
<1>. QED BY <1>1, <1>2

LEMMA TrapsTyped == IInv /\ (MemoryTrap \/ MemoryGrow \/ Unreachable) => IInv'
  BY TrapFine DEF MemoryTrap, MemoryGrow, Unreachable, Exceptions

LEMMA DropTyped == IInv /\ Drop => IInv'
<1>. SUFFICES ASSUME IInv, Drop PROVE IInv'
  OBVIOUS
<1>1. opd \in Seq(Entries) /\ frames # << >> /\ Running /\ Keep
  BY AtType DEF Drop, At, Fetching
<1>2. CASE opd # << >>
  <2>1. Len(opd) >= 1
    BY <1>1, <1>2, EmptySeq
  <2>2. Dropped(opd, 1) \in Seq(Entries)
    BY <1>1, <2>1, DroppedType
  <2>. QED BY <1>1, <1>2, <2>2, AdvanceFine, KeepIInv DEF Drop
<1>3. CASE opd = << >>
  <2>1. frames' = Advanced /\ opd' = opd /\ Raise("VECTOR_EXCEPTION")
    BY <1>3 DEF Drop
  <2>2. StacksOK(frames', opd')
    BY <1>1, <2>1, AdvancedOK DEF StacksOK
  <2>. QED BY <1>1, <2>1, <2>2, RaiseFine, KeepIInv DEF Exceptions
<1>. QED BY <1>2, <1>3

LEMMA SelectTyped == IInv /\ Select => IInv'
<1>. SUFFICES ASSUME IInv, Select PROVE IInv'
  OBVIOUS
<1>1. At({"select"}) /\ Fetched.op = "select"
  BY DEF Select, At
<1>2. Len(Needs(Fetched)) = 3
  BY <1>1 DEF Needs
<1>3. Popped(opd, 2) \in Values /\ Popped(opd, 3) \in Values
  BY <1>1, <1>2, AtType
<1>4. PICK e : e = IF Popped(opd, 1).val # 0 THEN Popped(opd, 3) ELSE Popped(opd, 2)
  OBVIOUS
<1>5. e \in Values /\ opd' = Append(Rest, e)
  BY <1>3, <1>4 DEF Select
<1>. QED BY <1>1, <1>5, AtType, PushTyped DEF Select

LEMMA LocalGetTyped == IInv /\ LocalGet => IInv'
<1>. SUFFICES ASSUME IInv, LocalGet PROVE IInv'
  OBVIOUS
<1>1. At({"local.get"}) /\ Fetched.op = "local.get" /\ Present(Fetched)
  BY DEF LocalGet, At
<1>2. Fetched.idx \in Nat /\ CurrentFunc.locals \in Seq(Values)
  BY <1>1, AtType, FuncIndexType DEF Instr, Frame
<1>3. Fetched.idx + 1 \in 1..Len(CurrentFunc.locals)
  BY <1>1, <1>2 DEF Present
<1>4. CurrentFunc.locals[Fetched.idx + 1] \in Values
  BY <1>2, <1>3, ElementOfSeq
<1>. QED BY <1>1, <1>4, AtType, PushTyped DEF LocalGet

LEMMA GlobalGetTyped == IInv /\ GlobalGet => IInv'
<1>. SUFFICES ASSUME IInv, GlobalGet PROVE IInv'
  OBVIOUS
<1>1. At({"global.get"}) /\ Fetched.op = "global.get" /\ Present(Fetched)
  BY DEF GlobalGet, At
<1>2. Fetched.idx \in Nat /\ globals \in Seq(Values)
  BY <1>1, AtType DEF Instr, IInv
<1>3. Fetched.idx + 1 \in 1..Len(globals)
  BY <1>1, <1>2 DEF Present
<1>4. globals[Fetched.idx + 1] \in Values
  BY <1>2, <1>3, ElementOfSeq
<1>. QED BY <1>1, <1>4, AtType, PushTyped DEF GlobalGet

\* global.set is the one handler that changes the globals.
LEMMA GlobalSetTyped == IInv /\ GlobalSet => IInv'
<1>. SUFFICES ASSUME IInv, GlobalSet PROVE IInv'
  OBVIOUS
<1>1. /\ At({"global.set"}) /\ Fetched.op = "global.set" /\ Present(Fetched)
      /\ frames # << >> /\ Rest \in Seq(Entries)
  BY AtType DEF GlobalSet, At
<1>2. Len(Needs(Fetched)) = 1
  BY <1>1 DEF Needs
<1>3. Popped(opd, 1) \in Values
  BY <1>1, <1>2, AtType
<1>4. globals \in Seq(Values)
  BY DEF IInv
<1>5. globals' \in Seq(Values) /\ Len(globals') = Len(globals)
  <2>1. Fetched.idx \in Nat
    BY <1>1, AtType DEF Instr
  <2>2. Fetched.idx + 1 \in 1..Len(globals)
    BY <1>1, <1>4, <2>1 DEF Present
  <2>. QED BY <1>3, <1>4, <2>2, ExceptSeq DEF GlobalSet
<1>6. Fine
  BY <1>1, AdvanceFine DEF GlobalSet
<1>7. /\ prog' = prog /\ clobbered' = clobbered /\ callee' = callee /\ invocations' = invocations
  BY DEF GlobalSet
<1>8. Frame' = Frame /\ Blocks(prog)' = Blocks(prog)
  BY <1>7, FrameUnchanged
<1>9. StacksOK(frames, opd)'
  BY <1>6, <1>8 DEF Fine, StacksOK, FramesOK
<1>10. CalleeOK'
  BY <1>6, <1>7 DEF IInv, CalleeOK, Fine
<1>. QED BY <1>5, <1>6, <1>7, <1>8, <1>9, <1>10 DEF IInv, Fine

\* local.set and local.tee store into the activation, below the top frame.
LEMMA LocalSetTyped == IInv /\ LocalSet => IInv'
<1>. SUFFICES ASSUME IInv, LocalSet PROVE IInv'
  OBVIOUS
<1>. DEFINE n == FuncIndex(frames)
            j == Fetched.idx + 1
<1>1. /\ At({"local.set", "local.tee"}) /\ Fetched.op \in {"local.set", "local.tee"}
      /\ Present(Fetched) /\ frames # << >> /\ Keep /\ Proceed
      /\ Rest \in Seq(Entries) /\ opd \in Seq(Entries)
  BY AtType DEF LocalSet, At
<1>2. Len(Needs(Fetched)) = 1
  BY <1>1 DEF Needs
<1>3. Popped(opd, 1) \in Values
  BY <1>1, <1>2, AtType
<1>4. /\ n \in 1..Len(frames) /\ Fetched.idx \in Nat
      /\ FramesOK(Advanced) /\ Len(Advanced) = Len(frames)
      /\ Advanced[n] \in Frame /\ Advanced[n].locals = CurrentFunc.locals
  BY <1>1, AtType, FuncIndexType, AdvancedOK DEF Instr, CurrentFunc
<1>5. Advanced[n].locals \in Seq(Values) /\ j \in 1..Len(Advanced[n].locals)
  <2>1. Advanced[n].locals \in Seq(Values)
    BY <1>4 DEF Frame
  <2>2. Fetched.idx < Len(Advanced[n].locals)
    BY <1>1, <1>4 DEF Present
  <2>. QED BY <1>4, <2>1, <2>2
<1>6. PICK locals : locals = [Advanced[n].locals EXCEPT ![j] = Popped(opd, 1)]
  OBVIOUS
<1>7. locals \in Seq(Values)
  BY <1>3, <1>5, <1>6, ExceptSeq
<1>8. PICK f : f = [Advanced[n] EXCEPT !.locals = locals]
  OBVIOUS
<1>9. f \in Frame /\ f.context = Advanced[n].context
  BY <1>4, <1>7, <1>8 DEF Frame
<1>10. frames' = [Advanced EXCEPT ![n] = f]
  BY <1>6, <1>8 DEF LocalSet
<1>11. FramesOK(frames')
  BY <1>4, <1>9, <1>10, ExceptOK
<1>12. opd' \in Seq(Entries)
  BY <1>1 DEF LocalSet
<1>. QED BY <1>1, <1>11, <1>12, ProceedFine, KeepIInv DEF StacksOK

----------------------------------------------------------------------------
(* Blocks and calls *)

LEMMA OpenTyped ==
  ASSUME IInv, frames # << >>, NEW body \in Blocks(prog), Fetched.rt \in ResultType,
         NEW context \in {"control", "loop"}, NEW s \in Seq(Entries), Open(body, context, s)
  PROVE  IInv'
<1>1. FramesOK(Advanced) /\ Advanced # << >>
  BY AdvancedOK
<1>2. BlockFrame(body, Fetched.rt, context) \in Frame
  BY BlockFrameType
<1>3. FramesOK(frames')
  BY <1>1, <1>2, AppendOK DEF Open
<1>4. opd' \in Seq(Entries)
  BY AppendProperties DEF Open, Entries
<1>. QED BY <1>3, <1>4, ProceedFine, KeepIInv DEF Open, StacksOK

LEMMA EnterTyped == IInv /\ (EnterBlock \/ EnterLoop \/ EnterThen \/ EnterElse) => IInv'
<1>. SUFFICES ASSUME IInv, EnterBlock \/ EnterLoop \/ EnterThen \/ EnterElse PROVE IInv'
  OBVIOUS
<1>1. /\ Rest \in Seq(Entries) /\ frames # << >> /\ Fetched \in Instr(Blocks(prog))
      /\ Fetched.op \in {"block", "loop", "if"}
  BY AtType DEF EnterBlock, EnterLoop, EnterThen, EnterElse, At
<1>2. Fetched.rt \in ResultType
  BY <1>1 DEF Instr
<1>3. CASE EnterBlock
  <2>1. Fetched.body \in Blocks(prog)
    BY <1>1, <1>3 DEF EnterBlock, At, Instr
  <2>. QED BY <1>1, <1>2, <1>3, <2>1, OpenTyped DEF EnterBlock
<1>4. CASE EnterLoop
  <2>1. Fetched.body \in Blocks(prog)
    BY <1>1, <1>4 DEF EnterLoop, At, Instr
  <2>. QED BY <1>1, <1>2, <1>4, <2>1, OpenTyped DEF EnterLoop
<1>5. CASE EnterThen
  <2>1. Fetched.then \in Blocks(prog)
    BY <1>1, <1>5 DEF EnterThen, At, Instr
  <2>. QED BY <1>1, <1>2, <1>5, <2>1, OpenTyped DEF EnterThen
<1>6. CASE EnterElse /\ Fetched.else # NoBlock
  <2>1. Fetched.else \in Blocks(prog)
    BY <1>1, <1>6 DEF EnterElse, At, Instr
  <2>. QED BY <1>1, <1>2, <1>6, <2>1, OpenTyped DEF EnterElse
<1>7. CASE EnterElse /\ Fetched.else = NoBlock
  <2>1. opd' = Append(Rest, LabelMarker) /\ Advance /\ Keep
    BY <1>7 DEF EnterElse
  <2>2. opd' \in Seq(Entries)
    BY <1>1, <2>1, AppendProperties DEF Entries
  <2>. QED BY <1>1, <2>1, <2>2, AdvanceFine, KeepIInv
<1>. QED BY <1>3, <1>4, <1>5, <1>6, <1>7

\* eval_call, whether it finds its arguments or not.
LEMMA CallTyped ==
  ASSUME IInv, Running, frames # << >>, NEW f \in Func(Blocks(prog)), NEW s \in Seq(Entries),
         Enter(f, s)
  PROVE  IInv'
<1>1. FramesOK(Advanced) /\ f.t1 \in Seq(ValType) /\ Keep
  BY AdvancedOK DEF Func, ValueTypes, Enter
<1>2. CASE Holds(s, f.t1)
  <2>1. Kept(s, Len(f.t1)) \in Seq(Values) /\ Len(f.t1) \in Nat /\ Len(f.t1) <= Len(s)
    BY <1>1, <1>2, KeptValues, HoldsValues
  <2>2. FramesOK(frames')
    BY <1>1, <1>2, <2>1, FuncFrameType, AppendOK DEF Enter
  <2>3. Dropped(s, Len(f.t1)) \in Seq(Entries)
    BY <2>1, DroppedType
  <2>4. opd' \in Seq(Entries)
    BY <1>2, <2>3, AppendProperties DEF Enter, Entries
  <2>. QED BY <1>1, <1>2, <2>2, <2>4, ProceedFine, KeepIInv DEF Enter, StacksOK
<1>3. CASE ~Holds(s, f.t1)
  <2>1. PopFails(s, f.t1, Append(Advanced, PartialFrame(f, s)))
    BY <1>3 DEF Enter
  <2>2. CASE Mismatch(s, f.t1)
    BY <1>1, <2>1, <2>2, DieFine, KeepIInv DEF PopFails, Deaths
  <2>3. CASE ~Mismatch(s, f.t1)
    <3>1. s \in Seq(Values) /\ Len(s) < Len(f.t1)
      BY <1>1, <1>3, <2>3, EmptiedValues
    <3>2. FramesOK(Append(Advanced, PartialFrame(f, s)))
      BY <1>1, <3>1, PartialFrameType, AppendOK
    <3>. QED BY <1>1, <2>1, <3>2, PopFailsFine, KeepIInv
  <2>. QED BY <2>2, <2>3
<1>. QED BY <1>2, <1>3

LEMMA FuncsType ==
  ASSUME IInv, NEW k \in Nat, k < Len(prog.funcs)
  PROVE  prog.funcs[k + 1] \in Func(Blocks(prog))
<1>1. prog.funcs \in Seq(Func(Blocks(prog)))
  BY ProgramType DEF IsProgram
<1>2. k + 1 \in 1..Len(prog.funcs)
  BY <1>1
<1>. QED BY <1>1, <1>2, ElementOfSeq

LEMMA CallsTyped == IInv /\ (Call \/ CallIndirect) => IInv'
<1>. SUFFICES ASSUME IInv, Call \/ CallIndirect PROVE IInv'
  OBVIOUS
<1>1. /\ Rest \in Seq(Entries) /\ opd \in Seq(Entries) /\ frames # << >> /\ Running
      /\ Fetched \in Instr(Blocks(prog)) /\ Present(Fetched)
  BY AtType DEF Call, CallIndirect, At, Fetching
<1>2. CASE Call
  <2>1. Fetched.op = "call"
    BY <1>2 DEF Call, At
  <2>2. Fetched.func \in Nat /\ Fetched.func < Len(prog.funcs)
    BY <1>1, <2>1 DEF Instr, Present
  <2>. QED BY <1>1, <1>2, <2>2, FuncsType, CallTyped DEF Call
<1>3. CASE CallIndirect
  <2>. DEFINE v     == Popped(opd, 1).val
              entry == prog.table[v + 1]
  <2>1. At({"call_indirect"}) /\ Fetched.op = "call_indirect"
    BY <1>3 DEF CallIndirect, At
  <2>2. v \in Nat
    <3>1. Len(Needs(Fetched)) = 1
      BY <2>1 DEF Needs
    <3>2. Popped(opd, 1) \in Values
      BY <2>1, <3>1, AtType
    <3>. QED BY <3>2, CodeAssumption, ControlAssumption DEF Values
  <2>3. CASE v >= Len(prog.table)
    BY <1>3, <2>1, <2>3, TrapFine DEF CallIndirect, Exceptions
  <2>4. CASE v < Len(prog.table)
    <3>1. prog.table \in Seq([initialized : BOOLEAN, func : Nat])
      BY ProgramType DEF IsProgram
    <3>2. v + 1 \in 1..Len(prog.table)
      BY <2>2, <2>4, <3>1
    <3>3. entry.func \in Nat
      <4>1. entry \in [initialized : BOOLEAN, func : Nat]
        BY <3>1, <3>2, ElementOfSeq
      <4>. QED BY <4>1
    <3>4. CASE ~entry.initialized
      BY <1>3, <2>1, <2>2, <2>4, <3>1, <3>4, TrapFine DEF CallIndirect, Exceptions
    <3>5. CASE entry.initialized /\ entry.func >= Len(prog.funcs)
      BY <1>3, <2>1, <2>2, <2>4, <3>1, <3>5, TrapFine DEF CallIndirect, Exceptions
    <3>6. CASE entry.initialized /\ entry.func < Len(prog.funcs)
      <4>1. Enter(prog.funcs[entry.func + 1], Rest)
        <5>1. prog.funcs \in Seq(Func(Blocks(prog)))
          BY ProgramType DEF IsProgram
        <5>. QED BY <1>3, <2>2, <2>4, <3>1, <3>3, <3>6, <5>1 DEF CallIndirect
      <4>. QED BY <1>1, <3>3, <3>6, <4>1, FuncsType, CallTyped
    <3>. QED BY <3>1, <3>3, <3>4, <3>5, <3>6, ProgramType DEF IsProgram
  <2>. QED BY <2>2, <2>3, <2>4, ProgramType DEF IsProgram
<1>. QED BY <1>2, <1>3

----------------------------------------------------------------------------
(* The host *)

LEMMA FinishTyped == IInv /\ Finish => IInv'
<1>. SUFFICES ASSUME IInv, Finish PROVE IInv'
  OBVIOUS
<1>. DEFINE t2 == prog.funcs[callee + 1].t2
<1>1. /\ mode = "run" /\ Running /\ Keep /\ FramesOK(frames) /\ opd \in Seq(Entries)
  BY DEF Finish, Running, IInv, StacksOK
<1>2. t2 \in Seq(ValType)
  <2>1. callee \in Nat /\ callee < Len(prog.funcs)
    BY <1>1 DEF IInv, CalleeOK
  <2>2. prog.funcs[callee + 1] \in Func(Blocks(prog))
    BY <2>1, FuncsType
  <2>. QED BY <2>2 DEF Func, ValueTypes
<1>3. CASE Len(t2) > 1
  <2>1. frames' = frames /\ opd' = opd /\ Raise("ONLY_ONE_RETURN_VALUE_ALLOWED")
    BY <1>3 DEF Finish
  <2>. QED BY <1>1, <2>1, RaiseFine, KeepIInv DEF StacksOK, Exceptions
<1>4. CASE ~(Len(t2) > 1) /\ ~Holds(opd, t2)
  <2>1. PopFails(opd, t2, frames)
    BY <1>4 DEF Finish
  <2>. QED BY <1>1, <2>1, PopFailsFine, KeepIInv
<1>5. CASE ~(Len(t2) > 1) /\ Holds(opd, t2)
  <2>1. /\ opd' = Dropped(opd, Len(t2)) /\ frames' = frames
        /\ IF Len(opd) > Len(t2) THEN Raise("OPERAND_STACK_NOT_EMPTY")
           ELSE mode' = "idle" /\ outcome' = "returned"
    BY <1>5 DEF Finish
  <2>2. Len(t2) \in Nat /\ Len(t2) <= Len(opd)
    BY <1>1, <1>2, <1>5, HoldsValues
  <2>3. StacksOK(frames', opd')
    BY <1>1, <2>1, <2>2, DroppedType DEF StacksOK
  <2>4. CASE Len(opd) > Len(t2)
    BY <1>1, <2>1, <2>3, <2>4, RaiseFine, KeepIInv DEF Exceptions
  <2>5. CASE ~(Len(opd) > Len(t2))
    <3>1. Fine
      BY <2>1, <2>3, <2>5 DEF Fine, Modes, Outcomes
    <3>. QED BY <1>1, <3>1, KeepIInv
  <2>. QED BY <2>4, <2>5
<1>. QED BY <1>3, <1>4, <1>5

LEMMA StartDoneTyped == IInv /\ StartDone => IInv'
<1>. SUFFICES ASSUME IInv, StartDone PROVE IInv'
  OBVIOUS
<1>1. Fine
  BY DEF StartDone, IInv, Fine, Modes
<1>. QED BY <1>1, KeepIInv DEF StartDone

\* The host's call pushes an activation of an exported function.
LEMMA InvokeTyped == IInv /\ Invoke => IInv'
<1>. SUFFICES ASSUME IInv, Invoke PROVE IInv'
  OBVIOUS
<1>1. PICK k \in prog.exports :
        \E args \in [1..Len(prog.funcs[k + 1].t1) -> Val] :
          /\ frames' = Append(frames, FuncFrame(prog.funcs[k + 1],
                         [n \in 1..Len(prog.funcs[k + 1].t1) |->
                            Value(prog.funcs[k + 1].t1[n], args[n])]))
          /\ callee' = k
  BY DEF Invoke
<1>. DEFINE f == prog.funcs[k + 1]
<1>2. k \in Nat /\ k < Len(prog.funcs)
  <2>1. prog.exports \subseteq 0..Len(prog.funcs) - 1 /\ prog.funcs \in Seq(Func(Blocks(prog)))
    BY ProgramType DEF IsProgram
  <2>. QED BY <1>1, <2>1
<1>3. f \in Func(Blocks(prog)) /\ f.t1 \in Seq(ValType)
  <2>1. f \in Func(Blocks(prog))
    BY <1>2, FuncsType
  <2>. QED BY <2>1 DEF Func, ValueTypes
<1>4. PICK args \in [1..Len(f.t1) -> Val] :
        /\ frames' = Append(frames, FuncFrame(f, [n \in 1..Len(f.t1) |-> Value(f.t1[n], args[n])]))
        /\ callee' = k
  BY <1>1
<1>5. [n \in 1..Len(f.t1) |-> Value(f.t1[n], args[n])] \in Seq(Values)
  <2>1. \A n \in 1..Len(f.t1) : Value(f.t1[n], args[n]) \in Values
    BY <1>3, ValueType, ElementOfSeq DEF AnyType
  <2>. QED BY <1>3, <2>1, IsASeq
<1>6. FramesOK(frames')
  BY <1>3, <1>4, <1>5, FuncFrameType, AppendOK DEF IInv, StacksOK
<1>7. opd' \in Seq(Entries)
  BY AppendProperties DEF Invoke, Entries, IInv, StacksOK
<1>8. /\ prog' = prog /\ globals' = globals /\ clobbered' = clobbered
      /\ mode' = "run" /\ outcome' = "none" /\ invocations' \in 0..MaxInvocations
  BY CodeAssumption, ControlAssumption DEF Invoke, IInv
<1>9. Frame' = Frame /\ Blocks(prog)' = Blocks(prog)
  BY <1>8, FrameUnchanged
<1>10. StacksOK(frames, opd)'
  BY <1>6, <1>7, <1>9 DEF StacksOK, FramesOK
<1>11. CalleeOK' /\ callee' \in Nat
  BY <1>2, <1>4, <1>8 DEF CalleeOK
<1>. QED BY <1>8, <1>9, <1>10, <1>11 DEF IInv, Modes, Outcomes

LEMMA InvokeUnknownTyped == IInv /\ InvokeUnknown => IInv'
<1>. SUFFICES ASSUME IInv, InvokeUnknown PROVE IInv'
  OBVIOUS
<1>1. /\ prog' = prog /\ frames' = frames /\ opd' = opd /\ globals' = globals
      /\ clobbered' = clobbered /\ callee' = callee /\ mode' = mode
      /\ outcome' \in Outcomes /\ invocations' \in 0..MaxInvocations
  BY CodeAssumption, ControlAssumption DEF InvokeUnknown, IInv, Outcomes, Exceptions
<1>2. Frame' = Frame /\ Blocks(prog)' = Blocks(prog)
  BY <1>1, FrameUnchanged
<1>3. StacksOK(frames, opd)' /\ CalleeOK'
  BY <1>1, <1>2 DEF IInv, StacksOK, FramesOK, CalleeOK
<1>. QED BY <1>1, <1>2, <1>3 DEF IInv

LEMMA InitTyped == Init => IInv
<1>. SUFFICES ASSUME Init PROVE IInv
  OBVIOUS
<1>1. IsProgram(prog) /\ prog \in Programs
  BY CodeAssumption, ControlAssumption DEF Init
<1>2. CASE prog.start = << >>
  BY <1>1, <1>2, EmptySeq, CodeAssumption, ControlAssumption
  DEF Init, IInv, StacksOK, FramesOK, Modes, Outcomes, CalleeOK, IsProgram
<1>3. CASE prog.start # << >>
  <2>. DEFINE n == prog.start[1]
              f == prog.funcs[n + 1]
  <2>1. n \in Nat /\ n < Len(prog.funcs)
    <3>1. prog.start \in Seq(Nat)
      BY <1>1 DEF IsProgram
    <3>2. 1 \in 1..Len(prog.start)
      BY <1>3, <3>1, EmptySeq
    <3>. QED BY <1>1, <3>1, <3>2, ElementOfSeq DEF IsProgram
  <2>2. f \in Func(Blocks(prog))
    <3>1. prog.funcs \in Seq(Func(Blocks(prog)))
      BY <1>1 DEF IsProgram
    <3>2. n + 1 \in 1..Len(prog.funcs)
      BY <2>1, <3>1
    <3>. QED BY <3>1, <3>2, ElementOfSeq
  <2>3. FuncFrame(f, << >>) \in Frame /\ FuncFrame(f, << >>).context = "function"
    BY <2>2, FuncFrameType, EmptySeq
  <2>4. frames = <<FuncFrame(f, << >>)>> /\ opd = <<FuncMarker>> /\ mode = "start"
    BY <1>3 DEF Init
  <2>5. FramesOK(frames)
    <3>1. PICK g : g = FuncFrame(f, << >>)
      OBVIOUS
    <3>2. <<g>> \in Seq(Frame) /\ <<g>>[1] = g
      BY <2>3, <3>1
    <3>. QED BY <2>3, <2>4, <3>1, <3>2 DEF FramesOK
  <2>6. opd \in Seq(Entries)
    BY <2>4 DEF Entries
  <2>. QED BY <1>1, <2>4, <2>5, <2>6, CodeAssumption, ControlAssumption
       DEF Init, IInv, StacksOK, Modes, Outcomes, CalleeOK, IsProgram
<1>. QED BY <1>2, <1>3

LEMMA Inductive == IInv /\ [Next]_vars => IInv'
<1>. SUFFICES ASSUME IInv, [Next]_vars PROVE IInv'
  OBVIOUS
<1>1. CASE Step
  BY <1>1, FrameEndTyped, AbsentTyped, BadOperandTyped, PlainTyped, LethalTyped, TrapsTyped, DropTyped,
     SelectTyped, LocalGetTyped, LocalSetTyped, GlobalGetTyped, GlobalSetTyped, EnterTyped,
     BrTyped, BrIfTyped, BrTableTyped, ReturnTyped, CallsTyped, FinishTyped, StartDoneTyped
  DEF Step
<1>2. CASE Invoke \/ InvokeUnknown
  BY <1>2, InvokeTyped, InvokeUnknownTyped
<1>3. CASE UNCHANGED vars
  <2>1. /\ prog' = prog /\ frames' = frames /\ opd' = opd /\ globals' = globals
        /\ clobbered' = clobbered /\ callee' = callee /\ mode' = mode
        /\ outcome' = outcome /\ invocations' = invocations
    BY <1>3 DEF vars
  <2>2. Frame' = Frame /\ Blocks(prog)' = Blocks(prog)
    BY <2>1, FrameUnchanged
  <2>3. StacksOK(frames, opd)' /\ CalleeOK'
    BY <2>1, <2>2 DEF IInv, StacksOK, FramesOK, CalleeOK
  <2>. QED BY <2>1, <2>2, <2>3 DEF IInv
<1>. QED BY <1>1, <1>2, <1>3 DEF Next

----------------------------------------------------------------------------
(* The theorems about every module *)

\* Whatever the module, and however its runs end, the stacks of eval_state keep
\* their types.  In particular an ip is never negative, a restarted loop or a
\* local is never stored outside of its vector, and opd_stack holds values
\* with payloads and the two markers only.
THEOREM TypeCorrect == Spec => []TypeOK
<1>1. Spec => []IInv
  BY InitTyped, Inductive, PTL DEF Spec
<1>. QED BY <1>1, IInvImplies, PTL

\* A frame stack that is not empty has an activation at its bottom, so that
\* peek_func_frame never returns the NULL that local.get, local.set, local.tee
\* and return would dereference: also after an exception left its frames, and
\* after a branch whose label reaches past the function's own frames.
THEOREM ActivationAtBottom == Spec => []BottomIsActivation
<1>1. Spec => []IInv
  BY InitTyped, Inductive, PTL DEF Spec
<1>. QED BY <1>1, IInvImplies, PTL

----------------------------------------------------------------------------
(* The two stacks read as contexts *)

FrameSet(p) == [instrs : Blocks(p), ip : Nat, arity : Nat, result_type : AnyType,
                context : {"function", "control", "loop"}, locals : Seq(Values)]

ContextSet(p) == [instrs : Blocks(p), ip : Nat, kind : {"function", "control", "loop"},
                  result : Seq(AnyType), operands : Seq(Values), locals : Seq(Values)]

ContextRead(f, operands) ==
  [instrs |-> f.instrs, ip |-> f.ip, kind |-> f.context, result |-> Carries(f),
   operands |-> operands, locals |-> f.locals]

ContextsRead(fs, os) == [k \in 1..Len(fs) |-> ContextRead(fs[k], os[k])]

Kinds(fs) == [k \in 1..Len(fs) |-> MarkerOf(fs[k].context)]

\* The frames fs and the stack s are those of the contexts cs, with the values rs
\* below the first marker.
Sim(p, fs, s, cs, rs) ==
  /\ fs \in Seq(FrameSet(p))
  /\ \E os : Reads(s, Kinds(fs), os, rs) /\ cs = ContextsRead(fs, os)

LEMMA ContextReadType ==
  ASSUME NEW p, NEW f \in FrameSet(p), NEW o \in Seq(Values)
  PROVE  ContextRead(f, o) \in ContextSet(p) /\ MarkerOf(f.context) \in MarkerKind
<1>1. /\ f.instrs \in Blocks(p) /\ f.ip \in Nat /\ f.context \in {"function", "control", "loop"}
      /\ f.locals \in Seq(Values) /\ f.result_type \in AnyType
  BY DEF FrameSet
<1>2. Carries(f) \in Seq(AnyType)
  BY <1>1 DEF Carries
<1>3. ContextRead(f, o) \in ContextSet(p)
  BY <1>1, <1>2 DEF ContextRead, ContextSet
<1>4. MarkerOf(f.context) \in MarkerKind
  BY DEF MarkerOf, MarkerKind
<1>. QED BY <1>3, <1>4

LEMMA KindsType ==
  ASSUME NEW D, NEW fs \in Seq(D)
  PROVE  /\ Len(fs) \in Nat /\ Kinds(fs) \in Seq(MarkerKind) /\ Len(Kinds(fs)) = Len(fs)
         /\ \A k \in 1..Len(fs) : Kinds(fs)[k] = MarkerOf(fs[k].context)
<1>1. Len(fs) \in Nat /\ \A k \in 1..Len(fs) : MarkerOf(fs[k].context) \in MarkerKind
  BY DEF MarkerOf, MarkerKind
<1>2. Kinds(fs) \in Seq(MarkerKind)
  BY <1>1, IsASeq DEF Kinds
<1>3. Len(Kinds(fs)) = Len(fs)
  BY <1>1 DEF Kinds
<1>4. \A k \in 1..Len(fs) : Kinds(fs)[k] = MarkerOf(fs[k].context)
  BY DEF Kinds
<1>. QED BY <1>1, <1>2, <1>3, <1>4

LEMMA ContextsReadType ==
  ASSUME NEW p, NEW fs \in Seq(FrameSet(p)), NEW os \in Seq(Seq(Values)), Len(os) = Len(fs)
  PROVE  /\ ContextsRead(fs, os) \in Seq(ContextSet(p)) /\ Len(ContextsRead(fs, os)) = Len(fs)
         /\ \A k \in 1..Len(fs) : /\ fs[k] \in FrameSet(p) /\ os[k] \in Seq(Values)
                                  /\ ContextsRead(fs, os)[k] = ContextRead(fs[k], os[k])
<1>1. Len(fs) \in Nat
  OBVIOUS
<1>2. ASSUME NEW k \in 1..Len(fs)
      PROVE  /\ fs[k] \in FrameSet(p) /\ os[k] \in Seq(Values)
             /\ ContextRead(fs[k], os[k]) \in ContextSet(p)
  <2>1. fs[k] \in FrameSet(p) /\ os[k] \in Seq(Values)
    BY ElementOfSeq
  <2>. QED BY <2>1, ContextReadType
<1>3. ContextsRead(fs, os) \in Seq(ContextSet(p))
  BY <1>1, <1>2, IsASeq DEF ContextsRead
<1>4. Len(ContextsRead(fs, os)) = Len(fs)
  BY <1>1 DEF ContextsRead
<1>5. \A k \in 1..Len(fs) : ContextsRead(fs, os)[k] = ContextRead(fs[k], os[k])
  BY DEF ContextsRead
<1>. QED BY <1>2, <1>3, <1>4, <1>5

\* What is read of the stacks, with its types.
LEMMA SimType ==
  ASSUME NEW p, NEW fs, NEW s, NEW cs, NEW rs, Sim(p, fs, s, cs, rs)
  PROVE  \E os : /\ Reads(s, Kinds(fs), os, rs) /\ cs = ContextsRead(fs, os)
                 /\ fs \in Seq(FrameSet(p)) /\ os \in Seq(Seq(Values)) /\ Len(os) = Len(fs)
                 /\ Len(fs) \in Nat /\ Len(Kinds(fs)) = Len(fs)
<1>1. fs \in Seq(FrameSet(p))
  BY DEF Sim
<1>2. PICK os : Reads(s, Kinds(fs), os, rs) /\ cs = ContextsRead(fs, os)
  BY DEF Sim
<1>3. Len(fs) \in Nat /\ Len(Kinds(fs)) = Len(fs)
  BY <1>1, KindsType
<1>4. os \in Seq(Seq(Values)) /\ Len(os) = Len(fs)
  BY <1>2, <1>3, ReadsType
<1>. QED BY <1>1, <1>2, <1>3, <1>4

LEMMA SimParts ==
  ASSUME NEW p, NEW fs, NEW s, NEW cs, NEW rs, Sim(p, fs, s, cs, rs)
  PROVE  /\ fs \in Seq(FrameSet(p)) /\ cs \in Seq(ContextSet(p)) /\ s \in Seq(Entries)
         /\ rs \in Seq(Values) /\ Len(cs) = Len(fs) /\ Len(fs) \in Nat
         /\ \A k \in 1..Len(fs) :
              /\ fs[k] \in FrameSet(p) /\ cs[k].operands \in Seq(Values)
              /\ cs[k] = ContextRead(fs[k], cs[k].operands) /\ cs[k] \in ContextSet(p)
<1>1. PICK os : /\ Reads(s, Kinds(fs), os, rs) /\ cs = ContextsRead(fs, os)
                /\ fs \in Seq(FrameSet(p)) /\ os \in Seq(Seq(Values)) /\ Len(os) = Len(fs)
                /\ Len(fs) \in Nat
  BY SimType
<1>2. s \in Seq(Entries) /\ rs \in Seq(Values)
  BY <1>1, ReadsType
<1>3. /\ cs \in Seq(ContextSet(p)) /\ Len(cs) = Len(fs)
      /\ \A k \in 1..Len(fs) : /\ fs[k] \in FrameSet(p) /\ os[k] \in Seq(Values)
                               /\ cs[k] = ContextRead(fs[k], os[k])
  BY <1>1, ContextsReadType
<1>4. ASSUME NEW k \in 1..Len(fs)
      PROVE  /\ fs[k] \in FrameSet(p) /\ cs[k].operands \in Seq(Values)
             /\ cs[k] = ContextRead(fs[k], cs[k].operands) /\ cs[k] \in ContextSet(p)
  <2>1. fs[k] \in FrameSet(p) /\ os[k] \in Seq(Values) /\ cs[k] = ContextRead(fs[k], os[k])
    BY <1>3
  <2>2. cs[k].operands = os[k]
    BY <2>1 DEF ContextRead
  <2>. QED BY <2>1, <2>2, ContextReadType
<1>. QED BY <1>1, <1>2, <1>3, <1>4

ReadOf(p, cs, fs, os) ==
  /\ cs \in Seq(ContextSet(p)) /\ Len(cs) = Len(fs)
  /\ \A k \in 1..Len(fs) : cs[k] = ContextRead(fs[k], os[k])

LEMMA IsReadOf ==
  ASSUME NEW p, NEW fs \in Seq(FrameSet(p)), NEW os \in Seq(Seq(Values)), Len(os) = Len(fs)
  PROVE  ReadOf(p, ContextsRead(fs, os), fs, os)
  BY ContextsReadType DEF ReadOf

Put(s, a, e) == [s EXCEPT ![a] = e]

LEMMA PutSame ==
  ASSUME NEW D, NEW s \in Seq(D), NEW a \in 1..Len(s)
  PROVE  Put(s, a, s[a]) = s
<1>1. PICK e \in D : e = s[a]
  BY ElementOfSeq
<1>2. /\ Put(s, a, e) \in Seq(D) /\ Len(Put(s, a, e)) = Len(s)
      /\ \A k \in 1..Len(s) : Put(s, a, e)[k] = IF k = a THEN e ELSE s[k]
  BY ExceptSeq DEF Put
<1>3. \A k \in 1..Len(s) : Put(s, a, e)[k] = s[k]
  BY <1>1, <1>2
<1>4. Put(s, a, e) = s
  BY <1>2, <1>3, SeqEqual
<1>. QED BY <1>1, <1>4

LEMMA KindsExcept ==
  ASSUME NEW p, NEW fs \in Seq(FrameSet(p)), NEW a \in 1..Len(fs), NEW g \in FrameSet(p),
         g.context = fs[a].context
  PROVE  Put(fs, a, g) \in Seq(FrameSet(p)) /\ Kinds(Put(fs, a, g)) = Kinds(fs)
<1>1. PICK gs : gs = Put(fs, a, g)
  OBVIOUS
<1>2. /\ gs \in Seq(FrameSet(p)) /\ Len(gs) = Len(fs)
      /\ \A k \in 1..Len(fs) : gs[k] = IF k = a THEN g ELSE fs[k]
  BY <1>1, ExceptSeq DEF Put
<1>3. \A k \in 1..Len(fs) : gs[k].context = fs[k].context
  BY <1>2
<1>4. /\ Kinds(fs) \in Seq(MarkerKind) /\ Len(Kinds(fs)) = Len(fs)
      /\ \A k \in 1..Len(fs) : Kinds(fs)[k] = MarkerOf(fs[k].context)
  BY KindsType
<1>5. /\ Kinds(gs) \in Seq(MarkerKind) /\ Len(Kinds(gs)) = Len(fs)
      /\ \A k \in 1..Len(fs) : Kinds(gs)[k] = MarkerOf(gs[k].context)
  BY <1>2, KindsType
<1>6. Kinds(gs) = Kinds(fs)
  BY <1>3, <1>4, <1>5, SeqEqual
<1>. QED BY <1>1, <1>2, <1>6

LEMMA ReadExcept ==
  ASSUME NEW p, NEW fs \in Seq(FrameSet(p)), NEW os \in Seq(Seq(Values)), Len(os) = Len(fs),
         NEW a \in 1..Len(fs), NEW g \in FrameSet(p), NEW o \in Seq(Values)
  PROVE  ContextsRead(Put(fs, a, g), Put(os, a, o)) = Put(ContextsRead(fs, os), a, ContextRead(g, o))
<1>1. PICK gs, ot, cs, c, ds, es :
        /\ gs = Put(fs, a, g) /\ ot = Put(os, a, o) /\ cs = ContextsRead(fs, os)
        /\ c = ContextRead(g, o) /\ ds = ContextsRead(gs, ot) /\ es = Put(cs, a, c)
  OBVIOUS
<1>2. /\ gs \in Seq(FrameSet(p)) /\ Len(gs) = Len(fs)
      /\ \A k \in 1..Len(fs) : gs[k] = IF k = a THEN g ELSE fs[k]
  BY <1>1, ExceptSeq DEF Put
<1>3. /\ ot \in Seq(Seq(Values)) /\ Len(ot) = Len(fs)
      /\ \A k \in 1..Len(fs) : ot[k] = IF k = a THEN o ELSE os[k]
  BY <1>1, ExceptSeq DEF Put
<1>4. /\ cs \in Seq(ContextSet(p)) /\ Len(cs) = Len(fs)
      /\ \A k \in 1..Len(fs) : cs[k] = ContextRead(fs[k], os[k])
  BY <1>1, ContextsReadType
<1>5. c \in ContextSet(p)
  BY <1>1, ContextReadType
<1>6. /\ es \in Seq(ContextSet(p)) /\ Len(es) = Len(fs)
      /\ \A k \in 1..Len(fs) : es[k] = IF k = a THEN c ELSE cs[k]
  BY <1>1, <1>4, <1>5, ExceptSeq DEF Put
<1>7. /\ ds \in Seq(ContextSet(p)) /\ Len(ds) = Len(fs)
      /\ \A k \in 1..Len(fs) : ds[k] = ContextRead(gs[k], ot[k])
  <2>1. Len(ot) = Len(gs)
    BY <1>2, <1>3
  <2>2. ReadOf(p, ds, gs, ot)
    BY <1>1, <1>2, <1>3, <2>1, IsReadOf
  <2>. QED BY <1>2, <2>2 DEF ReadOf
<1>8. ASSUME NEW k \in 1..Len(fs) PROVE ds[k] = es[k]
  <2>1. CASE k = a
    <3>1. gs[k] = g /\ ot[k] = o /\ es[k] = c
      BY <1>2, <1>3, <1>6, <2>1
    <3>2. ds[k] = ContextRead(g, o)
      BY <1>7, <3>1
    <3>. QED BY <1>1, <3>1, <3>2
  <2>2. CASE k # a
    <3>1. gs[k] = fs[k] /\ ot[k] = os[k] /\ es[k] = cs[k]
      BY <1>2, <1>3, <1>6, <2>2
    <3>2. ds[k] = ContextRead(fs[k], os[k]) /\ cs[k] = ContextRead(fs[k], os[k])
      BY <1>4, <1>7, <3>1
    <3>. QED BY <3>1, <3>2
  <2>. QED BY <2>1, <2>2
<1>9. ds = es
  BY <1>6, <1>7, <1>8, SeqEqual
<1>. QED BY <1>1, <1>9

LEMMA ReadCut ==
  ASSUME NEW p, NEW fs \in Seq(FrameSet(p)), NEW os \in Seq(Seq(Values)), Len(os) = Len(fs),
         NEW j \in 0..Len(fs)
  PROVE  /\ SubSeq(fs, 1, j) \in Seq(FrameSet(p)) /\ Kinds(SubSeq(fs, 1, j)) = SubSeq(Kinds(fs), 1, j)
         /\ ContextsRead(SubSeq(fs, 1, j), SubSeq(os, 1, j)) = SubSeq(ContextsRead(fs, os), 1, j)
<1>1. PICK gs, ot, cs, ds, es, ks :
        /\ gs = SubSeq(fs, 1, j) /\ ot = SubSeq(os, 1, j) /\ cs = ContextsRead(fs, os)
        /\ ds = ContextsRead(gs, ot) /\ es = SubSeq(cs, 1, j) /\ ks = Kinds(fs)
  OBVIOUS
<1>2. j \in Nat /\ Len(fs) \in Nat /\ \A k \in 1..j : k \in 1..Len(fs)
  OBVIOUS
<1>3. gs \in Seq(FrameSet(p)) /\ Len(gs) = j /\ \A k \in 1..j : gs[k] = fs[k]
  BY <1>1, SubSeqProperties
<1>4. ot \in Seq(Seq(Values)) /\ Len(ot) = j /\ \A k \in 1..j : ot[k] = os[k]
  BY <1>1, SubSeqProperties
<1>5. /\ cs \in Seq(ContextSet(p)) /\ Len(cs) = Len(fs)
      /\ \A k \in 1..Len(fs) : cs[k] = ContextRead(fs[k], os[k])
  BY <1>1, ContextsReadType
<1>6. es \in Seq(ContextSet(p)) /\ Len(es) = j /\ \A k \in 1..j : es[k] = cs[k]
  <2>1. j \in 0..Len(cs)
    BY <1>5
  <2>. QED BY <1>1, <1>5, <2>1, SubSeqProperties
<1>7. /\ ds \in Seq(ContextSet(p)) /\ Len(ds) = j
      /\ \A k \in 1..j : ds[k] = ContextRead(gs[k], ot[k])
  <2>1. Len(ot) = Len(gs)
    BY <1>3, <1>4
  <2>2. ReadOf(p, ds, gs, ot)
    BY <1>1, <1>3, <1>4, <2>1, IsReadOf
  <2>. QED BY <1>3, <2>2 DEF ReadOf
<1>8. \A k \in 1..j : ds[k] = es[k]
  BY <1>2, <1>3, <1>4, <1>5, <1>6, <1>7
<1>9. ds = es
  BY <1>6, <1>7, <1>8, SeqEqual
<1>10. /\ ks \in Seq(MarkerKind) /\ Len(ks) = Len(fs)
       /\ \A k \in 1..Len(fs) : ks[k] = MarkerOf(fs[k].context)
  BY <1>1, KindsType
<1>11. SubSeq(ks, 1, j) \in Seq(MarkerKind) /\ Len(SubSeq(ks, 1, j)) = j
       /\ \A k \in 1..j : SubSeq(ks, 1, j)[k] = ks[k]
  <2>1. j \in 0..Len(ks)
    BY <1>10
  <2>. QED BY <1>10, <2>1, SubSeqProperties
<1>12. /\ Kinds(gs) \in Seq(MarkerKind) /\ Len(Kinds(gs)) = j
       /\ \A k \in 1..j : Kinds(gs)[k] = MarkerOf(gs[k].context)
  BY <1>3, KindsType
<1>13. \A k \in 1..j : Kinds(gs)[k] = SubSeq(ks, 1, j)[k]
  BY <1>2, <1>3, <1>10, <1>11, <1>12
<1>14. Kinds(gs) = SubSeq(ks, 1, j)
  BY <1>11, <1>12, <1>13, SeqEqual
<1>. QED BY <1>1, <1>3, <1>9, <1>14

LEMMA ReadAppend ==
  ASSUME NEW p, NEW fs \in Seq(FrameSet(p)), NEW os \in Seq(Seq(Values)), Len(os) = Len(fs),
         NEW g \in FrameSet(p)
  PROVE  /\ Append(fs, g) \in Seq(FrameSet(p))
         /\ Kinds(Append(fs, g)) = Append(Kinds(fs), MarkerOf(g.context))
         /\ ContextsRead(Append(fs, g), Append(os, << >>))
              = Append(ContextsRead(fs, os), ContextRead(g, << >>))
<1>1. PICK n, gs, o, ot, cs, c, ds, es, ks, kt :
        /\ n = Len(fs) /\ gs = Append(fs, g) /\ o = << >> /\ ot = Append(os, o)
        /\ cs = ContextsRead(fs, os) /\ c = ContextRead(g, o)
        /\ ds = ContextsRead(gs, ot) /\ es = Append(cs, c) /\ ks = Kinds(fs)
        /\ kt = Append(ks, MarkerOf(g.context))
  OBVIOUS
<1>2. n \in Nat /\ \A k \in 1..n + 1 : k \in 1..n \/ k = n + 1
  <2>1. n \in Nat
    BY <1>1
  <2>. QED BY <2>1
<1>3. gs \in Seq(FrameSet(p)) /\ Len(gs) = n + 1 /\ gs[n + 1] = g /\ \A k \in 1..n : gs[k] = fs[k]
  BY <1>1, AppendProperties
<1>4. ot \in Seq(Seq(Values)) /\ Len(ot) = n + 1 /\ ot[n + 1] = o /\ \A k \in 1..n : ot[k] = os[k]
  <2>1. o \in Seq(Values)
    BY <1>1
  <2>. QED BY <1>1, <2>1, AppendProperties
<1>5. /\ cs \in Seq(ContextSet(p)) /\ Len(cs) = n
      /\ \A k \in 1..n : cs[k] = ContextRead(fs[k], os[k])
  BY <1>1, ContextsReadType
<1>6. c \in ContextSet(p) /\ MarkerOf(g.context) \in MarkerKind
  <2>1. o \in Seq(Values)
    BY <1>1
  <2>. QED BY <1>1, <2>1, ContextReadType
<1>7. es \in Seq(ContextSet(p)) /\ Len(es) = n + 1 /\ es[n + 1] = c /\ \A k \in 1..n : es[k] = cs[k]
  BY <1>1, <1>5, <1>6, AppendProperties
<1>8. /\ ds \in Seq(ContextSet(p)) /\ Len(ds) = n + 1
      /\ \A k \in 1..n + 1 : ds[k] = ContextRead(gs[k], ot[k])
  <2>1. Len(ot) = Len(gs)
    BY <1>3, <1>4
  <2>2. ReadOf(p, ds, gs, ot)
    BY <1>1, <1>3, <1>4, <2>1, IsReadOf
  <2>. QED BY <1>3, <2>2 DEF ReadOf
<1>9. ASSUME NEW k \in 1..n + 1 PROVE ds[k] = es[k]
  <2>1. CASE k \in 1..n
    BY <1>3, <1>4, <1>5, <1>7, <1>8, <2>1
  <2>2. CASE k = n + 1
    BY <1>1, <1>3, <1>4, <1>7, <1>8, <2>2
  <2>. QED BY <1>2, <2>1, <2>2
<1>10. ds = es
  BY <1>7, <1>8, <1>9, SeqEqual
<1>11. ks \in Seq(MarkerKind) /\ Len(ks) = n /\ \A k \in 1..n : ks[k] = MarkerOf(fs[k].context)
  BY <1>1, KindsType
<1>12. /\ kt \in Seq(MarkerKind) /\ Len(kt) = n + 1 /\ kt[n + 1] = MarkerOf(g.context)
       /\ \A k \in 1..n : kt[k] = ks[k]
  BY <1>1, <1>6, <1>11, AppendProperties
<1>13. /\ Kinds(gs) \in Seq(MarkerKind) /\ Len(Kinds(gs)) = n + 1
       /\ \A k \in 1..n + 1 : Kinds(gs)[k] = MarkerOf(gs[k].context)
  BY <1>3, KindsType
<1>14. ASSUME NEW k \in 1..n + 1 PROVE Kinds(gs)[k] = kt[k]
  <2>1. CASE k \in 1..n
    BY <1>3, <1>11, <1>12, <1>13, <2>1
  <2>2. CASE k = n + 1
    BY <1>3, <1>12, <1>13, <2>2
  <2>. QED BY <1>2, <2>1, <2>2
<1>15. Kinds(gs) = kt
  BY <1>12, <1>13, <1>14, SeqEqual
<1>. QED BY <1>1, <1>3, <1>10, <1>15

----------------------------------------------------------------------------
(* The two stacks, changed together *)

\* The topmost context goes on with other operands.
LEMMA SimTraded ==
  ASSUME NEW p, NEW fs, NEW s, NEW cs, NEW rs, Sim(p, fs, s, cs, rs), NEW n, n = Len(fs), n # 0,
         NEW d \in Nat, d <= Len(cs[n].operands), NEW vs \in Seq(Values),
         NEW g \in FrameSet(p), g.context = fs[n].context
  PROVE  Sim(p, Put(fs, n, g), Traded(s, d, vs),
             Put(cs, n, ContextRead(g, Traded(cs[n].operands, d, vs))), rs)
<1>1. PICK os : /\ Reads(s, Kinds(fs), os, rs) /\ cs = ContextsRead(fs, os)
                /\ fs \in Seq(FrameSet(p)) /\ os \in Seq(Seq(Values)) /\ Len(os) = Len(fs)
                /\ Len(fs) \in Nat /\ Len(Kinds(fs)) = Len(fs)
  BY SimType
<1>2. n \in 1..Len(fs) /\ n = Len(Kinds(fs))
  BY <1>1
<1>3. cs[n] = ContextRead(fs[n], os[n])
  BY <1>1, <1>2, ContextsReadType
<1>4. cs[n].operands = os[n]
  BY <1>3 DEF ContextRead
<1>5. PICK o, ot : o = Traded(os[n], d, vs) /\ ot = Put(os, n, o)
  OBVIOUS
<1>6. d <= Len(os[n])
  BY <1>4
<1>7. /\ Reads(Traded(s, d, vs), Kinds(fs), [os EXCEPT ![n] = Traded(os[n], d, vs)], rs)
      /\ Traded(os[n], d, vs) \in Seq(Values)
  BY <1>1, <1>2, <1>6, ReadsTraded
<1>8. Reads(Traded(s, d, vs), Kinds(fs), ot, rs) /\ o \in Seq(Values)
  BY <1>5, <1>7 DEF Put
<1>9. Put(fs, n, g) \in Seq(FrameSet(p)) /\ Kinds(Put(fs, n, g)) = Kinds(fs)
  BY <1>1, <1>2, KindsExcept
<1>10. ContextsRead(Put(fs, n, g), Put(os, n, o))
         = Put(ContextsRead(fs, os), n, ContextRead(g, o))
  BY <1>1, <1>2, <1>8, ReadExcept
<1>11. Put(cs, n, ContextRead(g, Traded(cs[n].operands, d, vs)))
         = ContextsRead(Put(fs, n, g), ot)
  BY <1>1, <1>4, <1>5, <1>10
<1>. QED BY <1>8, <1>9, <1>11 DEF Sim

\* A frame changes, but not its kind.
LEMMA SimFrame ==
  ASSUME NEW p, NEW fs, NEW s, NEW cs, NEW rs, Sim(p, fs, s, cs, rs), NEW a \in 1..Len(fs),
         NEW g \in FrameSet(p), g.context = fs[a].context
  PROVE  Sim(p, Put(fs, a, g), s, Put(cs, a, ContextRead(g, cs[a].operands)), rs)
<1>1. PICK os : /\ Reads(s, Kinds(fs), os, rs) /\ cs = ContextsRead(fs, os)
                /\ fs \in Seq(FrameSet(p)) /\ os \in Seq(Seq(Values)) /\ Len(os) = Len(fs)
                /\ Len(fs) \in Nat /\ Len(Kinds(fs)) = Len(fs)
  BY SimType
<1>2. os[a] \in Seq(Values) /\ cs[a] = ContextRead(fs[a], os[a])
  BY <1>1, ContextsReadType
<1>3. cs[a].operands = os[a]
  BY <1>2 DEF ContextRead
<1>4. PICK o \in Seq(Values) : o = os[a]
  BY <1>2
<1>5. Put(os, a, o) = os
  BY <1>1, <1>4, PutSame
<1>6. Put(fs, a, g) \in Seq(FrameSet(p)) /\ Kinds(Put(fs, a, g)) = Kinds(fs)
  BY <1>1, KindsExcept
<1>7. ContextsRead(Put(fs, a, g), Put(os, a, o))
         = Put(ContextsRead(fs, os), a, ContextRead(g, o))
  BY <1>1, ReadExcept
<1>8. Put(cs, a, ContextRead(g, cs[a].operands)) = ContextsRead(Put(fs, a, g), os)
  BY <1>1, <1>3, <1>4, <1>5, <1>7
<1>. QED BY <1>1, <1>6, <1>8 DEF Sim

\* Values are pushed for the topmost context, or left when there is none.
LEMMA SimPushed ==
  ASSUME NEW p, NEW fs, NEW s, NEW cs, NEW rs, Sim(p, fs, s, cs, rs), NEW n, n = Len(fs),
         NEW vs \in Seq(Values)
  PROVE  /\ n # 0 => Sim(p, fs, s \o vs,
                         Put(cs, n, ContextRead(fs[n], cs[n].operands \o vs)), rs)
         /\ n = 0 => Sim(p, fs, s \o vs, cs, rs \o vs)
<1>1. PICK os : /\ Reads(s, Kinds(fs), os, rs) /\ cs = ContextsRead(fs, os)
                /\ fs \in Seq(FrameSet(p)) /\ os \in Seq(Seq(Values)) /\ Len(os) = Len(fs)
                /\ Len(fs) \in Nat /\ Len(Kinds(fs)) = Len(fs)
  BY SimType
<1>2. n = Len(Kinds(fs))
  BY <1>1
<1>3. CASE n # 0
  <2>1. n \in 1..Len(fs)
    BY <1>1, <1>3
  <2>2. os[n] \in Seq(Values) /\ cs[n] = ContextRead(fs[n], os[n]) /\ fs[n] \in FrameSet(p)
    BY <1>1, <2>1, ContextsReadType
  <2>3. cs[n].operands = os[n]
    BY <2>2 DEF ContextRead
  <2>4. PICK o : o = os[n] \o vs
    OBVIOUS
  <2>5. Reads(s \o vs, Kinds(fs), [os EXCEPT ![n] = os[n] \o vs], rs) /\ os[n] \o vs \in Seq(Values)
    BY <1>1, <1>2, <1>3, ReadsPushed
  <2>6. Reads(s \o vs, Kinds(fs), Put(os, n, o), rs) /\ o \in Seq(Values)
    BY <2>4, <2>5 DEF Put
  <2>7. PICK g \in FrameSet(p) : g = fs[n]
    BY <2>2
  <2>8. Put(fs, n, g) = fs
    BY <1>1, <2>1, <2>7, PutSame
  <2>9. ContextsRead(Put(fs, n, g), Put(os, n, o))
          = Put(ContextsRead(fs, os), n, ContextRead(g, o))
    <3>1. /\ fs \in Seq(FrameSet(p)) /\ os \in Seq(Seq(Values)) /\ Len(os) = Len(fs)
          /\ n \in 1..Len(fs) /\ g \in FrameSet(p) /\ o \in Seq(Values)
      BY <1>1, <2>1, <2>6
    <3>2. \A k \in 1..Len(fs), h \in FrameSet(p), u \in Seq(Values) :
            ContextsRead(Put(fs, k, h), Put(os, k, u)) = Put(ContextsRead(fs, os), k, ContextRead(h, u))
      BY <3>1, ReadExcept
    <3>. QED BY <3>1, <3>2
  <2>10. Put(cs, n, ContextRead(fs[n], cs[n].operands \o vs))
           = ContextsRead(fs, Put(os, n, o))
    BY <1>1, <2>3, <2>4, <2>7, <2>8, <2>9
  <2>11. Sim(p, fs, s \o vs, Put(cs, n, ContextRead(fs[n], cs[n].operands \o vs)), rs)
    BY <1>1, <2>6, <2>10 DEF Sim
  <2>. QED BY <1>3, <2>11
<1>4. CASE n = 0
  <2>1. Reads(s \o vs, Kinds(fs), os, rs \o vs)
    BY <1>1, <1>2, <1>4, ReadsPushed
  <2>2. Sim(p, fs, s \o vs, cs, rs \o vs)
    BY <1>1, <2>1 DEF Sim
  <2>. QED BY <1>4, <2>2
<1>. QED BY <1>3, <1>4

\* A frame is pushed, and its marker.
LEMMA SimMarked ==
  ASSUME NEW p, NEW fs, NEW s, NEW cs, NEW rs, Sim(p, fs, s, cs, rs), NEW g \in FrameSet(p),
         NEW e \in {LabelMarker, FuncMarker}, e.marker = MarkerOf(g.context)
  PROVE  Sim(p, Append(fs, g), Append(s, e), Append(cs, ContextRead(g, << >>)), rs)
<1>1. PICK os : /\ Reads(s, Kinds(fs), os, rs) /\ cs = ContextsRead(fs, os)
                /\ fs \in Seq(FrameSet(p)) /\ os \in Seq(Seq(Values)) /\ Len(os) = Len(fs)
                /\ Len(fs) \in Nat /\ Len(Kinds(fs)) = Len(fs)
  BY SimType
<1>2. Reads(Append(s, e), Append(Kinds(fs), e.marker), Append(os, << >>), rs)
  BY <1>1, ReadsMarked
<1>3. /\ Append(fs, g) \in Seq(FrameSet(p))
      /\ Kinds(Append(fs, g)) = Append(Kinds(fs), MarkerOf(g.context))
      /\ ContextsRead(Append(fs, g), Append(os, << >>))
           = Append(ContextsRead(fs, os), ContextRead(g, << >>))
  BY <1>1, ReadAppend
<1>4. PICK ot : ot = Append(os, << >>)
  OBVIOUS
<1>5. Reads(Append(s, e), Kinds(Append(fs, g)), ot, rs)
  BY <1>2, <1>3, <1>4
<1>6. Append(cs, ContextRead(g, << >>)) = ContextsRead(Append(fs, g), ot)
  BY <1>1, <1>3, <1>4
<1>. QED BY <1>3, <1>5, <1>6 DEF Sim
Upto(s, j) == SubSeq(s, 1, j)

CutFacts(p, fs, os, j) ==
  /\ Upto(fs, j) \in Seq(FrameSet(p)) /\ Kinds(Upto(fs, j)) = Upto(Kinds(fs), j)
  /\ ContextsRead(Upto(fs, j), Upto(os, j)) = Upto(ContextsRead(fs, os), j)

LEMMA CutRead ==
  ASSUME NEW p, NEW fs \in Seq(FrameSet(p)), NEW os \in Seq(Seq(Values)), Len(os) = Len(fs),
         NEW j \in 0..Len(fs)
  PROVE  CutFacts(p, fs, os, j)
  BY ReadCut DEF CutFacts, Upto

LEMMA CutSim ==
  ASSUME NEW p, NEW fs, NEW s, NEW cs, NEW rs, NEW os, NEW j, cs = ContextsRead(fs, os),
         CutFacts(p, fs, os, j), Reads(s, SubSeq(Kinds(fs), 1, j), SubSeq(os, 1, j), rs)
  PROVE  Sim(p, Upto(fs, j), s, Upto(cs, j), rs)
<1>1. Reads(s, Kinds(Upto(fs, j)), Upto(os, j), rs)
  BY DEF CutFacts, Upto
<1>2. Upto(cs, j) = ContextsRead(Upto(fs, j), Upto(os, j)) /\ Upto(fs, j) \in Seq(FrameSet(p))
  BY DEF CutFacts
<1>. QED BY <1>1, <1>2 DEF Sim

\* What the topmost context can reach on the stack of the interpreter.
LEMMA SimTop ==
  ASSUME NEW p, NEW fs, NEW s, NEW cs, NEW rs, Sim(p, fs, s, cs, rs), NEW n, n = Len(fs), n # 0,
         NEW o, o = cs[n].operands
  PROVE  /\ n \in 1..n /\ n \in 1..Len(fs) /\ n \in Nat /\ o \in Seq(Values) /\ Len(o) \in Nat
         /\ Len(o) < Len(s) /\ \A k \in 1..Len(o) : Popped(s, k) = Popped(o, k)
         /\ \A c \in Nat : c <= Len(o) => /\ Kept(s, c) = Kept(o, c)
                                          /\ Kept(s, c) \in Seq(Values) /\ c <= Len(s)
         /\ \A ts \in Seq(AnyType) : Holds(o, ts) =>
              Holds(s, ts) /\ Len(ts) \in Nat /\ Len(ts) <= Len(o)
<1>1. PICK os : /\ Reads(s, Kinds(fs), os, rs) /\ cs = ContextsRead(fs, os)
                /\ fs \in Seq(FrameSet(p)) /\ os \in Seq(Seq(Values)) /\ Len(os) = Len(fs)
                /\ Len(fs) \in Nat /\ Len(Kinds(fs)) = Len(fs)
  BY SimType
<1>2. n \in 1..Len(fs) /\ n = Len(Kinds(fs)) /\ n \in Nat
  BY <1>1
<1>3. cs[n] = ContextRead(fs[n], os[n])
  BY <1>1, <1>2, ContextsReadType
<1>4. o = os[n]
  BY <1>3 DEF ContextRead
<1>5. /\ n \in 1..n /\ os[n] \in Seq(Values) /\ Len(os[n]) \in Nat /\ Len(os[n]) < Len(s)
      /\ \A k \in 1..Len(os[n]) : Popped(s, k) = Popped(os[n], k)
  BY <1>1, <1>2, ReadsTop
<1>6. ASSUME NEW c \in Nat, c <= Len(o)
      PROVE  Kept(s, c) = Kept(o, c) /\ Kept(s, c) \in Seq(Values) /\ c <= Len(s)
  <2>1. c <= Len(os[n])
    BY <1>4, <1>6
  <2>2. Kept(s, c) = Kept(os[n], c) /\ Kept(s, c) \in Seq(Values) /\ c <= Len(s)
    BY <1>1, <1>2, <2>1, ReadsKept
  <2>. QED BY <1>4, <2>2
<1>7. ASSUME NEW ts \in Seq(AnyType), Holds(o, ts)
      PROVE  Holds(s, ts) /\ Len(ts) \in Nat /\ Len(ts) <= Len(o)
  <2>1. Holds(os[n], ts)
    BY <1>4, <1>7
  <2>2. Holds(s, ts) /\ Len(ts) \in Nat /\ Len(ts) <= Len(os[n])
    BY <1>1, <1>2, <2>1, ReadsHolds
  <2>. QED BY <1>4, <2>2
<1>. QED BY <1>2, <1>4, <1>5, <1>6, <1>7

\* The contexts from a on are left, by counting markers.
LEMMA SimBelowMarkers ==
  ASSUME NEW p, NEW fs, NEW s, NEW cs, NEW rs, Sim(p, fs, s, cs, rs), NEW n, n = Len(fs), n # 0,
         NEW d \in Nat, d <= Len(cs[n].operands), NEW a \in 1..n
  PROVE  /\ MarkerCount(Dropped(s, d)) = n
         /\ Sim(p, Upto(fs, a - 1), BelowMarkers(Dropped(s, d), n - a + 1), Upto(cs, a - 1), rs)
<1>1. PICK os : /\ Reads(s, Kinds(fs), os, rs) /\ cs = ContextsRead(fs, os)
                /\ fs \in Seq(FrameSet(p)) /\ os \in Seq(Seq(Values)) /\ Len(os) = Len(fs)
                /\ Len(fs) \in Nat /\ Len(Kinds(fs)) = Len(fs)
  BY SimType
<1>2. n \in 1..Len(fs) /\ n = Len(Kinds(fs)) /\ n \in Nat
  BY <1>1
<1>3. cs[n] = ContextRead(fs[n], os[n])
  BY <1>1, <1>2, ContextsReadType
<1>4. d <= Len(os[n])
  BY <1>3 DEF ContextRead
<1>5. /\ MarkerCount(Dropped(s, d)) = n
      /\ Reads(BelowMarkers(Dropped(s, d), n - a + 1), SubSeq(Kinds(fs), 1, a - 1), SubSeq(os, 1, a - 1), rs)
  BY <1>1, <1>2, <1>4, ReadsBelowMarkers
<1>6. PICK j, t : j = a - 1 /\ t = BelowMarkers(Dropped(s, d), n - a + 1)
  OBVIOUS
<1>7. j \in 0..Len(fs)
  BY <1>2, <1>6
<1>8. CutFacts(p, fs, os, j)
  BY <1>1, <1>7, CutRead
<1>9. Reads(t, SubSeq(Kinds(fs), 1, j), SubSeq(os, 1, j), rs)
  BY <1>5, <1>6
<1>10. Sim(p, Upto(fs, j), t, Upto(cs, j), rs)
  BY <1>1, <1>8, <1>9, CutSim
<1>. QED BY <1>5, <1>6, <1>10

\* The contexts from a on are left, down to a marker.
LEMMA SimBelowTopmost ==
  ASSUME NEW p, NEW fs, NEW s, NEW cs, NEW rs, Sim(p, fs, s, cs, rs), NEW n, n = Len(fs), n # 0,
         NEW d \in Nat, d <= Len(cs[n].operands), NEW a \in 1..n, NEW x,
         MarkerOf(fs[a].context) = x, \A k \in a + 1..n : MarkerOf(fs[k].context) # x
  PROVE  /\ HasMarker(Dropped(s, d), x)
         /\ Sim(p, Upto(fs, a - 1), BelowTopmost(Dropped(s, d), x), Upto(cs, a - 1), rs)
<1>1. PICK os : /\ Reads(s, Kinds(fs), os, rs) /\ cs = ContextsRead(fs, os)
                /\ fs \in Seq(FrameSet(p)) /\ os \in Seq(Seq(Values)) /\ Len(os) = Len(fs)
                /\ Len(fs) \in Nat /\ Len(Kinds(fs)) = Len(fs)
  BY SimType
<1>2. n \in 1..Len(fs) /\ n = Len(Kinds(fs)) /\ n \in Nat
  BY <1>1
<1>3. cs[n] = ContextRead(fs[n], os[n])
  BY <1>1, <1>2, ContextsReadType
<1>4. d <= Len(os[n])
  BY <1>3 DEF ContextRead
<1>5. Kinds(fs)[a] = x /\ \A k \in a + 1..n : Kinds(fs)[k] # x
  <2>1. \A k \in 1..Len(fs) : Kinds(fs)[k] = MarkerOf(fs[k].context)
    BY <1>1, KindsType
  <2>2. \A k \in a + 1..n : k \in 1..Len(fs)
    BY <1>2
  <2>. QED BY <2>1, <2>2
<1>6. /\ HasMarker(Dropped(s, d), x)
      /\ Reads(BelowTopmost(Dropped(s, d), x), SubSeq(Kinds(fs), 1, a - 1), SubSeq(os, 1, a - 1), rs)
  BY <1>1, <1>2, <1>4, <1>5, ReadsBelowTopmost
<1>7. PICK j : j = a - 1
  OBVIOUS
<1>8. j \in 0..Len(fs)
  BY <1>2, <1>7
<1>9. CutFacts(p, fs, os, j)
  BY <1>1, <1>8, CutRead
<1>10. Reads(BelowTopmost(Dropped(s, d), x), SubSeq(Kinds(fs), 1, j), SubSeq(os, 1, j), rs)
  BY <1>6, <1>7
<1>11. Sim(p, Upto(fs, j), BelowTopmost(Dropped(s, d), x), Upto(cs, j), rs)
  BY <1>1, <1>9, <1>10, CutSim
<1>. QED BY <1>6, <1>7, <1>11

\* How module ControlTyping reads any two stacks.
SegmentOf(fs, s, k) ==
  LET above == IF k = Len(fs) THEN Len(s) + 1 ELSE MarkerPos(s, k + 1)
  IN  SubSeq(s, MarkerPos(s, k) + 1, above - 1)

ContextsOf(fs, s) ==
  [k \in 1..Len(fs) |-> ContextRead(fs[k], IF MarkerCount(s) = Len(fs) THEN SegmentOf(fs, s, k) ELSE s)]

LeftOf(fs, s) ==
  IF fs # << >> /\ MarkerCount(s) = Len(fs) THEN SubSeq(s, 1, MarkerPos(s, 1) - 1) ELSE s

\* What is read is what the two stacks are read as.
LEMMA SimContexts ==
  ASSUME NEW p, NEW fs, NEW s, NEW cs, NEW rs, Sim(p, fs, s, cs, rs)
  PROVE  /\ ContextsOf(fs, s) = cs /\ LeftOf(fs, s) = rs /\ MarkerCount(s) = Len(fs)
         /\ \A k \in 1..Len(fs) : s[MarkerPos(s, k)].marker = MarkerOf(fs[k].context)
<1>1. PICK os : /\ Reads(s, Kinds(fs), os, rs) /\ cs = ContextsRead(fs, os)
                /\ fs \in Seq(FrameSet(p)) /\ os \in Seq(Seq(Values)) /\ Len(os) = Len(fs)
                /\ Len(fs) \in Nat /\ Len(Kinds(fs)) = Len(fs)
  BY SimType
<1>2. /\ MarkerCount(s) = Len(Kinds(fs))
      /\ \A k \in 1..Len(Kinds(fs)) :
           /\ s[MarkerPos(s, k)].marker = Kinds(fs)[k]
           /\ k = Len(Kinds(fs)) => SubSeq(s, MarkerPos(s, k) + 1, Len(s) + 1 - 1) = os[k]
           /\ k # Len(Kinds(fs)) => SubSeq(s, MarkerPos(s, k) + 1, MarkerPos(s, k + 1) - 1) = os[k]
      /\ Len(Kinds(fs)) # 0 => SubSeq(s, 1, MarkerPos(s, 1) - 1) = rs
      /\ Len(Kinds(fs)) = 0 => s = rs
  BY <1>1, ReadsMarkers
<1>3. MarkerCount(s) = Len(fs)
  BY <1>1, <1>2
<1>4. ASSUME NEW k \in 1..Len(fs) PROVE SegmentOf(fs, s, k) = os[k]
  <2>1. k \in 1..Len(Kinds(fs))
    BY <1>1
  <2>2. CASE k = Len(fs)
    <3>1. SubSeq(s, MarkerPos(s, k) + 1, Len(s) + 1 - 1) = os[k]
      BY <1>1, <1>2, <2>1, <2>2
    <3>. QED BY <2>2, <3>1 DEF SegmentOf
  <2>3. CASE k # Len(fs)
    <3>1. SubSeq(s, MarkerPos(s, k) + 1, MarkerPos(s, k + 1) - 1) = os[k]
      BY <1>1, <1>2, <2>1, <2>3
    <3>. QED BY <2>3, <3>1 DEF SegmentOf
  <2>. QED BY <2>2, <2>3
<1>5. ContextsOf(fs, s) = cs
  BY <1>1, <1>3, <1>4 DEF ContextsOf, ContextsRead
<1>6. LeftOf(fs, s) = rs
  <2>1. fs = << >> <=> Len(fs) = 0
    BY <1>1, EmptySeq
  <2>. QED BY <1>1, <1>2, <1>3, <2>1 DEF LeftOf
<1>7. \A k \in 1..Len(fs) : s[MarkerPos(s, k)].marker = MarkerOf(fs[k].context)
  <2>1. \A k \in 1..Len(fs) : Kinds(fs)[k] = MarkerOf(fs[k].context)
    BY <1>1, KindsType
  <2>. QED BY <1>1, <1>2, <2>1
<1>. QED BY <1>3, <1>5, <1>6, <1>7

\* Without a frame the stack holds what the outermost activation has left.
LEMMA SimBare ==
  ASSUME NEW p, NEW s
  PROVE  /\ s \in Seq(Values) => Sim(p, << >>, s, << >>, s)
         /\ \A cs, rs : Sim(p, << >>, s, cs, rs) => cs = << >> /\ rs = s /\ s \in Seq(Values)
<1>1. PICK fs, os : fs = << >> /\ os = << >>
  OBVIOUS
<1>2. fs \in Seq(FrameSet(p)) /\ Len(fs) = 0 /\ Kinds(fs) = << >> /\ ContextsRead(fs, os) = << >>
  BY <1>1, EmptySeq DEF Kinds, ContextsRead
<1>3. ASSUME s \in Seq(Values) PROVE Sim(p, fs, s, << >>, s)
  <2>1. Reads(s, << >>, << >>, s)
    BY <1>3, BareReads
  <2>2. Reads(s, Kinds(fs), os, s)
    BY <1>1, <1>2, <2>1
  <2>. QED BY <1>2, <2>2 DEF Sim
<1>4. ASSUME NEW cs, NEW rs, Sim(p, fs, s, cs, rs) PROVE cs = << >> /\ rs = s /\ s \in Seq(Values)
  <2>1. ContextsOf(fs, s) = cs /\ LeftOf(fs, s) = rs
    BY <1>4, SimContexts
  <2>2. cs = << >>
    BY <1>2, <2>1 DEF ContextsOf
  <2>3. rs = s
    BY <1>1, <2>1 DEF LeftOf
  <2>4. rs \in Seq(Values)
    BY <1>4, SimParts
  <2>. QED BY <2>2, <2>3, <2>4
<1>. QED BY <1>1, <1>3, <1>4

----------------------------------------------------------------------------
(* The promise, with its theorems *)

SP == INSTANCE StructuredProofs WITH contexts <- Contexts, results <- Left

LEMMA ProgramsValid == /\ \A p \in Programs : SP!IsProgram(p)
                       /\ \A p \in Programs : SP!Valid(p)
<1>1. \A p \in Programs : SP!IsProgram(p)
  BY CodeAssumption DEF IsProgram, SP!IsProgram, Blocks, SP!Blocks, Instr, SP!Instr, Func, SP!Func,
     ValueTypes, SP!ValueTypes, ValType, SP!ValType, ResultType, SP!ResultType, Values, SP!Values,
     AnyType, SP!AnyType
<1>2. ASSUME NEW p \in Programs PROVE SP!Valid(p)
  <2>1. Valid(p)
    BY TypingAssumption
  <2>2. \A b, i, ts, after : InstrTyped(p, b, i, ts, after) <=> SP!InstrTyped(p, b, i, ts, after)
    BY DEF InstrTyped, SP!InstrTyped, BranchTyped, SP!BranchTyped, Nested, SP!Nested, Turns, SP!Turns,
       Less, SP!Less, Ends, SP!Ends, LocalTypes, SP!LocalTypes, LabelTypes, SP!LabelTypes,
       FuncOf, SP!FuncOf, Dead, SP!Dead, ValType, SP!ValType
  <2>3. \A b : BlockTyped(p, b) <=> SP!BlockTyped(p, b)
    BY <2>2 DEF BlockTyped, SP!BlockTyped, TypesOf, SP!TypesOf, Dead, SP!Dead
  <2>4. \A n : FuncTyped(p, n) <=> SP!FuncTyped(p, n)
    BY <2>3 DEF FuncTyped, SP!FuncTyped
  <2>5. /\ SP!Blocks(p) = Blocks(p) /\ SP!BlockTyping(SP!Blocks(p)) = BlockTyping(Blocks(p))
        /\ SP!ValType = ValType
    BY DEF Blocks, SP!Blocks, BlockTyping, SP!BlockTyping, ValueTypes, SP!ValueTypes,
       ResultType, SP!ResultType, ValType, SP!ValType, Dead, SP!Dead
  <2>. QED BY <2>1, <2>3, <2>4, <2>5 DEF Valid, SP!Valid
<1>. QED BY <1>1, <1>2

\* The operators of module Stack are the same on both sides.
LEMMA SameStack ==
  /\ \A s, n : SP!Dropped(s, n) = Dropped(s, n)
  /\ \A s, n : SP!Kept(s, n) = Kept(s, n)
  /\ \A s, n : SP!Popped(s, n) = Popped(s, n)
  /\ \A s, ts : SP!Holds(s, ts) <=> Holds(s, ts)
  /\ \A t, v : SP!Value(t, v) = Value(t, v)
  /\ SP!Values = Values /\ SP!AnyType = AnyType /\ SP!ValType = ValType
  /\ \A p : SP!Blocks(p) = Blocks(p)
  /\ SP!Running <=> Running
  BY DEF SP!Dropped, Dropped, SP!Kept, Kept, SP!Popped, Popped, SP!Holds, Holds, SP!IsMarker, IsMarker,
     SP!Value, Value, SP!Values, Values, SP!AnyType, AnyType, SP!ValType, ValType, SP!Blocks, Blocks,
     SP!Running, Running

----------------------------------------------------------------------------
(* The invariant of the simulation *)

\* While the interpreter runs, its two stacks are those of the contexts.
Agrees == Running => Sim(prog, frames, opd, Contexts, Left)

\* What the call in progress will leave: the start function has no result.
Due == IF mode = "run" THEN prog.funcs[callee + 1].t2 ELSE << >>

\* The host finds both stacks empty, but for an exception.
Rested == mode = "idle" /\ outcome \in {"none", "returned"} => frames = << >> /\ opd = << >>

\* What the contexts owe the host is what the call in progress will leave.
Returned == Running => SP!Owes(Due)

SimInv == /\ IInv /\ emptyRead = {}
          /\ Agrees /\ SP!IInv /\ Rested /\ Returned

LEMMA FrameIsFrameSet == Frame = FrameSet(prog)
  BY DEF Frame, FrameSet

\* The mapping is what the two stacks are read as.
LEMMA MappingRead ==
  /\ Running => Contexts = ContextsOf(frames, opd) /\ Left = LeftOf(frames, opd)
  /\ ~Running => Contexts = << >> /\ Left = << >>
  BY DEF Contexts, Left, ContextOf, ContextsOf, ContextRead, Results, LeftOf, InStep, Segment, SegmentOf

LEMMA MappingReadNext ==
  /\ Running' => Contexts' = ContextsOf(frames', opd') /\ Left' = LeftOf(frames', opd')
  /\ ~Running' => Contexts' = << >> /\ Left' = << >>
  BY DEF Contexts, Left, ContextOf, ContextsOf, ContextRead, Results, LeftOf, InStep, Segment, SegmentOf

\* Two stacks that can be read are read as contexts that way.
LEMMA Lands ==
  ASSUME Running', prog' = prog, NEW cs, NEW rs, Sim(prog, frames', opd', cs, rs)
  PROVE  Contexts' = cs /\ Left' = rs /\ Agrees'
<1>1. ContextsOf(frames', opd') = cs /\ LeftOf(frames', opd') = rs
  BY SimContexts
<1>2. Contexts' = cs /\ Left' = rs
  BY <1>1, MappingReadNext
<1>. QED BY <1>2 DEF Agrees

----------------------------------------------------------------------------
(* The innermost context and the frame at the top *)

Active == Running /\ frames # << >>

\* The activation, on either side, is the last function.
LEMMA LastFunction ==
  ASSUME NEW n \in Nat, NEW K, NEW w \in 1..n, K[w] = "function"
  PROVE  \E a \in 1..n : K[a] = "function" /\ \A k \in a + 1..n : K[k] # "function"
<1>. DEFINE T == {k \in 1..n : K[k] = "function"}
<1>1. PICK a \in T : \A k \in T : k <= a
  <2>1. T \in SUBSET (1..n) /\ T # {}
    OBVIOUS
  <2>. QED BY <2>1, NatMax
<1>2. a \in 1..n /\ K[a] = "function"
  BY <1>1
<1>3. ASSUME NEW k \in a + 1..n PROVE K[k] # "function"
  <2>1. k \in 1..n /\ ~(k <= a)
    BY <1>2
  <2>. QED BY <1>1, <2>1
<1>. QED BY <1>2, <1>3

LEMMA FuncIndexLast ==
  ASSUME IInv, frames # << >>
  PROVE  /\ FuncIndex(frames) \in 1..Len(frames) /\ frames[FuncIndex(frames)].context = "function"
         /\ \A k \in FuncIndex(frames) + 1..Len(frames) : frames[k].context # "function"
<1>. DEFINE K == [k \in 1..Len(frames) |-> frames[k].context]
<1>1. Len(frames) \in Nat /\ 1 \in 1..Len(frames) /\ frames[1].context = "function"
  BY EmptySeq DEF IInv, StacksOK, FramesOK
<1>2. K[1] = "function"
  BY <1>1
<1>3. PICK a \in 1..Len(frames) : K[a] = "function" /\ \A k \in a + 1..Len(frames) : K[k] # "function"
  <2>. HIDE DEF K
  <2>. QED BY <1>1, <1>2, LastFunction
<1>4. frames[a].context = "function" /\ \A k \in a + 1..Len(frames) : frames[k].context # "function"
  <2>1. \A k \in a + 1..Len(frames) : k \in 1..Len(frames)
    BY <1>1
  <2>. QED BY <1>3, <2>1
<1>. QED BY <1>4 DEF FuncIndex

LEMMA Facing ==
  ASSUME SimInv, Active, NEW n, n = Len(frames)
  PROVE  /\ Sim(prog, frames, opd, Contexts, Left)
         /\ n \in Nat /\ n # 0 /\ n \in 1..n /\ Len(Contexts) = n /\ Contexts # << >>
         /\ Top = frames[n] /\ Top \in FrameSet(prog)
         /\ SP!Depth = n /\ SP!Innermost = Contexts[n] /\ SP!Operands = Contexts[n].operands
         /\ SP!Innermost = ContextRead(Top, SP!Operands) /\ SP!Operands \in Seq(Values)
         /\ \A k \in 1..n : /\ frames[k] \in FrameSet(prog) /\ Contexts[k].kind = frames[k].context
                            /\ Contexts[k] = ContextRead(frames[k], Contexts[k].operands)
<1>1. Sim(prog, frames, opd, Contexts, Left)
  BY DEF SimInv, Agrees, Active
<1>2. /\ frames \in Seq(FrameSet(prog)) /\ Len(Contexts) = n /\ Len(frames) \in Nat
      /\ Contexts \in Seq(ContextSet(prog))
      /\ \A k \in 1..Len(frames) :
              /\ frames[k] \in FrameSet(prog) /\ Contexts[k].operands \in Seq(Values)
              /\ Contexts[k] = ContextRead(frames[k], Contexts[k].operands) /\ Contexts[k] \in ContextSet(prog)
  BY <1>1, SimParts
<1>3. n \in Nat /\ n # 0 /\ n \in 1..n /\ Contexts # << >>
  BY <1>2, EmptySeq DEF Active
<1>4. Top = frames[n] /\ SP!Depth = n
  BY <1>2 DEF Top, SP!Depth
<1>5. SP!Innermost = Contexts[n] /\ SP!Operands = Contexts[n].operands
  BY <1>4 DEF SP!Innermost, SP!Operands
<1>6. \A k \in 1..n : /\ frames[k] \in FrameSet(prog) /\ Contexts[k].kind = frames[k].context
                      /\ Contexts[k] = ContextRead(frames[k], Contexts[k].operands)
  BY <1>2 DEF ContextRead
<1>7. /\ Top \in FrameSet(prog) /\ SP!Innermost = ContextRead(Top, SP!Operands)
      /\ SP!Operands \in Seq(Values)
  BY <1>2, <1>3, <1>4, <1>5
<1>. QED BY <1>1, <1>2, <1>3, <1>4, <1>5, <1>6, <1>7

\* What the two sides see is the same.
LEMMA Seen ==
  ASSUME SimInv, Active
  PROVE  /\ SP!Innermost.ip = Top.ip /\ SP!Innermost.instrs = Top.instrs
         /\ SP!Innermost.kind = Top.context /\ SP!Innermost.result = Carries(Top)
         /\ SP!Fetched = Fetched /\ (SP!AtEnd <=> AtEnd) /\ (SP!Fetching <=> Fetching) /\ SP!Running
         /\ SP!Activation = FuncIndex(frames) /\ FuncIndex(frames) \in 1..Len(frames)
         /\ SP!Locals = CurrentFunc.locals /\ SP!Here = Top.instrs
<1>. DEFINE n == Len(frames)
            a == FuncIndex(frames)
<1>1. /\ n \in Nat /\ n # 0 /\ n \in 1..n /\ Len(Contexts) = n /\ Contexts # << >>
      /\ SP!Depth = n /\ SP!Innermost = ContextRead(Top, SP!Operands)
      /\ \A k \in 1..n : /\ Contexts[k].kind = frames[k].context
                         /\ Contexts[k] = ContextRead(frames[k], Contexts[k].operands)
  BY Facing
<1>2. /\ SP!Innermost.ip = Top.ip /\ SP!Innermost.instrs = Top.instrs
      /\ SP!Innermost.kind = Top.context /\ SP!Innermost.result = Carries(Top)
  BY <1>1 DEF ContextRead
<1>3. SP!Fetched = Fetched /\ (SP!AtEnd <=> AtEnd) /\ SP!Running /\ SP!Here = Top.instrs
  BY <1>2 DEF SP!Fetched, Fetched, SP!AtEnd, AtEnd, SP!Running, Active, Running, SP!Here
<1>4. SP!Fetching <=> Fetching
  BY <1>1, <1>3 DEF SP!Fetching, Fetching, Active
<1>5. /\ a \in 1..n /\ frames[a].context = "function"
      /\ \A k \in a + 1..n : frames[k].context # "function"
  BY FuncIndexLast DEF SimInv, Active
<1>6. /\ Contexts[a].kind = "function" /\ \A k \in a + 1..n : Contexts[k].kind # "function"
  <2>1. \A k \in a + 1..n : k \in 1..n
    BY <1>1, <1>5
  <2>. QED BY <1>1, <1>5, <2>1
<1>7. PICK b : b = SP!Activation
  OBVIOUS
<1>8. /\ b \in 1..n /\ Contexts[b].kind = "function"
      /\ \A k \in b + 1..n : Contexts[k].kind # "function"
  <2>1. \E x \in 1..n : Contexts[x].kind = "function" /\ \A k \in x + 1..n : Contexts[k].kind # "function"
    BY <1>5, <1>6
  <2>. QED BY <1>1, <1>7, <2>1 DEF SP!Activation
<1>9. b = a
  <2>1. a \in Nat /\ b \in Nat /\ a <= n /\ b <= n
    BY <1>1, <1>5, <1>8
  <2>2. ~(a < b)
    <3>1. a < b => b \in a + 1..n
      BY <1>1, <2>1
    <3>. QED BY <1>6, <1>8, <3>1
  <2>3. ~(b < a)
    <3>1. b < a => a \in b + 1..n
      BY <1>1, <2>1
    <3>. QED BY <1>6, <1>8, <3>1
  <2>. QED BY <2>1, <2>2, <2>3
<1>10. SP!Locals = CurrentFunc.locals
  <2>1. Contexts[a] = ContextRead(frames[a], Contexts[a].operands)
    BY <1>1, <1>5
  <2>2. Contexts[a].locals = frames[a].locals
    BY <2>1 DEF ContextRead
  <2>. QED BY <1>7, <1>9, <2>2 DEF SP!Locals, CurrentFunc
<1>. QED BY <1>2, <1>3, <1>4, <1>5, <1>7, <1>9, <1>10

----------------------------------------------------------------------------
(* Every instruction finds what it needs *)

\* From the promise: what the fetched instruction needs is there.
LEMMA PromiseReady ==
  ASSUME SimInv, Fetching
  PROVE  /\ Active /\ SP!Fetching /\ SP!Ended /\ SP!Ready(Fetched)
         /\ SP!Needs(Fetched) \in Seq(AnyType) /\ Len(SP!Needs(Fetched)) \in Nat
         /\ Holds(SP!Operands, SP!Needs(Fetched)) /\ Len(SP!Needs(Fetched)) <= Len(SP!Operands)
         /\ Holds(opd, SP!Needs(Fetched))
<1>1. Active
  BY DEF Fetching, Active
<1>2. SP!IInv /\ SP!Fetching /\ SP!Fetched = Fetched
  BY <1>1, Seen DEF SimInv
<1>3. SP!Ended /\ SP!Ready(Fetched)
  BY <1>2, ProgramsValid, CodeAssumption, SP!AlwaysReady
<1>4. SP!Needs(Fetched) \in Seq(AnyType) /\ SP!Holds(SP!Operands, SP!Needs(Fetched))
  BY <1>2, <1>3, SameStack DEF SP!Ended, SP!Ready
<1>5. Holds(SP!Operands, SP!Needs(Fetched))
  BY <1>4, SameStack
<1>6. PICK n, o, ts : n = Len(frames) /\ o = SP!Operands /\ ts = SP!Needs(Fetched)
  OBVIOUS
<1>7. /\ Sim(prog, frames, opd, Contexts, Left) /\ n # 0 /\ o = Contexts[n].operands
  BY <1>1, <1>6, Facing
<1>8. ts \in Seq(AnyType) /\ Holds(o, ts)
  BY <1>4, <1>5, <1>6
<1>9. Holds(opd, ts) /\ Len(ts) \in Nat /\ Len(ts) <= Len(o)
  BY <1>6, <1>7, <1>8, SimTop
<1>. QED BY <1>1, <1>2, <1>3, <1>4, <1>5, <1>6, <1>9

\* The topmost operands are the topmost entries.
LEMMA SamePopped ==
  ASSUME SimInv, Active, NEW k \in Nat, k # 0, k <= Len(SP!Operands)
  PROVE  /\ Popped(opd, k) = Popped(SP!Operands, k) /\ SP!Popped(SP!Operands, k) = Popped(opd, k)
         /\ Popped(opd, k) \in Values /\ k < Len(opd)
<1>1. PICK n, o : n = Len(frames) /\ o = SP!Operands
  OBVIOUS
<1>2. Sim(prog, frames, opd, Contexts, Left) /\ n # 0 /\ o = Contexts[n].operands /\ o \in Seq(Values)
  BY <1>1, Facing
<1>3. Len(o) \in Nat /\ Len(o) < Len(opd) /\ \A j \in 1..Len(o) : Popped(opd, j) = Popped(o, j)
  BY <1>1, <1>2, SimTop
<1>4. k \in 1..Len(o)
  BY <1>1, <1>3
<1>5. Popped(opd, k) = Popped(o, k)
  BY <1>3, <1>4
<1>6. Popped(o, k) \in Values
  <2>1. Len(o) - k + 1 \in 1..Len(o)
    BY <1>3, <1>4
  <2>. QED BY <1>2, <2>1, ElementOfSeq DEF Popped
<1>7. Len(opd) \in Nat
  BY DEF SimInv, IInv, StacksOK
<1>8. k < Len(opd)
  BY <1>3, <1>4, <1>7
<1>. QED BY <1>1, <1>5, <1>6, <1>8, SameStack

Alike == {"const", "numeric", "bitcount", "divide", "load", "store", "select", "nop", "unreachable",
          "memory.size", "local.get", "local.set", "local.tee", "global.get", "global.set",
          "block", "loop", "if", "br", "br_if", "br_table"}

\* For most opcodes the handlers look for what the promise asks for.
LEMMA SameNeeds ==
  ASSUME SimInv, Fetching, Fetched.op \in Alike
  PROVE  Needs(Fetched) = SP!Needs(Fetched)
<1>. DEFINE i == Fetched
<1>1. /\ Active /\ Len(SP!Needs(i)) <= Len(SP!Operands)
  BY PromiseReady
<1>2. SP!Locals = CurrentFunc.locals
  BY <1>1, Seen
<1>. HIDE DEF i
<1>3. CASE i.op = "select"
  <2>1. SP!Needs(i) = <<SP!TypeAt(2), SP!TypeAt(2), "i32">> /\ Needs(i) = <<SelectType, SelectType, "i32">>
    BY <1>3 DEF SP!Needs, Needs
  <2>2. Len(SP!Needs(i)) = 3
    BY <2>1
  <2>3. 2 <= Len(SP!Operands)
    <3>1. SP!Operands \in Seq(Values)
      BY <1>1, Facing
    <3>2. Len(SP!Operands) \in Nat
      BY <3>1
    <3>. QED BY <1>1, <2>2, <3>2
  <2>4. /\ SP!Popped(SP!Operands, 2) = Popped(opd, 2) /\ Popped(opd, 2) \in Values /\ 2 < Len(opd)
    BY <1>1, <2>3, SamePopped
  <2>5. SP!TypeAt(2) = Popped(opd, 2).valtype
    BY <2>3, <2>4 DEF SP!TypeAt
  <2>6. SelectType = Popped(opd, 2).valtype
    <3>1. ~IsMarker(Popped(opd, 2))
      BY <2>4 DEF Values, IsMarker
    <3>2. Len(opd) >= 2
      BY <2>4 DEF SimInv, IInv, StacksOK
    <3>. QED BY <3>1, <3>2 DEF SelectType
  <2>. QED BY <2>1, <2>5, <2>6 DEF i
<1>4. CASE i.op # "select"
  BY <1>2, <1>4 DEF i, Alike, SP!Needs, Needs
<1>. QED BY <1>3, <1>4 DEF i

\* Nothing is missing: no handler raises for an absent index or a missing operand.
LEMMA Granted ==
  ASSUME SimInv, Fetching
  PROVE  Present(Fetched) /\ Holds(opd, Needs(Fetched))
<1>. DEFINE i == Fetched
<1>1. /\ Active /\ SP!Fetching /\ SP!Exists(i) /\ Holds(opd, SP!Needs(i))
      /\ Holds(SP!Operands, SP!Needs(i))
  BY PromiseReady DEF SP!Ready
<1>2. SP!Locals = CurrentFunc.locals /\ SP!Fetched = i
  BY <1>1, Seen
<1>3. Present(i)
  <2>. HIDE DEF i
  <2>. QED BY <1>1, <1>2 DEF SP!Exists, Present
<1>4. i.op \in Alike \cup {"memory.grow", "drop", "return", "call", "call_indirect"}
  <2>1. SP!IInv
    BY DEF SimInv
  <2>2. SP!Fetched.op \in {"const", "numeric", "bitcount", "divide", "load", "store", "drop", "select",
           "return", "unreachable", "nop", "memory.size", "memory.grow", "local.get", "local.set",
           "local.tee", "global.get", "global.set", "block", "loop", "if", "br", "br_if", "br_table",
           "call", "call_indirect"}
    BY <1>1, <2>1, ProgramsValid, CodeAssumption, SP!EveryOpcode
  <2>. QED BY <1>2, <2>2 DEF Alike
<1>5. Holds(opd, Needs(i))
  <2>. HIDE DEF i
  <2>1. Len(opd) \in Nat
    BY DEF SimInv, IInv, StacksOK
  <2>2. CASE i.op \in Alike
    BY <1>1, <2>2, SameNeeds DEF i
  <2>3. CASE i.op \in {"memory.grow", "drop", "return", "call"}
    <3>1. Needs(i) = << >>
      BY <2>3 DEF Needs
    <3>. QED BY <2>1, <3>1, EmptySeq DEF Holds
  <2>4. CASE i.op = "call_indirect"
    <3>1. Needs(i) = <<"i32">> /\ SP!Needs(i) = Append(i.t1, "i32")
      BY <2>4 DEF Needs, SP!Needs
    <3>2. i.t1 \in Seq(ValType)
      <4>1. i \in Instr(Blocks(prog))
        BY FetchedType DEF i, SimInv
      <4>. QED BY <2>4, <4>1 DEF Instr, ValueTypes
    <3>3. PICK ts, n : ts = Append(i.t1, "i32") /\ n = Len(i.t1)
      OBVIOUS
    <3>4. n \in Nat /\ Len(ts) = n + 1 /\ ts[n + 1] = "i32"
      BY <3>2, <3>3, AppendProperties DEF ValType
    <3>5. Holds(opd, ts)
      BY <1>1, <3>1, <3>3
    <3>6. Len(opd) >= n + 1 /\ ~IsMarker(opd[Len(opd)]) /\ opd[Len(opd)].valtype = "i32"
      <4>1. Len(opd) >= n + 1
        BY <3>4, <3>5 DEF Holds
      <4>2. n + 1 \in 1..Len(ts)
        BY <3>4
      <4>3. ~IsMarker(opd[Len(opd) - Len(ts) + (n + 1)]) /\ opd[Len(opd) - Len(ts) + (n + 1)].valtype = ts[n + 1]
        BY <3>5, <4>2 DEF Holds
      <4>4. Len(opd) - Len(ts) + (n + 1) = Len(opd)
        BY <2>1, <3>4
      <4>. QED BY <3>4, <4>1, <4>3, <4>4
    <3>7. Holds(opd, <<"i32">>)
      BY <2>1, <3>4, <3>6 DEF Holds
    <3>. QED BY <3>1, <3>7
  <2>. QED BY <1>4, <2>2, <2>3, <2>4
<1>. QED BY <1>3, <1>5

----------------------------------------------------------------------------
(* The innermost context goes on *)

\* A step of the loop does what the promise allows, and the stacks agree again.
Follows == /\ Agrees' /\ SP!Next
           /\ Running' => mode' = mode
           /\ ~Running' => outcome' \notin {"none", "returned"}

LEMMA PromiseAt ==
  ASSUME SimInv, NEW ops, At(ops)
  PROVE  SP!At(ops) /\ SP!Fetched = Fetched /\ Fetching /\ Active /\ Fetched.op \in ops
<1>1. Fetching /\ Fetched.op \in ops
  BY DEF At
<1>2. Active /\ SP!Fetching /\ SP!Ready(Fetched)
  BY <1>1, PromiseReady
<1>3. SP!Fetched = Fetched
  BY <1>2, Seen
<1>. QED BY <1>1, <1>2, <1>3 DEF SP!At

Bump(f)        == [f EXCEPT !.ip = @ + 1]
OnwardOf(c, o) == [c EXCEPT !.ip = c.ip + 1, !.operands = o]

LEMMA TopAdvanced ==
  ASSUME NEW p, NEW f \in FrameSet(p)
  PROVE  /\ Bump(f) \in FrameSet(p) /\ Bump(f).context = f.context
         /\ \A o, x : ContextRead(Bump(f), o) = OnwardOf(ContextRead(f, x), o)
<1>1. Bump(f) \in FrameSet(p) /\ Bump(f).context = f.context
  BY DEF FrameSet, Bump
<1>2. ASSUME NEW o, NEW x
      PROVE  ContextRead(Bump(f), o) = OnwardOf(ContextRead(f, x), o)
  <2>1. PICK g, r, c : g = Bump(f) /\ r = Carries(f) /\ c = ContextRead(f, x)
    OBVIOUS
  <2>2. /\ g.instrs = f.instrs /\ g.ip = f.ip + 1 /\ g.context = f.context
        /\ g.locals = f.locals /\ Carries(g) = r
    BY <2>1 DEF FrameSet, Carries, Bump
  <2>3. ContextRead(g, o) = [instrs |-> f.instrs, ip |-> f.ip + 1, kind |-> f.context,
                             result |-> r, operands |-> o, locals |-> f.locals]
    BY <2>2 DEF ContextRead
  <2>4. c = [instrs |-> f.instrs, ip |-> f.ip, kind |-> f.context,
             result |-> r, operands |-> x, locals |-> f.locals]
    BY <2>1 DEF ContextRead
  <2>5. OnwardOf(c, o) = [[c EXCEPT !.ip = f.ip + 1] EXCEPT !.operands = o]
    BY <2>4 DEF OnwardOf
  <2>6. OnwardOf(c, o) = [instrs |-> f.instrs, ip |-> f.ip + 1, kind |-> f.context,
                          result |-> r, operands |-> o, locals |-> f.locals]
    BY <2>4, <2>5
  <2>. QED BY <2>1, <2>3, <2>6
<1>. QED BY <1>1, <1>2

\* The stacks in the middle of a step: ip is past the instruction, and its
\* operands are traded for other values.
LEMMA AdvancedSim ==
  ASSUME SimInv, Active, NEW d \in Nat, d <= Len(SP!Operands), NEW vs \in Seq(Values)
  PROVE  Sim(prog, Advanced, Traded(opd, d, vs), SP!Onward(Traded(SP!Operands, d, vs)), Left)
<1>1. PICK n, g, o : n = Len(frames) /\ g = Bump(Top) /\ o = Traded(SP!Operands, d, vs)
  OBVIOUS
<1>2. /\ Sim(prog, frames, opd, Contexts, Left) /\ n # 0 /\ n \in 1..n
      /\ Top = frames[n] /\ Top \in FrameSet(prog)
      /\ SP!Depth = n /\ SP!Innermost = Contexts[n] /\ SP!Operands = Contexts[n].operands
      /\ SP!Innermost = ContextRead(Top, SP!Operands)
  BY <1>1, Facing
<1>3. /\ g \in FrameSet(prog) /\ g.context = frames[n].context
      /\ ContextRead(g, o) = OnwardOf(SP!Innermost, o)
  BY <1>1, <1>2, TopAdvanced
<1>4. /\ Sim(prog, frames, opd, Contexts, Left) /\ n = Len(frames) /\ n # 0
      /\ d \in Nat /\ d <= Len(Contexts[n].operands) /\ vs \in Seq(Values)
      /\ g \in FrameSet(prog) /\ g.context = frames[n].context
  BY <1>1, <1>2, <1>3
<1>5. Sim(prog, Put(frames, n, g), Traded(opd, d, vs),
          Put(Contexts, n, ContextRead(g, Traded(Contexts[n].operands, d, vs))), Left)
  BY <1>4, SimTraded
<1>6. Put(frames, n, g) = Advanced
  BY <1>1, <1>2 DEF Put, Advanced, Bump
<1>7. Put(Contexts, n, ContextRead(g, o)) = SP!Onward(o)
  BY <1>2, <1>3 DEF Put, SP!Onward, OnwardOf
<1>. QED BY <1>1, <1>2, <1>5, <1>6, <1>7

LEMMA TradedForms ==
  ASSUME NEW s \in Seq(Entries), NEW d \in Nat, d <= Len(s), NEW v \in Values
  PROVE  /\ Append(Dropped(s, d), v) = Traded(s, d, <<v>>) /\ Dropped(s, d) = Traded(s, d, << >>)
         /\ Append(s, v) = Traded(s, 0, <<v>>) /\ s = Traded(s, 0, << >>)
         /\ <<v>> \in Seq(Values) /\ << >> \in Seq(Values)
<1>1. v \in Entries
  BY DEF Entries
<1>2. ASSUME NEW t \in Seq(Entries) PROVE Append(t, v) = t \o <<v>> /\ t \o << >> = t
  BY <1>1, AppendIsConcat, ConcatEmptySeq
<1>3. Dropped(s, d) \in Seq(Entries) /\ Dropped(s, 0) = s
  BY DroppedType, DroppedNone
<1>4. <<v>> \in Seq(Values) /\ << >> \in Seq(Values)
  OBVIOUS
<1>. QED BY <1>2, <1>3, <1>4 DEF Traded

LEMMA PushFollows ==
  ASSUME SimInv, Fetching, NEW vs \in Seq(Values), NEW c, c = Len(SP!Needs(Fetched)),
         opd' = Traded(opd, c, vs), Advance, Keep \/ prog' = prog
  PROVE  SP!Push(vs) /\ Agrees' /\ Running' /\ mode' = mode
<1>1. prog' = prog /\ mode' = mode /\ outcome' = outcome /\ frames' = Advanced
  BY DEF Advance, Proceed, Keep
<1>2. Running' /\ Active
  BY <1>1, PromiseReady DEF Running, Fetching
<1>3. c \in Nat /\ c <= Len(SP!Operands)
  BY PromiseReady
<1>4. Sim(prog, Advanced, Traded(opd, c, vs), SP!Onward(Traded(SP!Operands, c, vs)), Left)
  BY <1>2, <1>3, AdvancedSim
<1>5. PICK cs : cs = SP!Onward(Traded(SP!Operands, c, vs))
  OBVIOUS
<1>6. Sim(prog, frames', opd', cs, Left)
  BY <1>1, <1>4, <1>5
<1>7. Contexts' = cs /\ Left' = Left /\ Agrees'
  BY <1>1, <1>2, <1>6, Lands
<1>8. SP!Rest \o vs = Traded(SP!Operands, c, vs)
  <2>1. SP!Fetched = Fetched
    BY <1>2, Seen
  <2>. QED BY <2>1, SameStack DEF SP!Rest, Traded
<1>9. SP!Push(vs)
  BY <1>1, <1>5, <1>7, <1>8 DEF SP!Push, SP!Proceed
<1>. QED BY <1>1, <1>2, <1>7, <1>9

\* What the runs leave out is not fetched.
LEMMA HandledHere ==
  ASSUME SimInv, Fetching
  PROVE  /\ Fetched \in Instr(Blocks(prog)) /\ Fetched.op \notin {"bitcount", "divide"}
         /\ Fetched.op = "if" => Fetched.else # NoBlock
         /\ Fetched.op = "call_indirect" =>
              \A n \in 1..Len(prog.table) : prog.table[n].initialized =>
                LET f == prog.funcs[prog.table[n].func + 1] IN f.t1 = Fetched.t1 /\ f.t2 = Fetched.t2
<1>1. prog \in Programs /\ Fetched \in Instr(Blocks(prog)) /\ Top \in Frame
  BY FetchedType DEF SimInv, IInv
<1>2. PICK b, k : b = Top.instrs /\ k = Top.ip + 1
  OBVIOUS
<1>3. b \in Blocks(prog) /\ k \in Nat \ {0}
  BY <1>1, <1>2 DEF Frame
<1>4. prog.code[b] \in Seq(Instr(Blocks(prog)))
  <2>1. IsProgram(prog)
    BY <1>1, CodeAssumption
  <2>. QED BY <1>3, <2>1 DEF IsProgram
<1>5. k \in 1..Len(prog.code[b])
  <2>1. Len(prog.code[b]) \in Nat /\ Top.ip \in Nat
    BY <1>1, <1>4 DEF Frame
  <2>2. ~(Top.ip >= Len(prog.code[b]))
    BY <1>2 DEF Fetching, AtEnd
  <2>. QED BY <1>2, <2>1, <2>2
<1>6. b \in DOMAIN prog.typing
  <2>1. Valid(prog)
    BY <1>1, TypingAssumption
  <2>. QED BY <1>3, <2>1 DEF Valid
<1>7. Handled(prog)
  BY <1>1, HandledAssumption
<1>8. prog.code[b][k] = Fetched
  BY <1>2 DEF Fetched
<1>. QED BY <1>1, <1>5, <1>6, <1>7, <1>8 DEF Handled

\* A step that pushes does what the promise pushes.
LEMMA ConstFollows ==
  ASSUME SimInv, Const
  PROVE  Follows
<1>1. SP!At({"const"}) /\ SP!Fetched = Fetched /\ Fetching /\ Active /\ Fetched.op = "const"
  BY PromiseAt DEF Const
<1>2. PICK v : v = Value(Fetched.t, Fetched.v)
  OBVIOUS
<1>3. v \in Values
  BY <1>1, <1>2, HandledHere, ValueType DEF Instr, AnyType
<1>4. opd' = Append(opd, v) /\ Advance /\ Keep /\ globals' = globals
  BY <1>2 DEF Const, Keep
<1>5. opd \in Seq(Entries)
  BY DEF SimInv, IInv, StacksOK
<1>6. Len(SP!Needs(Fetched)) = 0
  BY <1>1 DEF SP!Needs
<1>7. opd' = Traded(opd, Len(SP!Needs(Fetched)), <<v>>) /\ <<v>> \in Seq(Values)
  <2>1. 0 \in Nat /\ 0 <= Len(opd)
    BY <1>5
  <2>2. Append(opd, v) = Traded(opd, 0, <<v>>) /\ <<v>> \in Seq(Values)
    BY <1>3, <1>5, <2>1, TradedForms
  <2>. QED BY <1>4, <1>6, <2>2

<1>8. SP!Push(<<v>>) /\ Agrees' /\ Running' /\ mode' = mode
  BY <1>1, <1>4, <1>7, PushFollows
<1>9. SP!Const
  BY <1>1, <1>2, <1>4, <1>8, SameStack DEF SP!Const
<1>. QED BY <1>8, <1>9 DEF Follows, SP!Next

LEMMA StackHere ==
  ASSUME SimInv, Fetching, NEW c, c = Len(SP!Needs(Fetched))
  PROVE  /\ opd \in Seq(Entries) /\ c \in Nat /\ c <= Len(opd)
         /\ \A v \in Values : /\ Append(Dropped(opd, c), v) = Traded(opd, c, <<v>>)
                              /\ <<v>> \in Seq(Values)
         /\ Dropped(opd, c) = Traded(opd, c, << >>)
<1>1. opd \in Seq(Entries)
  BY DEF SimInv, IInv, StacksOK
<1>2. c \in Nat /\ Holds(opd, SP!Needs(Fetched))
  BY PromiseReady
<1>3. c <= Len(opd)
  BY <1>1, <1>2 DEF Holds
<1>4. ASSUME NEW v \in Values
      PROVE  /\ Append(Dropped(opd, c), v) = Traded(opd, c, <<v>>) /\ <<v>> \in Seq(Values)
             /\ Dropped(opd, c) = Traded(opd, c, << >>)
  BY <1>1, <1>2, <1>3, TradedForms
<1>5. Value("i32", 0) \in Values
  BY ZeroType DEF AnyType, ValType
<1>. QED BY <1>1, <1>2, <1>3, <1>4, <1>5

LEMMA ComputeFollows ==
  ASSUME SimInv, Numeric \/ Load \/ MemorySize
  PROVE  Follows
<1>1. PICK op \in {"numeric", "load", "memory.size"} : At({op})
  BY DEF Numeric, Load, MemorySize
<1>2. /\ SP!At({op}) /\ SP!Fetched = Fetched /\ Fetching /\ Active /\ Fetched.op = op
  BY <1>1, PromiseAt
<1>3. Needs(Fetched) = SP!Needs(Fetched)
  BY <1>2, SameNeeds DEF Alike
<1>4. PICK t : t = SP!Pushed(Fetched)
  OBVIOUS
<1>5. t \in AnyType
  BY <1>2, <1>4, HandledHere DEF SP!Pushed, Instr, AnyType, ValType
<1>6. \E v \in Val : opd' = Append(Rest, Value(t, v)) /\ Advance /\ Keep
  <2>1. CASE op = "numeric"
    BY <1>2, <1>4, <2>1 DEF Numeric, Load, MemorySize, At, SP!Pushed
  <2>2. CASE op = "load"
    BY <1>2, <1>4, <2>2 DEF Numeric, Load, MemorySize, At, SP!Pushed
  <2>3. CASE op = "memory.size"
    <3>1. MemorySize
      BY <1>2, <2>3 DEF Numeric, Load, At
    <3>2. prog.memory
      BY <1>2, <2>3, PromiseReady DEF SP!Ready, SP!Exists
    <3>3. (\E v \in Val : opd' = Append(opd, Value("i32", v))) /\ Advance /\ Keep
      BY <3>1, <3>2 DEF MemorySize
    <3>4. Rest = opd
      <4>1. Needs(Fetched) = << >>
        BY <1>2, <2>3 DEF Needs
      <4>2. opd \in Seq(Entries) /\ Len(<< >>) = 0
        BY DEF SimInv, IInv, StacksOK
      <4>. QED BY <4>1, <4>2, DroppedNone DEF Rest
    <3>5. t = "i32"
      BY <1>2, <1>4, <2>3 DEF SP!Pushed
    <3>. QED BY <3>3, <3>4, <3>5
  <2>. QED BY <2>1, <2>2, <2>3
<1>7. PICK v \in Val : opd' = Append(Rest, Value(t, v)) /\ Advance /\ Keep
  BY <1>6
<1>8. PICK e : e = Value(t, v)
  OBVIOUS
<1>9. e \in Values
  BY <1>5, <1>8, ValueType
<1>10. opd' = Traded(opd, Len(SP!Needs(Fetched)), <<e>>) /\ <<e>> \in Seq(Values)
  BY <1>2, <1>3, <1>7, <1>8, <1>9, StackHere DEF Rest
<1>11. SP!Push(<<e>>) /\ Agrees' /\ Running' /\ mode' = mode
  BY <1>2, <1>7, <1>10, PushFollows
<1>12. SP!Compute
  <2>1. SP!At({"numeric", "bitcount", "divide", "load", "memory.size"})
    BY <1>2 DEF SP!At
  <2>2. SP!Push(<<SP!Value(SP!Pushed(SP!Fetched), v)>>)
    BY <1>2, <1>4, <1>8, <1>11, SameStack
  <2>3. globals' = globals
    BY <1>7 DEF Keep
  <2>. QED BY <2>1, <2>2, <2>3 DEF SP!Compute
<1>. QED BY <1>11, <1>12 DEF Follows, SP!Next

LEMMA DiscardFollows ==
  ASSUME SimInv, Store \/ Drop \/ Nop
  PROVE  Follows
<1>1. PICK op \in {"store", "drop", "nop"} : At({op})
  BY DEF Store, Drop, Nop
<1>2. /\ SP!At({op}) /\ SP!Fetched = Fetched /\ Fetching /\ Active /\ Fetched.op = op
  BY <1>1, PromiseAt
<1>3. PICK c : c = Len(SP!Needs(Fetched))
  OBVIOUS
<1>4. opd \in Seq(Entries) /\ c \in Nat /\ c <= Len(opd) /\ Dropped(opd, c) = Traded(opd, c, << >>)
  BY <1>2, <1>3, StackHere
<1>5. opd' = Dropped(opd, c) /\ Advance /\ Keep
  <2>1. CASE op = "store"
    <3>1. Store
      BY <1>2, <2>1 DEF Drop, Nop, At
    <3>2. Needs(Fetched) = SP!Needs(Fetched)
      BY <1>2, <2>1, SameNeeds DEF Alike
    <3>. QED BY <1>3, <3>1, <3>2 DEF Store, Rest
  <2>2. CASE op = "nop"
    <3>1. Nop
      BY <1>2, <2>2 DEF Drop, Store, At
    <3>2. c = 0
      BY <1>2, <1>3, <2>2 DEF SP!Needs
    <3>3. Dropped(opd, 0) = opd
      BY <1>4, DroppedNone
    <3>. QED BY <3>1, <3>2, <3>3 DEF Nop
  <2>3. CASE op = "drop"
    <3>1. Drop
      BY <1>2, <2>3 DEF Nop, Store, At
    <3>2. c = 1
      BY <1>2, <1>3, <2>3 DEF SP!Needs
    <3>3. opd # << >>
      BY <1>4, <3>2
    <3>. QED BY <3>1, <3>2, <3>3 DEF Drop
  <2>. QED BY <2>1, <2>2, <2>3
<1>6. opd' = Traded(opd, c, << >>) /\ << >> \in Seq(Values)
  BY <1>4, <1>5
<1>7. SP!Push(<< >>) /\ Agrees' /\ Running' /\ mode' = mode
  BY <1>2, <1>3, <1>5, <1>6, PushFollows
<1>8. SP!Discard
  BY <1>2, <1>5, <1>7 DEF SP!Discard, SP!At, Keep
<1>. QED BY <1>7, <1>8 DEF Follows, SP!Next

LEMMA SelectFollows ==
  ASSUME SimInv, Select
  PROVE  Follows
<1>1. /\ SP!At({"select"}) /\ SP!Fetched = Fetched /\ Fetching /\ Active /\ Fetched.op = "select"
  BY PromiseAt DEF Select
<1>2. Needs(Fetched) = SP!Needs(Fetched) /\ Len(Needs(Fetched)) = 3
  BY <1>1, SameNeeds DEF Alike, Needs
<1>3. 3 <= Len(SP!Operands)
  BY <1>1, <1>2, PromiseReady
<1>4. \A k \in {1, 2, 3} : SP!Popped(SP!Operands, k) = Popped(opd, k) /\ Popped(opd, k) \in Values
  <2>1. SP!Operands \in Seq(Values)
    BY <1>1, Facing
  <2>2. Len(SP!Operands) \in Nat
    BY <2>1
  <2>3. ASSUME NEW k \in {1, 2, 3}
        PROVE  SP!Popped(SP!Operands, k) = Popped(opd, k) /\ Popped(opd, k) \in Values
    <3>1. k \in Nat /\ k # 0 /\ k <= Len(SP!Operands)
      BY <1>3, <2>2
    <3>. QED BY <1>1, <3>1, SamePopped
  <2>. QED BY <2>3
<1>5. PICK k \in {2, 3} : k = IF Popped(opd, 1).val # 0 THEN 3 ELSE 2
  OBVIOUS
<1>6. PICK v : v = Popped(opd, k)
  OBVIOUS
<1>7. opd' = Append(Rest, v) /\ Advance /\ Keep
  BY <1>5, <1>6 DEF Select
<1>8. v \in Values /\ v = SP!Popped(SP!Operands, k)
  BY <1>4, <1>6
<1>9. opd' = Traded(opd, Len(SP!Needs(Fetched)), <<v>>) /\ <<v>> \in Seq(Values)
  BY <1>1, <1>2, <1>7, <1>8, StackHere DEF Rest
<1>10. SP!Push(<<v>>) /\ Agrees' /\ Running' /\ mode' = mode
  BY <1>1, <1>7, <1>9, PushFollows
<1>11. SP!Select
  <2>1. v = SP!Popped(SP!Operands, IF SP!Popped(SP!Operands, 1).val # 0 THEN 3 ELSE 2)
    BY <1>4, <1>5, <1>8
  <2>. QED BY <1>1, <1>7, <1>10, <2>1 DEF SP!Select, Keep
<1>. QED BY <1>10, <1>11 DEF Follows, SP!Next

\* What the variable handlers read is of a value type.
LEMMA VariablesHere ==
  ASSUME SimInv, Fetching
  PROVE  /\ Fetched.op \in {"local.get", "local.set", "local.tee"} =>
              /\ CurrentFunc.locals[Fetched.idx + 1] \in Values
              /\ SP!Locals[Fetched.idx + 1] = CurrentFunc.locals[Fetched.idx + 1]
              /\ Fetched.idx + 1 \in 1..Len(CurrentFunc.locals)
         /\ Fetched.op \in {"global.get", "global.set"} => globals[Fetched.idx + 1] \in Values
<1>1. /\ Active /\ SP!Fetching /\ SP!IInv
  BY PromiseReady DEF SimInv
<1>2. SP!Locals = CurrentFunc.locals /\ SP!Fetched = Fetched
  BY <1>1, Seen
<1>3. ASSUME Fetched.op \in {"local.get", "local.set", "local.tee"}
      PROVE  SP!Locals[Fetched.idx + 1] \in SP!Values /\ Fetched.idx + 1 \in 1..Len(SP!Locals)
  BY <1>1, <1>2, <1>3, ProgramsValid, CodeAssumption, SP!LocalTurned
<1>4. ASSUME Fetched.op \in {"global.get", "global.set"}
      PROVE  globals[Fetched.idx + 1] \in SP!Values
  BY <1>1, <1>2, <1>4, ProgramsValid, CodeAssumption, SP!GlobalTurned
<1>. QED BY <1>2, <1>3, <1>4, SameStack

LEMMA GetFollows ==
  ASSUME SimInv, LocalGet \/ GlobalGet
  PROVE  Follows
<1>1. PICK op \in {"local.get", "global.get"} : At({op})
  BY DEF LocalGet, GlobalGet
<1>2. /\ SP!At({op}) /\ SP!Fetched = Fetched /\ Fetching /\ Active /\ Fetched.op = op
  BY <1>1, PromiseAt
<1>3. PICK v : v = IF op = "local.get" THEN CurrentFunc.locals[Fetched.idx + 1]
                   ELSE globals[Fetched.idx + 1]
  OBVIOUS
<1>4. v \in Values /\ (op = "local.get" => SP!Locals[Fetched.idx + 1] = v)
  BY <1>2, <1>3, VariablesHere
<1>5. opd' = Append(opd, v) /\ Advance /\ Keep
  BY <1>2, <1>3 DEF LocalGet, GlobalGet, At
<1>6. PICK c : c = Len(SP!Needs(Fetched))
  OBVIOUS
<1>7. c = 0
  BY <1>2, <1>6 DEF SP!Needs
<1>8. opd' = Traded(opd, c, <<v>>) /\ <<v>> \in Seq(Values)
  <2>1. opd \in Seq(Entries) /\ 0 \in Nat /\ 0 <= Len(opd)
    BY <1>2, <1>6, <1>7, StackHere
  <2>2. Append(opd, v) = Traded(opd, 0, <<v>>) /\ <<v>> \in Seq(Values)
    BY <1>4, <2>1, TradedForms
  <2>. QED BY <1>5, <1>7, <2>2
<1>9. SP!Push(<<v>>) /\ Agrees' /\ Running' /\ mode' = mode
  BY <1>2, <1>5, <1>6, <1>8, PushFollows
<1>10. SP!LocalGet \/ SP!GlobalGet
  BY <1>2, <1>3, <1>4, <1>5, <1>9 DEF SP!LocalGet, SP!GlobalGet, Keep
<1>. QED BY <1>9, <1>10 DEF Follows, SP!Next

LEMMA GlobalSetFollows ==
  ASSUME SimInv, GlobalSet
  PROVE  Follows
<1>1. /\ SP!At({"global.set"}) /\ SP!Fetched = Fetched /\ Fetching /\ Active /\ Fetched.op = "global.set"
  BY PromiseAt DEF GlobalSet
<1>2. Needs(Fetched) = SP!Needs(Fetched) /\ Len(SP!Needs(Fetched)) = 1
  BY <1>1, SameNeeds DEF Alike, SP!Needs
<1>3. SP!Popped(SP!Operands, 1) = Popped(opd, 1)
  <2>1. 1 <= Len(SP!Operands)
    BY <1>1, <1>2, PromiseReady
  <2>. QED BY <1>1, <2>1, SamePopped
<1>4. /\ opd' = Rest /\ Advance /\ prog' = prog
      /\ globals' = [globals EXCEPT ![Fetched.idx + 1] = Popped(opd, 1)]
  BY DEF GlobalSet
<1>5. opd' = Traded(opd, Len(SP!Needs(Fetched)), << >>) /\ << >> \in Seq(Values)
  <2>1. Dropped(opd, Len(SP!Needs(Fetched))) = Traded(opd, Len(SP!Needs(Fetched)), << >>)
    BY <1>1, StackHere
  <2>2. opd' = Traded(opd, Len(SP!Needs(Fetched)), << >>)
    BY <1>2, <1>4, <2>1 DEF Rest
  <2>3. << >> \in Seq(Values)
    OBVIOUS
  <2>. QED BY <2>2, <2>3
<1>6. SP!Push(<< >>) /\ Agrees'
 /\ Running' /\ mode' = mode
  BY <1>1, <1>4, <1>5, PushFollows
<1>7. SP!GlobalSet
  BY <1>1, <1>3, <1>4, <1>6 DEF SP!GlobalSet
<1>. QED BY <1>6, <1>7 DEF Follows, SP!Next

\* A local of a frame is set.
SetLocal(f, i, v) == [f EXCEPT !.locals[i] = v]

LEMMA LocalRead ==
  ASSUME NEW p, NEW f \in FrameSet(p), NEW i \in 1..Len(f.locals), NEW v \in Values, NEW o
  PROVE  /\ SetLocal(f, i, v) \in FrameSet(p) /\ SetLocal(f, i, v).context = f.context
         /\ ContextRead(SetLocal(f, i, v), o) = SetLocal(ContextRead(f, o), i, v)
<1>1. PICK g, ls, r : /\ ls = [f.locals EXCEPT ![i] = v] /\ g = [f EXCEPT !.locals = ls]
                      /\ r = Carries(f)
  OBVIOUS
<1>2. f.locals \in Seq(Values)
  BY DEF FrameSet
<1>3. ls \in Seq(Values)
  BY <1>1, <1>2, ExceptSeq
<1>4. SetLocal(f, i, v) = g
  BY <1>1 DEF SetLocal
<1>5. /\ g \in FrameSet(p) /\ g.context = f.context /\ g.locals = ls
      /\ g.instrs = f.instrs /\ g.ip = f.ip /\ Carries(g) = r
  BY <1>1, <1>3 DEF FrameSet, Carries
<1>6. PICK c : c = ContextRead(f, o)
  OBVIOUS
<1>7. c = [instrs |-> f.instrs, ip |-> f.ip, kind |-> f.context, result |-> r,
           operands |-> o, locals |-> f.locals]
  BY <1>1, <1>6 DEF ContextRead
<1>8. SetLocal(c, i, v) = [instrs |-> f.instrs, ip |-> f.ip, kind |-> f.context,
                           result |-> r, operands |-> o, locals |-> ls]
  <2>1. SetLocal(c, i, v) = [c EXCEPT !.locals = [c.locals EXCEPT ![i] = v]]
    BY DEF SetLocal
  <2>2. [c.locals EXCEPT ![i] = v] = ls
    BY <1>1, <1>7
  <2>3. SetLocal(c, i, v) = [c EXCEPT !.locals = ls]
    BY <2>1, <2>2
  <2>. QED BY <1>7, <2>3
<1>9. ContextRead(g, o) = [instrs |-> f.instrs, ip |-> f.ip, kind |-> f.context,
                           result |-> r, operands |-> o, locals |-> ls]
  BY <1>5 DEF ContextRead
<1>. QED BY <1>4, <1>5, <1>6, <1>8, <1>9

LEMMA SimLocal ==
  ASSUME NEW p, NEW fs, NEW s, NEW cs, NEW rs, Sim(p, fs, s, cs, rs), NEW a \in 1..Len(fs),
         NEW i \in 1..Len(fs[a].locals), NEW v \in Values
  PROVE  Sim(p, [fs EXCEPT ![a].locals[i] = v], s, [cs EXCEPT ![a].locals[i] = v], rs)
<1>1. /\ fs \in Seq(FrameSet(p)) /\ cs \in Seq(ContextSet(p)) /\ Len(cs) = Len(fs)
      /\ fs[a] \in FrameSet(p) /\ cs[a] = ContextRead(fs[a], cs[a].operands)
  BY SimParts
<1>2. PICK f, g, o : f = fs[a] /\ g = SetLocal(f, i, v) /\ o = cs[a].operands
  OBVIOUS
<1>3. /\ g \in FrameSet(p) /\ g.context = f.context
      /\ ContextRead(g, o) = SetLocal(ContextRead(f, o), i, v)
  <2>1. f \in FrameSet(p) /\ i \in 1..Len(f.locals) /\ v \in Values
    BY <1>1, <1>2
  <2>. QED BY <1>2, <2>1, LocalRead
<1>4. Sim(p, Put(fs, a, g), s, Put(cs, a, ContextRead(g, cs[a].operands)), rs)
  BY <1>2, <1>3, SimFrame
<1>5. Put(fs, a, g) = [fs EXCEPT ![a].locals[i] = v]
  BY <1>1, <1>2 DEF Put, SetLocal
<1>6. ContextRead(g, cs[a].operands) = SetLocal(cs[a], i, v)
  BY <1>1, <1>2, <1>3
<1>7. Put(cs, a, SetLocal(cs[a], i, v)) = [cs EXCEPT ![a].locals[i] = v]
  BY <1>1 DEF Put, SetLocal

<1>. QED BY <1>4, <1>5, <1>6, <1>7

LEMMA LocalSetFollows ==
  ASSUME SimInv, LocalSet
  PROVE  Follows
<1>1. PICK op \in {"local.set", "local.tee"} : At({op})
  BY DEF LocalSet, At
<1>2. /\ SP!At({op}) /\ SP!Fetched = Fetched /\ Fetching /\ Active /\ Fetched.op = op
  BY <1>1, PromiseAt
<1>3. PICK c, d : /\ c = Len(SP!Needs(Fetched)) /\ d = IF op = "local.set" THEN c ELSE 0
  OBVIOUS
<1>4. /\ c = 1 /\ Needs(Fetched) = SP!Needs(Fetched) /\ c <= Len(SP!Operands)
      /\ SP!Operands \in Seq(Values)
  BY <1>2, <1>3, SameNeeds, PromiseReady, Facing DEF Alike, SP!Needs
<1>5. d \in Nat /\ d <= Len(SP!Operands) /\ << >> \in Seq(Values)
  <2>1. Len(SP!Operands) \in Nat
    BY <1>4
  <2>. QED BY <1>3, <1>4, <2>1
<1>6. PICK t, cs, a, i, v :
        /\ t = Traded(opd, d, << >>) /\ cs = SP!Onward(Traded(SP!Operands, d, << >>))
        /\ a = FuncIndex(frames) /\ i = Fetched.idx + 1 /\ v = Popped(opd, 1)
  OBVIOUS
<1>7. Sim(prog, Advanced, t, cs, Left)
  BY <1>2, <1>5, <1>6, AdvancedSim
<1>8. v \in Values /\ SP!Popped(SP!Operands, 1) = v
  BY <1>2, <1>4, <1>6, SamePopped
<1>9. a \in 1..Len(Advanced) /\ SP!Activation = a /\ Advanced[a].locals = CurrentFunc.locals
  <2>1. a \in 1..Len(frames) /\ SP!Activation = a
    BY <1>2, <1>6, Seen
  <2>2. Len(Advanced) = Len(frames) /\ \A k \in 1..Len(frames) : Advanced[k].locals = frames[k].locals
    BY <1>2, AdvancedOK DEF SimInv, Active
  <2>. QED BY <1>6, <2>1, <2>2 DEF CurrentFunc
<1>10. i \in 1..Len(Advanced[a].locals)
  BY <1>2, <1>6, <1>9, VariablesHere
<1>11. Sim(prog, [Advanced EXCEPT ![a].locals[i] = v], t, [cs EXCEPT ![a].locals[i] = v], Left)
  BY <1>7, <1>8, <1>9, <1>10, SimLocal
<1>12. opd' = t
  <2>1. opd \in Seq(Entries) /\ c <= Len(opd) /\ Dropped(opd, c) = Traded(opd, c, << >>)
    BY <1>2, <1>3, StackHere
  <2>2. CASE op = "local.set"
    BY <1>2, <1>3, <1>4, <1>6, <2>1, <2>2 DEF LocalSet, Rest
  <2>3. CASE op = "local.tee"
    <3>1. opd' = opd /\ d = 0
      BY <1>2, <1>3, <2>3 DEF LocalSet
    <3>2. opd = Traded(opd, 0, << >>)
      BY <1>8, <1>4, <2>1, TradedForms
    <3>. QED BY <1>6, <3>1, <3>2
  <2>. QED BY <2>2, <2>3
<1>13. frames' = [Advanced EXCEPT ![a].locals[i] = v] /\ mode' = mode /\ outcome' = outcome /\ Keep
  BY <1>6 DEF LocalSet, Proceed
<1>14. PICK ds : ds = [cs EXCEPT ![a].locals[i] = v]
  OBVIOUS
<1>15. Running' /\ prog' = prog /\ globals' = globals
  BY <1>2, <1>13 DEF Running, Active, Keep
<1>16. Contexts' = ds /\ Left' = Left /\ Agrees'
  BY <1>11, <1>12, <1>13, <1>14, <1>15, Lands
<1>17. cs = SP!Onward(IF op = "local.set" THEN SP!Rest ELSE SP!Operands)
  <2>1. CASE op = "local.set"
    <3>1. SP!Rest = Dropped(SP!Operands, c)
      BY <1>2, <1>3, SameStack DEF SP!Rest
    <3>2. Dropped(SP!Operands, c) \in Seq(Values)
      BY <1>4, DroppedType
    <3>3. Traded(SP!Operands, c, << >>) = Dropped(SP!Operands, c)
      BY <3>2, ConcatEmptySeq DEF Traded
    <3>. QED BY <1>3, <1>6, <2>1, <3>1, <3>3
  <2>2. CASE op = "local.tee"
    <3>1. Dropped(SP!Operands, 0) = SP!Operands
      BY <1>4, DroppedNone
    <3>2. Traded(SP!Operands, 0, << >>) = SP!Operands
      BY <1>4, <3>1, ConcatEmptySeq DEF Traded
    <3>. QED BY <1>3, <1>6, <2>2, <3>2
  <2>. QED BY <2>1, <2>2
<1>18. SP!LocalSet
  <2>1. Contexts' = [cs EXCEPT ![SP!Activation].locals[Fetched.idx + 1] = SP!Popped(SP!Operands, 1)]
    BY <1>6, <1>8, <1>9, <1>14, <1>16
  <2>2. SP!At({"local.set", "local.tee"})
    BY <1>2 DEF SP!At
  <2>3. SP!Proceed /\ Left' = Left /\ globals' = globals
    BY <1>13, <1>15, <1>16 DEF SP!Proceed
  <2>. QED BY <1>2, <1>17, <2>1, <2>2, <2>3 DEF SP!LocalSet
<1>. QED BY <1>13, <1>15, <1>16, <1>18 DEF Follows, SP!Next

----------------------------------------------------------------------------
(* Contexts are entered *)

LEMMA PutTwice ==
  ASSUME NEW D, NEW s \in Seq(D), NEW a \in 1..Len(s), NEW x \in D, NEW y \in D
  PROVE  Put(Put(s, a, x), a, y) = Put(s, a, y)
<1>1. PICK t : t = Put(s, a, x)
  OBVIOUS
<1>2. t \in Seq(D) /\ Len(t) = Len(s) /\ \A k \in 1..Len(s) : t[k] = IF k = a THEN x ELSE s[k]
  BY <1>1, ExceptSeq DEF Put
<1>3. PICK u, v : u = Put(t, a, y) /\ v = Put(s, a, y)
  OBVIOUS
<1>4. u \in Seq(D) /\ Len(u) = Len(t) /\ \A k \in 1..Len(t) : u[k] = IF k = a THEN y ELSE t[k]
  <2>1. a \in 1..Len(t)
    BY <1>2
  <2>. QED BY <1>2, <1>3, <2>1, ExceptSeq DEF Put
<1>5. v \in Seq(D) /\ Len(v) = Len(s) /\ \A k \in 1..Len(s) : v[k] = IF k = a THEN y ELSE s[k]
  BY <1>3, ExceptSeq DEF Put
<1>6. \A k \in 1..Len(s) : u[k] = v[k]
  BY <1>2, <1>4, <1>5
<1>7. u = v
  BY <1>2, <1>4, <1>5, <1>6, SeqEqual
<1>. QED BY <1>1, <1>3, <1>7

LEMMA OnwardFacts ==
  ASSUME SimInv, Active, NEW n, n = Len(frames), NEW o \in Seq(Values)
  PROVE  /\ SP!Onward(o) \in Seq(ContextSet(prog)) /\ Len(SP!Onward(o)) = n
         /\ SP!Onward(o)[n].operands = o /\ Len(Advanced) = n
         /\ \A k \in 1..n : k # n => SP!Onward(o)[k] = Contexts[k] /\ Advanced[k] = frames[k]
         /\ \A x \in Seq(Values) : Put(SP!Onward(o), n, ContextRead(Advanced[n], x)) = SP!Onward(x)
         /\ Advanced[n] = Bump(Top) /\ Carries(Advanced[n]) = Carries(Top)
<1>1. /\ Sim(prog, frames, opd, Contexts, Left)
      /\ n \in Nat /\ n # 0 /\ n \in 1..n /\ Len(Contexts) = n
      /\ Top = frames[n] /\ Top \in FrameSet(prog)
      /\ SP!Depth = n /\ SP!Innermost = Contexts[n]
      /\ SP!Innermost = ContextRead(Top, SP!Operands) /\ SP!Operands \in Seq(Values)
  BY Facing
<1>2. frames \in Seq(FrameSet(prog)) /\ Contexts \in Seq(ContextSet(prog))
  BY <1>1, SimParts
<1>3. PICK b : b = Bump(Top)
  OBVIOUS
<1>4. b \in FrameSet(prog) /\ \A x : ContextRead(b, x) = OnwardOf(SP!Innermost, x)
  BY <1>1, <1>3, TopAdvanced
<1>5. \A x \in Seq(Values) : OnwardOf(SP!Innermost, x) \in ContextSet(prog)
  <2>1. ASSUME NEW x \in Seq(Values) PROVE ContextRead(b, x) \in ContextSet(prog)
    BY <1>4, ContextReadType
  <2>. QED BY <1>4, <2>1
<1>6. \A x : SP!Onward(x) = Put(Contexts, n, OnwardOf(SP!Innermost, x))
  BY <1>1 DEF SP!Onward, Put, OnwardOf
<1>7. Advanced = Put(frames, n, b)
  BY <1>1, <1>3 DEF Advanced, Put, Bump
<1>8. PICK c, d : c = OnwardOf(SP!Innermost, o) /\ d = Put(Contexts, n, c)
  OBVIOUS
<1>9. c \in ContextSet(prog) /\ c.operands = o
  <2>1. c = ContextRead(b, o)
    BY <1>4, <1>8
  <2>2. c \in ContextSet(prog)
    BY <1>5, <1>8
  <2>3. c.operands = o
    BY <2>1 DEF ContextRead
  <2>. QED BY <2>2, <2>3
<1>10. /\ d \in Seq(ContextSet(prog)) /\ Len(d) = n

       /\ \A k \in 1..n : d[k] = IF k = n THEN c ELSE Contexts[k]
  BY <1>1, <1>2, <1>8, <1>9, ExceptSeq DEF Put
<1>11. Len(Advanced) = n /\ \A k \in 1..n : Advanced[k] = IF k = n THEN b ELSE frames[k]
  BY <1>1, <1>2, <1>4, <1>7, ExceptSeq DEF Put
<1>12. SP!Onward(o) = d /\ Advanced[n] = b
  BY <1>1, <1>6, <1>8, <1>11
<1>13. ASSUME NEW x \in Seq(Values)
       PROVE  Put(SP!Onward(o), n, ContextRead(Advanced[n], x)) = SP!Onward(x)
  <2>1. PICK e : e = OnwardOf(SP!Innermost, x)
    OBVIOUS
  <2>2. e \in ContextSet(prog) /\ ContextRead(Advanced[n], x) = e
    BY <1>4, <1>5, <1>12, <2>1
  <2>3. n \in 1..Len(Contexts)
    BY <1>1
  <2>4. Put(Put(Contexts, n, c), n, e) = Put(Contexts, n, e)
    BY <1>2, <1>9, <2>2, <2>3, PutTwice
  <2>. QED BY <1>6, <1>8, <1>12, <2>1, <2>2, <2>4
<1>14. Carries(b) = Carries(Top)
  BY <1>1, <1>3 DEF Bump, Carries, FrameSet
<1>. QED BY <1>1, <1>3, <1>9, <1>10, <1>11, <1>12, <1>13, <1>14

\* The middle of a step that only pops.
LEMMA PoppedSim ==
  ASSUME SimInv, Active, NEW d \in Nat, d <= Len(SP!Operands)
  PROVE  /\ Sim(prog, Advanced, Dropped(opd, d), SP!Onward(Dropped(SP!Operands, d)), Left)
         /\ Dropped(SP!Operands, d) \in Seq(Values) /\ Dropped(opd, d) \in Seq(Entries)
<1>1. PICK vs : vs = << >>
  OBVIOUS
<1>2. vs \in Seq(Values) /\ opd \in Seq(Entries)
  BY <1>1 DEF SimInv, IInv, StacksOK
<1>3. /\ Sim(prog, frames, opd, Contexts, Left) /\ SP!Operands \in Seq(Values)
      /\ Len(frames) # 0 /\ SP!Operands = Contexts[Len(frames)].operands
  BY Facing
<1>4. d <= Len(opd)
  <2>1. \A c \in Nat : c <= Len(SP!Operands) => c <= Len(opd)
    BY <1>3, SimTop
  <2>. QED BY <2>1
<1>5. Dropped(opd, d) \in Seq(Entries) /\ Dropped(SP!Operands, d) \in Seq(Values)
  BY <1>2, <1>3, <1>4, DroppedType
<1>6. Traded(opd, d, vs) = Dropped(opd, d) /\ Traded(SP!Operands, d, vs) = Dropped(SP!Operands, d)
  BY <1>1, <1>5, ConcatEmptySeq DEF Traded
<1>7. Sim(prog, Advanced, Traded(opd, d, vs), SP!Onward(Traded(SP!Operands, d, vs)), Left)
  BY <1>2, AdvancedSim
<1>. QED BY <1>5, <1>6, <1>7

LEMMA BlockRead ==
  ASSUME emptyRead = {}, NEW body \in Blocks(prog), NEW rt \in ResultType, NEW kind \in {"control", "loop"}
  PROVE  /\ BlockFrame(body, rt, kind) \in FrameSet(prog)
         /\ MarkerOf(BlockFrame(body, rt, kind).context) = "label"
         /\ ContextRead(BlockFrame(body, rt, kind), << >>) = SP!BlockContext(body, kind, rt)
<1>1. PICK g : g = BlockFrame(body, rt, kind)
  OBVIOUS
<1>2. g \in FrameSet(prog)
  BY <1>1, BlockFrameType, FrameIsFrameSet
<1>3. /\ g.instrs = body /\ g.ip = 0 /\ g.context = kind /\ g.locals = << >>
      /\ g.arity = (IF rt = << >> THEN 0 ELSE 1)
      /\ g.result_type = (IF rt = << >> THEN "unknown" ELSE rt[1])
  BY <1>1 DEF BlockFrame
<1>4. Carries(g) = rt
  BY <1>3 DEF Carries, ResultType
<1>5. MarkerOf(g.context) = "label"
  BY <1>3 DEF MarkerOf
<1>6. ContextRead(g, << >>) = SP!BlockContext(body, kind, rt)
  BY <1>3, <1>4 DEF ContextRead, SP!BlockContext
<1>. QED BY <1>1, <1>2, <1>5, <1>6

LEMMA OpenFollows ==
  ASSUME SimInv, Fetching, Fetched.op \in {"block", "loop", "if"},
         NEW body \in Blocks(prog), NEW kind \in {"control", "loop"}, Open(body, kind, Rest)
  PROVE  SP!Open(body, kind) /\ Agrees' /\ Running' /\ mode' = mode
<1>1. /\ Active /\ Needs(Fetched) = SP!Needs(Fetched) /\ SP!Fetched = Fetched
  BY PromiseReady, SameNeeds, Seen DEF Alike
<1>2. PICK c, o, g, e : /\ c = Len(SP!Needs(Fetched)) /\ o = Dropped(SP!Operands, c)
                        /\ g = BlockFrame(body, Fetched.rt, kind) /\ e = LabelMarker
  OBVIOUS
<1>3. c \in Nat /\ c <= Len(SP!Operands)
  BY <1>2, PromiseReady
<1>4. Sim(prog, Advanced, Dropped(opd, c), SP!Onward(o), Left)
  BY <1>1, <1>2, <1>3, PoppedSim
<1>5. Fetched.rt \in ResultType
  BY HandledHere DEF Instr
<1>6. /\ g \in FrameSet(prog) /\ MarkerOf(g.context) = "label"
      /\ ContextRead(g, << >>) = SP!BlockContext(body, kind, Fetched.rt)
  BY <1>2, <1>5, BlockRead DEF SimInv
<1>7. e \in {LabelMarker, FuncMarker} /\ e.marker = MarkerOf(g.context)
  BY <1>2, <1>6 DEF LabelMarker
<1>8. PICK t, cs : t = Dropped(opd, c) /\ cs = SP!Onward(o)
  OBVIOUS
<1>9. Sim(prog, Append(Advanced, g), Append(t, e), Append(cs, ContextRead(g, << >>)), Left)
  BY <1>4, <1>6, <1>7, <1>8, SimMarked
<1>10. /\ frames' = Append(Advanced, g) /\ opd' = Append(t, e)
       /\ prog' = prog /\ globals' = globals /\ mode' = mode /\ outcome' = outcome
  BY <1>1, <1>2, <1>8 DEF Open, Rest, Keep, Proceed
<1>11. PICK ds : ds = Append(cs, ContextRead(g, << >>))
  OBVIOUS
<1>12. Running'
  BY <1>1, <1>10 DEF Running, Active
<1>13. Contexts' = ds /\ Left' = Left /\ Agrees'
  BY <1>9, <1>10, <1>11, <1>12, Lands
<1>14. SP!Rest = o
  BY <1>1, <1>2, SameStack DEF SP!Rest
<1>15. SP!Open(body, kind)
  BY <1>1, <1>6, <1>8, <1>10, <1>11, <1>13, <1>14 DEF SP!Open, SP!Proceed
<1>. QED BY <1>10, <1>12, <1>13, <1>15

LEMMA BlocksFollow ==
  ASSUME SimInv, EnterBlock \/ EnterLoop \/ EnterThen \/ EnterElse
  PROVE  Follows
<1>1. PICK op \in {"block", "loop", "if"} : At({op})
  BY DEF EnterBlock, EnterLoop, EnterThen, EnterElse
<1>2. /\ SP!At({op}) /\ SP!Fetched = Fetched /\ Fetching /\ Active /\ Fetched.op = op
  BY <1>1, PromiseAt
<1>3. Fetched \in Instr(Blocks(prog)) /\ (op = "if" => Fetched.else # NoBlock)
  BY <1>2, HandledHere
<1>4. CASE op = "block"
  <2>1. Open(Fetched.body, "control", Rest) /\ Fetched.body \in Blocks(prog)
    BY <1>2, <1>3, <1>4 DEF EnterBlock, EnterLoop, EnterThen, EnterElse, At, Instr
  <2>2. SP!Open(Fetched.body, "control") /\ Agrees' /\ Running' /\ mode' = mode
    BY <1>2, <1>4, <2>1, OpenFollows
  <2>3. SP!EnterBlock
    BY <1>2, <1>4, <2>2 DEF SP!EnterBlock
  <2>. QED BY <2>2, <2>3 DEF Follows, SP!Next
<1>5. CASE op = "loop"
  <2>1. Open(Fetched.body, "loop", Rest) /\ Fetched.body \in Blocks(prog)
    BY <1>2, <1>3, <1>5 DEF EnterBlock, EnterLoop, EnterThen, EnterElse, At, Instr
  <2>2. SP!Open(Fetched.body, "loop") /\ Agrees' /\ Running' /\ mode' = mode
    BY <1>2, <1>5, <2>1, OpenFollows
  <2>3. SP!EnterLoop
    BY <1>2, <1>5, <2>2 DEF SP!EnterLoop
  <2>. QED BY <2>2, <2>3 DEF Follows, SP!Next
<1>6. CASE op = "if"
  <2>1. SP!Popped(SP!Operands, 1) = Popped(opd, 1)
    <3>1. Len(SP!Needs(Fetched)) = 1
      BY <1>2, <1>6 DEF SP!Needs
    <3>2. 1 <= Len(SP!Operands)
      BY <1>2, <3>1, PromiseReady
    <3>. QED BY <1>2, <3>2, SamePopped
  <2>2. CASE Popped(opd, 1).val # 0
    <3>1. Open(Fetched.then, "control", Rest) /\ Fetched.then \in Blocks(prog)
      BY <1>2, <1>3, <1>6, <2>2 DEF EnterBlock, EnterLoop, EnterThen, EnterElse, At, Instr
    <3>2. SP!Open(Fetched.then, "control") /\ Agrees' /\ Running' /\ mode' = mode
      BY <1>2, <1>6, <3>1, OpenFollows
    <3>3. SP!EnterThen
      BY <1>2, <1>6, <2>1, <2>2, <3>2 DEF SP!EnterThen
    <3>. QED BY <3>2, <3>3 DEF Follows, SP!Next
  <2>3. CASE Popped(opd, 1).val = 0
    <3>1. Open(Fetched.else, "control", Rest) /\ Fetched.else \in Blocks(prog)
      BY <1>2, <1>3, <1>6, <2>3 DEF EnterBlock, EnterLoop, EnterThen, EnterElse, At, Instr
    <3>2. SP!Open(Fetched.else, "control") /\ Agrees' /\ Running' /\ mode' = mode
      BY <1>2, <1>6, <3>1, OpenFollows
    <3>3. SP!EnterElse
      BY <1>2, <1>3, <1>6, <2>1, <2>3, <3>2 DEF SP!EnterElse
    <3>. QED BY <3>2, <3>3 DEF Follows, SP!Next
  <2>. QED BY <2>2, <2>3
<1>. QED BY <1>4, <1>5, <1>6

----------------------------------------------------------------------------
(* Calls *)

\* What is left of operands whose last one is popped first.
LEMMA HoldsBelow ==
  ASSUME NEW s \in Seq(Values), NEW ts \in Seq(AnyType), NEW t, Holds(s, Append(ts, t))
  PROVE  1 <= Len(s) /\ Holds(Dropped(s, 1), ts)
<1>1. PICK us, n, m : us = Append(ts, t) /\ n = Len(ts) /\ m = Len(s)
  OBVIOUS
<1>2. n \in Nat /\ m \in Nat /\ Len(us) = n + 1 /\ \A k \in 1..n : us[k] = ts[k]
  <2>1. ts \in Seq(AnyType \cup {t}) /\ t \in AnyType \cup {t}
    OBVIOUS
  <2>. QED BY <1>1, <2>1, AppendProperties
<1>3. m >= n + 1 /\ \A k \in 1..n + 1 : ~IsMarker(s[m - (n + 1) + k]) /\ s[m - (n + 1) + k].valtype = us[k]
  BY <1>1, <1>2 DEF Holds
<1>4. PICK r : r = Dropped(s, 1)
  OBVIOUS
<1>5. Len(r) = m - 1 /\ \A k \in 1..m - 1 : r[k] = s[k]
  <2>1. m - (n + 1) >= 0 /\ 1 \in Nat /\ 1 <= m
    BY <1>2, <1>3
  <2>. QED BY <1>1, <1>4, <2>1, DroppedType
<1>6. ASSUME NEW k \in 1..n
      PROVE  ~IsMarker(r[Len(r) - n + k]) /\ r[Len(r) - n + k].valtype = ts[k]
  <2>1. Len(r) - n + k = m - (n + 1) + k /\ Len(r) - n + k \in 1..m - 1 /\ k \in 1..n + 1
    BY <1>2, <1>3, <1>5
  <2>. QED BY <1>2, <1>3, <1>5, <2>1
<1>7. Len(r) >= n
  BY <1>2, <1>3, <1>5
<1>8. Holds(r, ts)
  BY <1>1, <1>6, <1>7 DEF Holds
<1>. QED BY <1>1, <1>2, <1>3, <1>4, <1>8

\* The operands in the middle of a step, d of them popped.
LEMMA MiddleTop ==
  ASSUME SimInv, Active, NEW d \in Nat, d <= Len(SP!Operands),
         NEW s, s = Dropped(opd, d), NEW o, o = Dropped(SP!Operands, d)
  PROVE  /\ Sim(prog, Advanced, s, SP!Onward(o), Left)
         /\ o \in Seq(Values) /\ Len(o) \in Nat
         /\ \A c \in Nat : c <= Len(o) => Kept(s, c) = Kept(o, c) /\ Kept(s, c) \in Seq(Values)
         /\ \A ts \in Seq(AnyType) : Holds(o, ts) =>
              Holds(s, ts) /\ Len(ts) \in Nat /\ Len(ts) <= Len(o)
<1>1. PICK n, cs : n = Len(frames) /\ cs = SP!Onward(o)
  OBVIOUS
<1>2. Sim(prog, Advanced, s, cs, Left) /\ o \in Seq(Values)
  BY <1>1, PoppedSim
<1>3. n # 0
  BY <1>1, Facing
<1>4. cs[n].operands = o /\ Len(Advanced) = n
  BY <1>1, <1>2, OnwardFacts
<1>5. n = Len(Advanced) /\ o = cs[n].operands
  BY <1>4
<1>6. Len(o) \in Nat /\ \A c \in Nat : c <= Len(o) => Kept(s, c) = Kept(o, c) /\ Kept(s, c) \in Seq(Values)
  BY <1>2, <1>3, <1>5, SimTop
<1>7. \A ts \in Seq(AnyType) : Holds(o, ts) => Holds(s, ts) /\ Len(ts) \in Nat /\ Len(ts) <= Len(o)
  BY <1>2, <1>3, <1>5, SimTop
<1>. QED BY <1>1, <1>2, <1>6, <1>7

\* They are popped, and an activation is pushed.
LEMMA EnterSim ==
  ASSUME SimInv, Active, NEW d \in Nat, d <= Len(SP!Operands),
         NEW s, s = Dropped(opd, d), NEW o, o = Dropped(SP!Operands, d),
         NEW c \in Nat, c <= Len(o), NEW g \in FrameSet(prog), g.context = "function"
  PROVE  Sim(prog, Append(Advanced, g), Append(Dropped(s, c), FuncMarker),
             Append(SP!Onward(Dropped(o, c)), ContextRead(g, << >>)), Left)
<1>1. PICK n, cs, vs : n = Len(frames) /\ cs = SP!Onward(o) /\ vs = << >>
  OBVIOUS
<1>2. Sim(prog, Advanced, s, cs, Left) /\ o \in Seq(Values)
  BY <1>1, MiddleTop
<1>3. n # 0 /\ n \in 1..n
  BY <1>1, Facing
<1>4. /\ cs[n].operands = o /\ Len(Advanced) = n
      /\ \A x \in Seq(Values) : Put(cs, n, ContextRead(Advanced[n], x)) = SP!Onward(x)
  BY <1>1, <1>2, OnwardFacts
<1>5. PICK a, x : a = Advanced[n] /\ x = Dropped(o, c)
  OBVIOUS
<1>6. vs \in Seq(Values) /\ x \in Seq(Values)
  BY <1>1, <1>2, <1>5, DroppedType
<1>7. /\ a \in FrameSet(prog) /\ s \in Seq(Entries) /\ Advanced \in Seq(FrameSet(prog))
  BY <1>2, <1>3, <1>4, <1>5, SimParts
<1>8. n = Len(Advanced) /\ c <= Len(cs[n].operands) /\ a.context = Advanced[n].context
  BY <1>4, <1>5
<1>9. Sim(prog, Put(Advanced, n, a), Traded(s, c, vs),
          Put(cs, n, ContextRead(a, Traded(cs[n].operands, c, vs))), Left)
  BY <1>2, <1>3, <1>6, <1>7, <1>8, SimTraded
<1>10. Put(Advanced, n, a) = Advanced
  BY <1>3, <1>4, <1>5, <1>7, PutSame
<1>11. c <= Len(s)
  <2>1. c <= Len(cs[n].operands) /\ \A k \in Nat : k <= Len(cs[n].operands) => k <= Len(s)
    BY <1>2, <1>3, <1>8, SimTop
  <2>. QED BY <2>1
<1>12. Traded(s, c, vs) = Dropped(s, c) /\ Traded(o, c, vs) = x
  <2>1. Dropped(s, c) \in Seq(Entries)
    BY <1>7, <1>11, DroppedType
  <2>. QED BY <1>1, <1>5, <1>6, <2>1, ConcatEmptySeq DEF Traded
<1>13. PICK t, ds, e : t = Dropped(s, c) /\ ds = SP!Onward(x) /\ e = FuncMarker
  OBVIOUS
<1>14. Sim(prog, Advanced, t, ds, Left)
  BY <1>4, <1>5, <1>6, <1>9, <1>10, <1>12, <1>13
<1>15. e \in {LabelMarker, FuncMarker} /\ e.marker = MarkerOf(g.context)
  BY <1>13 DEF FuncMarker, MarkerOf
<1>16. Sim(prog, Append(Advanced, g), Append(t, e), Append(ds, ContextRead(g, << >>)), Left)
  BY <1>14, <1>15, SimMarked
<1>. QED BY <1>5, <1>13, <1>16

\* The frame of an activation.
LEMMA FuncRead ==
  ASSUME IInv, NEW k \in 1..Len(prog.funcs), NEW f, f = prog.funcs[k], NEW args \in Seq(Values)
  PROVE  /\ FuncFrame(f, args) \in FrameSet(prog) /\ FuncFrame(f, args).context = "function"
         /\ ContextRead(FuncFrame(f, args), << >>) = SP!FuncContext(f, args)
         /\ f.t1 \in Seq(AnyType) /\ f \in Func(Blocks(prog)) /\ Len(f.t2) <= 1
<1>1. prog.funcs \in Seq(Func(Blocks(prog))) /\ FuncTyped(prog, k)
  <2>1. IsProgram(prog) /\ Valid(prog)
    BY CodeAssumption, TypingAssumption DEF IInv
  <2>. QED BY <2>1 DEF IsProgram, Valid
<1>2. f \in Func(Blocks(prog))
  BY <1>1, ElementOfSeq
<1>3. f.t1 \in Seq(AnyType) /\ f.t2 \in Seq(ValType) /\ Len(f.t2) <= 1
  BY <1>1, <1>2 DEF Func, FuncTyped, ValueTypes, AnyType
<1>4. PICK g : g = FuncFrame(f, args)
  OBVIOUS
<1>5. g \in FrameSet(prog) /\ g.context = "function"
  BY <1>2, <1>4, FuncFrameType, FrameIsFrameSet
<1>6. Carries(g) = f.t2
  <2>1. /\ g.arity = Len(f.t2)
        /\ g.result_type = (IF f.t2 = << >> THEN "unknown" ELSE f.t2[1])
    BY <1>4 DEF FuncFrame
  <2>2. CASE f.t2 = << >>
    <3>1. g.arity = 0
      BY <2>1, <2>2
    <3>. QED BY <2>2, <3>1 DEF Carries
  <2>3. CASE f.t2 # << >>
    <3>1. Len(f.t2) = 1
      <4>1. PICK n : n = Len(f.t2)
        OBVIOUS
      <4>2. n \in Nat /\ n # 0 /\ n <= 1
        BY <1>3, <2>3, <4>1, EmptySeq
      <4>3. n = 1
        BY <4>2
      <4>. QED BY <4>1, <4>3

    <3>2. Carries(g) = <<f.t2[1]>>
      BY <2>1, <2>3, <3>1 DEF Carries
    <3>3. f.t2 = <<f.t2[1]>>
      BY <1>3, <3>1
    <3>. QED BY <3>2, <3>3
  <2>. QED BY <2>2, <2>3
<1>7. ContextRead(g, << >>) = SP!FuncContext(f, args)
  <2>1. /\ g.instrs = f.body /\ g.ip = 0
        /\ g.locals = args \o [j \in 1..Len(f.locals) |-> Value(f.locals[j], 0)]
    BY <1>4 DEF FuncFrame
  <2>2. \A t, v : SP!Value(t, v) = Value(t, v)
    BY SameStack
  <2>. QED BY <1>5, <1>6, <2>1, <2>2 DEF ContextRead, SP!FuncContext
<1>. QED BY <1>2, <1>3, <1>4, <1>5, <1>7

LEMMA EnterFollows ==
  ASSUME SimInv, Fetching, NEW d \in Nat, d <= Len(SP!Operands),
         NEW s, s = Dropped(opd, d), NEW o, o = Dropped(SP!Operands, d),
         NEW k \in 1..Len(prog.funcs), NEW f, f = prog.funcs[k], Holds(o, f.t1), Enter(f, s)
  PROVE  SP!Enter(f, o) /\ Agrees' /\ Running' /\ mode' = mode
<1>1. Active
  BY PromiseReady
<1>2. PICK c, args, g, x : /\ c = Len(f.t1) /\ args = Kept(s, c) /\ g = FuncFrame(f, args)
                           /\ x = Dropped(o, c)
  OBVIOUS
<1>3. f.t1 \in Seq(AnyType)
  BY FuncRead, EmptySeq DEF SimInv
<1>4. /\ Holds(s, f.t1) /\ c \in Nat /\ c <= Len(o)
      /\ \A j \in Nat : j <= Len(o) => Kept(s, j) = Kept(o, j) /\ Kept(s, j) \in Seq(Values)
  BY <1>1, <1>2, <1>3, MiddleTop
<1>5. args = Kept(o, c) /\ args \in Seq(Values)
  BY <1>2, <1>4
<1>6. /\ g \in FrameSet(prog) /\ g.context = "function"
      /\ ContextRead(g, << >>) = SP!FuncContext(f, args)
  BY <1>2, <1>5, FuncRead DEF SimInv
<1>7. Sim(prog, Append(Advanced, g), Append(Dropped(s, c), FuncMarker),
          Append(SP!Onward(x), ContextRead(g, << >>)), Left)
  BY <1>1, <1>2, <1>4, <1>6, EnterSim
<1>8. /\ frames' = Append(Advanced, g) /\ opd' = Append(Dropped(s, c), FuncMarker)
      /\ prog' = prog /\ globals' = globals /\ mode' = mode /\ outcome' = outcome
  BY <1>2, <1>4 DEF Enter, Keep, Proceed
<1>9. PICK ds : ds = Append(SP!Onward(x), ContextRead(g, << >>))
  OBVIOUS
<1>10. Running'
  BY <1>1, <1>8 DEF Running, Active
<1>11. Contexts' = ds /\ Left' = Left /\ Agrees'
  <2>1. Sim(prog, frames', opd', ds, Left)
    BY <1>7, <1>8, <1>9
  <2>. QED BY <1>8, <1>10, <2>1, Lands
<1>12. Contexts' = Append(SP!Onward(SP!Dropped(o, Len(f.t1))), SP!FuncContext(f, SP!Kept(o, Len(f.t1))))
  BY <1>2, <1>5, <1>6, <1>9, <1>11, SameStack
<1>13. SP!Enter(f, o)
  BY <1>8, <1>11, <1>12 DEF SP!Enter, SP!Proceed
<1>. QED BY <1>8, <1>10, <1>11, <1>13

LEMMA CallFollows ==
  ASSUME SimInv, Call
  PROVE  Follows
<1>1. /\ SP!At({"call"}) /\ SP!Fetched = Fetched /\ Fetching /\ Active /\ Fetched.op = "call"
  BY PromiseAt DEF Call
<1>2. PICK k, f : k = Fetched.func + 1 /\ f = prog.funcs[k]
  OBVIOUS
<1>3. k \in 1..Len(prog.funcs) /\ SP!Needs(Fetched) = f.t1
  <2>1. SP!IInv /\ SP!Fetching /\ SP!Fetched.op = "call"
    BY <1>1, PromiseReady DEF SimInv
  <2>. QED BY <1>1, <1>2, <2>1, ProgramsValid, CodeAssumption, SP!CallTurned
<1>4. PICK s, o, d : s = Dropped(opd, d) /\ o = Dropped(SP!Operands, d) /\ d = 0
  OBVIOUS
<1>5. d \in Nat /\ d <= Len(SP!Operands) /\ s = opd /\ o = SP!Operands
  <2>1. SP!Operands \in Seq(Values) /\ opd \in Seq(Entries)
    BY <1>1, Facing, StackHere
  <2>2. Len(SP!Operands) \in Nat
    BY <2>1
  <2>. QED BY <1>4, <2>1, <2>2, DroppedNone
<1>6. Holds(o, f.t1)
  BY <1>1, <1>3, <1>5, PromiseReady
<1>7. Enter(f, s)
  BY <1>2, <1>5 DEF Call
<1>8. SP!Enter(f, o) /\ Agrees' /\ Running' /\ mode' = mode
  BY <1>1, <1>2, <1>3, <1>4, <1>5, <1>6, <1>7, EnterFollows
<1>9. SP!Call
  BY <1>1, <1>2, <1>5, <1>8 DEF SP!Call
<1>. QED BY <1>8, <1>9 DEF Follows, SP!Next

----------------------------------------------------------------------------
(* Traps *)

LEMMA TrapFollows ==
  ASSUME SimInv, Fetching, NEW code, code \in SP!TrapsOf(Fetched),
         Raise(code), prog' = prog, globals' = globals
  PROVE  Follows
<1>1. /\ Active /\ SP!Fetching /\ SP!Fetched = Fetched /\ SP!Ready(Fetched)
  <2>1. Active /\ SP!Fetching /\ SP!Ready(Fetched)
    BY PromiseReady
  <2>. QED BY <2>1, Seen
<1>2. ~Running' /\ (IF mode = "run" THEN mode' = "idle" /\ outcome' = code
                    ELSE mode' = "dead" /\ outcome' = "unhandled")
  BY DEF Raise, Running
<1>3. Contexts' = << >> /\ Left' = << >> /\ Agrees'
  BY <1>2, MappingReadNext DEF Agrees
<1>4. SP!Trap
  BY <1>1, <1>2, <1>3 DEF SP!Trap
<1>5. code \notin {"none", "returned"}
  <2>1. code \in {"REACHED_OP_UNREACHABLE", "MEMORY_ACCESS_OUT_OF_BOUNDS", "INVALID_INSTRUCTION",
                  "VECTOR_EXCEPTION", "UNINITIALIZED"}
    BY DEF SP!TrapsOf
  <2>. QED BY <2>1
<1>. QED BY <1>2, <1>3, <1>4, <1>5 DEF Follows, SP!Next

LEMMA TrapsFollow ==
  ASSUME SimInv, MemoryTrap \/ MemoryGrow \/ Unreachable
  PROVE  Follows
<1>1. CASE MemoryTrap
  <2>1. At({"load", "store"}) /\ Raise("MEMORY_ACCESS_OUT_OF_BOUNDS") /\ Keep
    BY <1>1 DEF MemoryTrap, Trap
  <2>2. Fetching /\ "MEMORY_ACCESS_OUT_OF_BOUNDS" \in SP!TrapsOf(Fetched)
    BY <2>1 DEF At, SP!TrapsOf
  <2>. QED BY <2>1, <2>2, TrapFollows DEF Keep
<1>2. CASE MemoryGrow
  <2>1. At({"memory.grow"}) /\ Raise("INVALID_INSTRUCTION") /\ Keep
    BY <1>2 DEF MemoryGrow, Trap
  <2>2. Fetching /\ "INVALID_INSTRUCTION" \in SP!TrapsOf(Fetched)
    BY <2>1 DEF At, SP!TrapsOf
  <2>. QED BY <2>1, <2>2, TrapFollows DEF Keep
<1>3. CASE Unreachable
  <2>1. At({"unreachable"}) /\ Raise("REACHED_OP_UNREACHABLE") /\ Keep
    BY <1>3 DEF Unreachable, Trap
  <2>2. Fetching /\ "REACHED_OP_UNREACHABLE" \in SP!TrapsOf(Fetched)
    BY <2>1 DEF At, SP!TrapsOf
  <2>. QED BY <2>1, <2>2, TrapFollows DEF Keep
<1>. QED BY <1>1, <1>2, <1>3

LEMMA CallIndirectFollows ==
  ASSUME SimInv, CallIndirect
  PROVE  Follows
<1>1. /\ SP!At({"call_indirect"}) /\ SP!Fetched = Fetched /\ Fetching /\ Active
      /\ Fetched.op = "call_indirect"
  BY PromiseAt DEF CallIndirect
<1>2. Fetched.t1 \in Seq(AnyType)
  <2>1. Fetched \in Instr(Blocks(prog))
    BY <1>1, HandledHere
  <2>. QED BY <1>1, <2>1 DEF Instr, ValueTypes, AnyType
<1>3. Holds(SP!Operands, Append(Fetched.t1, "i32")) /\ SP!Operands \in Seq(Values)
  <2>1. SP!Needs(Fetched) = Append(Fetched.t1, "i32")
    BY <1>1 DEF SP!Needs
  <2>. QED BY <1>1, <2>1, PromiseReady, Facing
<1>4. PICK o, s, d : d = 1 /\ o = Dropped(SP!Operands, d) /\ s = Dropped(opd, d)
  OBVIOUS
<1>5. d \in Nat /\ d # 0 /\ d <= Len(SP!Operands) /\ Holds(o, Fetched.t1)
  BY <1>2, <1>3, <1>4, HoldsBelow
<1>6. Popped(opd, 1) \in Values /\ SP!Popped(SP!Operands, 1) = Popped(opd, 1)
  BY <1>1, <1>4, <1>5, SamePopped
<1>7. PICK v : v = Popped(opd, 1).val
  OBVIOUS
<1>8. v \in Nat
  BY <1>6, <1>7, CodeAssumption DEF Values
<1>9. Needs(Fetched) = <<"i32">> /\ Rest = s
  <2>1. Needs(Fetched) = <<"i32">>
    BY <1>1 DEF Needs
  <2>. QED BY <1>4, <2>1 DEF Rest
<1>10. /\ IF v >= Len(prog.table) THEN Trap("VECTOR_EXCEPTION")
          ELSE IF ~prog.table[v + 1].initialized THEN Trap("UNINITIALIZED")
          ELSE IF prog.table[v + 1].func >= Len(prog.funcs) THEN Trap("VECTOR_EXCEPTION")
          ELSE Enter(prog.funcs[prog.table[v + 1].func + 1], s)
  BY <1>7, <1>9 DEF CallIndirect
<1>11. /\ prog.table \in Seq([initialized : BOOLEAN, func : Nat]) /\ Len(prog.funcs) \in Nat
       /\ \A n \in 1..Len(prog.table) : prog.table[n].initialized => prog.table[n].func < Len(prog.funcs)
  <2>1. IsProgram(prog) /\ Valid(prog)
    BY CodeAssumption, TypingAssumption DEF SimInv, IInv
  <2>. QED BY <2>1 DEF IsProgram, Valid
<1>12. CASE ~SP!Callable(v)
  <2>1. PICK code \in {"VECTOR_EXCEPTION", "UNINITIALIZED"} : Trap(code)
    <3>1. CASE v >= Len(prog.table)
      BY <1>10, <3>1
    <3>2. CASE ~(v >= Len(prog.table))
      <4>1. v + 1 \in 1..Len(prog.table) /\ v < Len(prog.table)
        BY <1>8, <1>11, <3>2
      <4>2. CASE prog.table[v + 1].initialized
        <5>1. SP!Callable(v)
          BY <1>1, <4>1, <4>2, HandledHere DEF SP!Callable
        <5>. QED BY <1>12, <5>1
      <4>3. CASE ~prog.table[v + 1].initialized
        BY <1>10, <3>2, <4>3
      <4>. QED BY <4>2, <4>3
    <3>. QED BY <3>1, <3>2
  <2>2. code \in SP!TrapsOf(Fetched)
    BY <1>1, <1>6, <1>7, <1>12, <2>1 DEF SP!TrapsOf
  <2>. QED BY <1>1, <2>1, <2>2, TrapFollows DEF Trap, Keep
<1>13. CASE SP!Callable(v)
  <2>1. v + 1 \in 1..Len(prog.table) /\ ~(v >= Len(prog.table)) /\ prog.table[v + 1].initialized
    BY <1>8, <1>11, <1>13 DEF SP!Callable
  <2>2. PICK m, n : m = prog.table[v + 1].func /\ n = Len(prog.funcs)
    OBVIOUS
  <2>3. m \in Nat /\ n \in Nat /\ m < n
    <3>1. prog.table[v + 1] \in [initialized : BOOLEAN, func : Nat]
      BY <1>11, <2>1, ElementOfSeq
    <3>. QED BY <1>11, <2>1, <2>2, <3>1
  <2>4. m + 1 \in 1..n /\ ~(m >= n)
    BY <2>3
  <2>5. PICK k, f : k = m + 1 /\ f = prog.funcs[k]
    OBVIOUS
  <2>6. Enter(f, s) /\ k \in 1..Len(prog.funcs)
    BY <1>10, <2>1, <2>2, <2>4, <2>5
  <2>7. f.t1 = Fetched.t1
    BY <1>1, <1>13, <2>2, <2>5 DEF SP!Callable
  <2>8. SP!Enter(f, o) /\ Agrees' /\ Running' /\ mode' = mode
    BY <1>1, <1>4, <1>5, <2>5, <2>6, <2>7, EnterFollows
  <2>9. SP!CallIndirect
    <3>1. o = SP!Dropped(SP!Operands, 1)
      BY <1>4, SameStack
    <3>2. SP!Popped(SP!Operands, 1).val = v
      BY <1>6, <1>7
    <3>. QED BY <1>1, <1>13, <2>2, <2>5, <2>8, <3>1, <3>2 DEF SP!CallIndirect
  <2>. QED BY <2>8, <2>9 DEF Follows, SP!Next
<1>. QED BY <1>12, <1>13

----------------------------------------------------------------------------
(* Contexts are left *)

LEMMA LastPut ==
  ASSUME NEW D, NEW s \in Seq(D), NEW a \in 1..Len(s), NEW e
  PROVE  /\ Put(Upto(s, a), a, e) = Append(Upto(s, a - 1), e)
         /\ Upto(s, a)[a] = s[a] /\ Upto(s, a) \in Seq(D) /\ Len(Upto(s, a)) = a
<1>1. PICK T, t, u : T = D \cup {e} /\ t = Upto(s, a) /\ u = Upto(s, a - 1)
  OBVIOUS
<1>2. s \in Seq(T) /\ a \in 0..Len(s) /\ a - 1 \in 0..Len(s) /\ a \in Nat /\ a \in 1..a
  BY <1>1
<1>3. /\ t \in Seq(T) /\ t \in Seq(D) /\ Len(t) = a /\ \A k \in 1..a : t[k] = s[k]
      /\ u \in Seq(T) /\ Len(u) = a - 1 /\ \A k \in 1..a - 1 : u[k] = s[k]
  BY <1>1, <1>2, SubSeqProperties DEF Upto
<1>4. PICK v, w : v = Put(t, a, e) /\ w = Append(u, e)
  OBVIOUS
<1>5. v \in Seq(T) /\ Len(v) = a /\ \A k \in 1..a : v[k] = IF k = a THEN e ELSE t[k]
  <2>1. a \in 1..Len(t) /\ e \in T
    BY <1>1, <1>2, <1>3
  <2>. QED BY <1>3, <1>4, <2>1, ExceptSeq DEF Put
<1>6. w \in Seq(T) /\ Len(w) = a /\ w[a] = e /\ \A k \in 1..a - 1 : w[k] = u[k]
  <2>1. e \in T
    BY <1>1
  <2>2. /\ w \in Seq(T) /\ Len(w) = Len(u) + 1 /\ w[Len(u) + 1] = e
        /\ \A k \in 1..Len(u) : w[k] = u[k]
    BY <1>3, <1>4, <2>1, AppendProperties
  <2>3. Len(u) + 1 = a
    BY <1>2, <1>3
  <2>. QED BY <1>3, <2>2, <2>3
<1>7. \A k \in 1..a : v[k] = w[k]
  BY <1>2, <1>3, <1>5, <1>6
<1>8. v = w
  BY <1>5, <1>6, <1>7, SeqEqual
<1>. QED BY <1>1, <1>2, <1>3, <1>4, <1>8

\* Below the innermost, the contexts are as before.
LEMMA UptoSame ==
  ASSUME NEW D, NEW s \in Seq(D), NEW t \in Seq(D), NEW n, Len(s) = n, Len(t) = n,
         \A k \in 1..n : k # n => s[k] = t[k], NEW m \in 0..n - 1
  PROVE  Upto(s, m) = Upto(t, m)
<1>1. n \in Nat
  OBVIOUS
<1>2. m \in 0..Len(s) /\ m \in 0..Len(t) /\ m \in Nat
  BY <1>1
<1>3. PICK u, v : u = Upto(s, m) /\ v = Upto(t, m)
  OBVIOUS
<1>4. u \in Seq(D) /\ Len(u) = m /\ \A k \in 1..m : u[k] = s[k]
  BY <1>2, <1>3, SubSeqProperties DEF Upto
<1>5. v \in Seq(D) /\ Len(v) = m /\ \A k \in 1..m : v[k] = t[k]
  BY <1>2, <1>3, SubSeqProperties DEF Upto
<1>6. \A k \in 1..m : k \in 1..n /\ k # n
  BY <1>1, <1>2
<1>7. \A k \in 1..m : u[k] = v[k]
  BY <1>4, <1>5, <1>6
<1>8. u = v
  BY <1>4, <1>5, <1>7, SeqEqual
<1>. QED BY <1>3, <1>8

LEMMA MiddleBelow ==
  ASSUME SimInv, Active, NEW n, n = Len(frames), NEW o \in Seq(Values), NEW m \in 0..n - 1
  PROVE  Upto(Advanced, m) = Upto(frames, m) /\ Upto(SP!Onward(o), m) = Upto(Contexts, m)
<1>1. /\ SP!Onward(o) \in Seq(ContextSet(prog)) /\ Len(SP!Onward(o)) = n /\ Len(Advanced) = n
      /\ \A k \in 1..n : k # n => SP!Onward(o)[k] = Contexts[k] /\ Advanced[k] = frames[k]
  BY OnwardFacts
<1>2. Sim(prog, frames, opd, Contexts, Left) /\ Len(Contexts) = n
  BY Facing
<1>3. frames \in Seq(FrameSet(prog)) /\ Contexts \in Seq(ContextSet(prog))
  BY <1>2, SimParts
<1>4. Advanced \in Seq(FrameSet(prog))
  BY FrameIsFrameSet, AdvancedOK DEF SimInv, Active, FramesOK
<1>5. Upto(Advanced, m) = Upto(frames, m)
  BY <1>1, <1>3, <1>4, UptoSame
<1>6. Upto(SP!Onward(o), m) = Upto(Contexts, m)
  BY <1>1, <1>2, <1>3, UptoSame
<1>. QED BY <1>5, <1>6

WithOperands(c, o) == [c EXCEPT !.operands = o]

LEMMA OperandsRead ==
  ASSUME NEW f, NEW x, NEW o
  PROVE  ContextRead(f, o) = WithOperands(ContextRead(f, x), o)
  BY DEF ContextRead, WithOperands

\* What the contexts above m leave goes to the one below, or to the host.
LEMMA LeaveSim ==
  ASSUME SimInv, Active, NEW m \in 0..Len(frames) - 1, NEW b, NEW vs \in Seq(Values),
         Sim(prog, Upto(frames, m), b, Upto(Contexts, m), Left),
         frames' = Upto(frames, m), opd' = b \o vs, Proceed, prog' = prog, globals' = globals
  PROVE  SP!LeaveTo(m, vs) /\ Agrees' /\ Running' /\ mode' = mode
<1>1. PICK n : n = Len(frames)
  OBVIOUS
<1>2. /\ n \in Nat /\ n # 0 /\ Len(Contexts) = n /\ Contexts # << >>
      /\ Sim(prog, frames, opd, Contexts, Left)
      /\ \A k \in 1..n : Contexts[k] = ContextRead(frames[k], Contexts[k].operands)
  BY <1>1, Facing
<1>3. frames \in Seq(FrameSet(prog)) /\ Contexts \in Seq(ContextSet(prog))
  BY <1>2, SimParts
<1>4. Running' /\ mode' = mode /\ outcome' = outcome
  BY DEF Proceed, Running, Active
<1>5. PICK fs, cs : fs = Upto(frames, m) /\ cs = Upto(Contexts, m)
  OBVIOUS
<1>6. Len(fs) = m /\ fs \in Seq(FrameSet(prog)) /\ m \in Nat
  <2>1. m \in 0..Len(frames) /\ m \in Nat
    BY <1>1, <1>2
  <2>. QED BY <1>3, <1>5, <2>1, SubSeqProperties DEF Upto
<1>7. CASE m = 0
  <2>1. Sim(prog, fs, b \o vs, cs, Left \o vs)
    BY <1>5, <1>6, <1>7, SimPushed
  <2>2. Left = << >>
    BY <1>2 DEF SimInv, Returned, SP!Owes, Active
  <2>3. Left \o vs = vs
    BY <2>2, ConcatEmptySeq
  <2>4. cs = << >>
    <3>1. Len(cs) = 0 /\ cs \in Seq(ContextSet(prog))
      <4>1. m \in 0..Len(Contexts)
        BY <1>2, <1>7
      <4>. QED BY <1>3, <1>5, <1>7, <4>1, SubSeqProperties DEF Upto
    <3>. QED BY <3>1, EmptySeq
  <2>5. Sim(prog, frames', opd', cs, vs)
    BY <1>5, <2>1, <2>3
  <2>6. Contexts' = cs /\ Left' = vs /\ Agrees'
    BY <1>4, <2>5, Lands
  <2>. QED BY <1>4, <1>7, <2>4, <2>6 DEF SP!LeaveTo, SP!Proceed
<1>8. CASE m # 0
  <2>1. m \in 1..Len(Contexts) /\ m \in 1..Len(frames)
    BY <1>1, <1>2, <1>6, <1>8
  <2>2. fs[m] = frames[m] /\ cs[m] = Contexts[m]
    BY <1>3, <1>5, <2>1, LastPut
  <2>3. PICK o, c, ds : /\ o = Contexts[m].operands \o vs /\ c = WithOperands(Contexts[m], o)
                        /\ ds = Put(cs, m, c)
    OBVIOUS
  <2>4. ContextRead(fs[m], o) = c
    <3>1. Contexts[m] = ContextRead(frames[m], Contexts[m].operands)
      BY <1>1, <1>2, <2>1
    <3>2. ContextRead(frames[m], o) = WithOperands(ContextRead(frames[m], Contexts[m].operands), o)
      BY OperandsRead
    <3>. QED BY <2>2, <2>3, <3>1, <3>2
  <2>5. m = Len(fs) /\ cs[m].operands \o vs = o
    BY <1>6, <2>2, <2>3
  <2>6. Sim(prog, fs, b \o vs, Put(cs, m, ContextRead(fs[m], cs[m].operands \o vs)), Left)
    BY <1>5, <1>8, <2>5, SimPushed
  <2>7. Sim(prog, frames', opd', ds, Left)
    BY <1>5, <2>3, <2>4, <2>5, <2>6
  <2>8. Contexts' = ds /\ Left' = Left /\ Agrees'
    BY <1>4, <2>7, Lands
  <2>9. ds = [SubSeq(Contexts, 1, m) EXCEPT ![m] = [Contexts[m] EXCEPT !.operands =
                                                      Contexts[m].operands \o vs]]
    BY <1>5, <2>3 DEF Put, Upto, WithOperands
  <2>. QED BY <1>4, <1>8, <2>8, <2>9 DEF SP!LeaveTo, SP!Proceed
<1>. QED BY <1>7, <1>8

----------------------------------------------------------------------------
(* Branches are followed *)

\* What a branch takes along is read off the frame it goes to.
LEMMA TargetRead ==
  ASSUME SimInv, Active, NEW n, n = Len(frames), NEW l \in Nat, NEW t, t = n - l, t \in 1..n
  PROVE  /\ Carries(Advanced[t]) = SP!Carried(l)
         /\ Advanced[t].context = Contexts[t].kind /\ Advanced[t] \in FrameSet(prog)
         /\ Advanced[t].instrs = frames[t].instrs /\ Advanced[t].locals = frames[t].locals
         /\ Carries(Advanced[t]) = Carries(frames[t])
<1>1. /\ n \in Nat /\ SP!Depth = n /\ Top = frames[n] /\ Len(Contexts) = n
      /\ \A k \in 1..n : /\ frames[k] \in FrameSet(prog) /\ Contexts[k].kind = frames[k].context
                         /\ Contexts[k] = ContextRead(frames[k], Contexts[k].operands)
  BY Facing
<1>2. PICK o : o = << >>
  OBVIOUS
<1>3. o \in Seq(Values)
  BY <1>2
<1>4. /\ \A k \in 1..n : k # n => Advanced[k] = frames[k]
      /\ Advanced[n] = Bump(Top) /\ Carries(Advanced[n]) = Carries(Top)
  BY <1>3, OnwardFacts
<1>5. /\ Advanced[t].context = frames[t].context /\ Advanced[t] \in FrameSet(prog)
      /\ Advanced[t].locals = frames[t].locals
  <2>1. t \in 1..Len(frames)
    OBVIOUS
  <2>. QED BY <2>1, AdvancedOK, FrameIsFrameSet DEF SimInv, Active
<1>6. Carries(Advanced[t]) = Carries(frames[t])
  BY <1>1, <1>4
<1>7. Advanced[t].instrs = frames[t].instrs
  <2>1. CASE t = n
    <3>1. Top \in FrameSet(prog)
      BY <1>1, <2>1
    <3>2. Bump(Top).instrs = Top.instrs
      BY <3>1 DEF Bump, FrameSet
    <3>. QED BY <1>1, <1>4, <2>1, <3>2
  <2>2. CASE t # n
    BY <1>4, <2>2
  <2>. QED BY <2>1, <2>2
<1>8. Contexts[t].result = Carries(frames[t])
  <2>1. Contexts[t] = ContextRead(frames[t], Contexts[t].operands)
    BY <1>1
  <2>. QED BY <2>1 DEF ContextRead
<1>9. Contexts[t].kind = "loop" => Contexts[t].result = << >>
  <2>1. SP!Suits(prog, Contexts[t]) /\ prog \in Programs
    BY <1>1 DEF SimInv, SP!IInv, SP!Good
  <2>2. Contexts[t].instrs \in DOMAIN prog.typing
    <3>1. Contexts[t].instrs = frames[t].instrs /\ frames[t].instrs \in Blocks(prog)
      <4>1. Contexts[t] = ContextRead(frames[t], Contexts[t].operands)
        BY <1>1
      <4>. QED BY <1>1, <4>1 DEF ContextRead, FrameSet
    <3>2. Valid(prog)
      BY <2>1, TypingAssumption
    <3>. QED BY <3>1, <3>2 DEF Valid
  <2>3. Handled(prog)
    BY <2>1, HandledAssumption
  <2>. QED BY <2>1, <2>2, <2>3 DEF SP!Suits, Handled
<1>10. SP!Carried(l) = Contexts[t].result
  BY <1>1, <1>9 DEF SP!Carried
<1>. QED BY <1>1, <1>5, <1>6, <1>7, <1>8, <1>10

\* A loop begins again.
Restarted(c) == [c EXCEPT !.ip = 0, !.operands = << >>]
Rewound(f)   == [f EXCEPT !.ip = 0]

LEMMA RestartRead ==
  ASSUME NEW p, NEW f \in FrameSet(p), NEW g \in FrameSet(p), NEW x,
         g.instrs = f.instrs, g.context = f.context, g.locals = f.locals, Carries(g) = Carries(f)
  PROVE  /\ Rewound(g) \in FrameSet(p) /\ Rewound(g).context = g.context
         /\ ContextRead(Rewound(g), << >>) = Restarted(ContextRead(f, x))
<1>1. PICK h, c, r, none : h = Rewound(g) /\ c = ContextRead(f, x) /\ r = Carries(f) /\ none = << >>
  OBVIOUS
<1>2. h \in FrameSet(p)
  BY <1>1 DEF FrameSet, Rewound
<1>3. /\ h.instrs = f.instrs /\ h.ip = 0 /\ h.context = f.context /\ h.locals = f.locals /\ Carries(h) = r
  BY <1>1 DEF FrameSet, Rewound, Carries
<1>4. ContextRead(h, none) = [instrs |-> f.instrs, ip |-> 0, kind |-> f.context,
                              result |-> r, operands |-> none, locals |-> f.locals]
  BY <1>3 DEF ContextRead
<1>5. c = [instrs |-> f.instrs, ip |-> f.ip, kind |-> f.context,
           result |-> r, operands |-> x, locals |-> f.locals]
  BY <1>1 DEF ContextRead
<1>6. Restarted(c) = [[c EXCEPT !.ip = 0] EXCEPT !.operands = none]
  BY <1>1, <1>5 DEF Restarted
<1>7. Restarted(c) = [instrs |-> f.instrs, ip |-> 0, kind |-> f.context,
                      result |-> r, operands |-> none, locals |-> f.locals]
  BY <1>5, <1>6
<1>. QED BY <1>1, <1>2, <1>3, <1>4, <1>7

LEMMA BranchFollows ==
  ASSUME SimInv, Fetching, Fetched.op \in {"br", "br_if", "br_table"},
         NEW l, l \in SP!Labels(Fetched), Branch(l, Rest), prog' = prog, globals' = globals
  PROVE  SP!Branch(l) /\ Agrees' /\ Running' /\ mode' = mode
<1>1. Active /\ SP!Fetched = Fetched /\ SP!IInv /\ SP!Fetching /\ Needs(Fetched) = SP!Needs(Fetched)
  <2>1. Active /\ SP!Fetching
    BY PromiseReady
  <2>. QED BY <2>1, Seen, SameNeeds DEF SimInv, Alike
<1>2. PICK n, d, s, o, t, res, c :
        /\ n = Len(frames) /\ d = Len(SP!Needs(Fetched)) /\ s = Rest /\ o = SP!Rest
        /\ t = n - l /\ res = SP!Carried(l) /\ c = Len(res)
  OBVIOUS
<1>3. /\ n \in Nat /\ n # 0 /\ SP!Depth = n
      /\ \A k \in 1..n : /\ frames[k] \in FrameSet(prog)
                         /\ Contexts[k] = ContextRead(frames[k], Contexts[k].operands)
  BY <1>1, <1>2, Facing
<1>4. d \in Nat /\ d <= Len(SP!Operands) /\ s = Dropped(opd, d) /\ o = Dropped(SP!Operands, d)
  <2>1. d \in Nat /\ d <= Len(SP!Operands)
    BY <1>2, PromiseReady
  <2>2. SP!Rest = Dropped(SP!Operands, d)
    BY <1>1, <1>2, SameStack DEF SP!Rest
  <2>. QED BY <1>1, <1>2, <2>1, <2>2 DEF Rest
<1>5. l \in Nat /\ t \in 1..n /\ SP!Holds(o, res) /\ SP!Kept(o, c) \in Seq(SP!Values)
  <2>1. SP!Fetched.op \in {"br", "br_if", "br_table"} /\ l \in SP!Labels(SP!Fetched)
    BY <1>1
  <2>2. /\ l \in Nat /\ SP!Depth - l \in 1..SP!Depth /\ SP!Holds(SP!Rest, SP!Carried(l))
        /\ SP!Kept(SP!Rest, Len(SP!Carried(l))) \in Seq(SP!Values)
    BY <1>1, <2>1, ProgramsValid, CodeAssumption, SP!TargetType
  <2>. QED BY <1>2, <1>3, <2>2
<1>6. PICK f, cs, g : f = Advanced[t] /\ cs = SP!Onward(o) /\ g = Rewound(f)
  OBVIOUS
<1>7. /\ Carries(f) = res /\ f.context = Contexts[t].kind /\ f \in FrameSet(prog)
      /\ f.instrs = frames[t].instrs /\ f.locals = frames[t].locals /\ Carries(f) = Carries(frames[t])
  BY <1>1, <1>2, <1>5, <1>6, TargetRead
<1>8. /\ Sim(prog, Advanced, s, cs, Left) /\ o \in Seq(Values)
      /\ \A j \in Nat : j <= Len(o) => Kept(s, j) = Kept(o, j) /\ Kept(s, j) \in Seq(Values)
      /\ Holds(o, res) => Holds(s, res) /\ Len(res) \in Nat /\ Len(res) <= Len(o)
  <2>1. res \in Seq(AnyType)
    BY <1>7, CarriesType, FrameIsFrameSet
  <2>. QED BY <1>1, <1>4, <1>6, <2>1, MiddleTop
<1>9. Holds(s, res) /\ c \in Nat /\ c <= Len(o) /\ Kept(s, c) = Kept(o, c) /\ Kept(s, c) \in Seq(Values)
  BY <1>2, <1>5, <1>8, SameStack
<1>10. PICK m, b, vs : m = t - 1 /\ b = BelowMarkers(Dropped(s, c), l + 1) /\ vs = Kept(s, c)
  OBVIOUS
<1>11. m \in 0..n - 1 /\ n - t + 1 = l + 1 /\ n = Len(Advanced) /\ cs[n].operands = o
  <2>1. m \in 0..n - 1 /\ n - t + 1 = l + 1
    BY <1>2, <1>3, <1>5, <1>10
  <2>2. n = Len(Advanced) /\ cs[n].operands = o
    BY <1>1, <1>2, <1>6, <1>8, OnwardFacts
  <2>. QED BY <2>1, <2>2
<1>12. /\ MarkerCount(Dropped(s, c)) = n
       /\ Sim(prog, Upto(Advanced, m), b, Upto(cs, m), Left)
  <2>1. c <= Len(cs[n].operands)
    BY <1>9, <1>11
  <2>2. /\ MarkerCount(Dropped(s, c)) = n
        /\ Sim(prog, Upto(Advanced, t - 1), BelowMarkers(Dropped(s, c), n - t + 1), Upto(cs, t - 1), Left)
    <3>1. /\ Sim(prog, Advanced, s, cs, Left) /\ n = Len(Advanced) /\ n # 0 /\ c \in Nat
          /\ c <= Len(cs[n].operands) /\ t \in 1..n
      BY <1>3, <1>5, <1>8, <1>9, <1>11, <2>1
    <3>. QED BY <3>1, SimBelowMarkers

  <2>. QED BY <1>10, <1>11, <2>2
<1>13. Upto(Advanced, m) = Upto(frames, m) /\ Upto(cs, m) = Upto(Contexts, m)
  BY <1>1, <1>2, <1>6, <1>8, <1>11, MiddleBelow
<1>14. /\ frames' = FramesAfterBranch(l) /\ opd' = b \o MarkerAgain(f) \o vs /\ Proceed
  <2>1. ~(l >= Len(Advanced)) /\ ~(n <= l) /\ Len(Advanced) - l = t
    BY <1>2, <1>3, <1>5, <1>11
  <2>. QED BY <1>2, <1>6, <1>7, <1>9, <1>10, <1>12, <2>1 DEF Branch
<1>15. FramesAfterBranch(l) = IF f.context = "loop" THEN [SubSeq(Advanced, 1, t) EXCEPT ![t].ip = 0]
                              ELSE SubSeq(Advanced, 1, t - 1)
  BY <1>2, <1>6, <1>11 DEF FramesAfterBranch
<1>16. b \in Seq(Entries) /\ Advanced \in Seq(FrameSet(prog)) /\ t \in 1..Len(Advanced)
  BY <1>5, <1>8, <1>11, <1>12, SimParts
<1>17. Running' /\ mode' = mode /\ outcome' = outcome
  BY <1>1, <1>14 DEF Proceed, Running, Active
<1>18. CASE f.context = "loop"
  <2>1. res = << >> /\ c = 0 /\ vs = << >>
    <3>1. SP!Carried(l) = << >>
      BY <1>2, <1>3, <1>7, <1>18 DEF SP!Carried
    <3>2. c = 0
      BY <1>2, <3>1
    <3>3. Kept(o, 0) = << >>
      <4>1. Len(o) \in Nat
        BY <1>8
      <4>2. SubSeq(o, Len(o) + 1, Len(o)) = << >> /\ Len(o) - 0 + 1 = Len(o) + 1
        BY <1>8, <4>1, SubSeqEmpty
      <4>. QED BY <4>2 DEF Kept
    <3>. QED BY <1>2, <1>9, <1>10, <3>1, <3>2, <3>3
  <2>2. PICK e, x : e = LabelMarker /\ x = Contexts[t].operands
    OBVIOUS
  <2>3. opd' = Append(b, e)
    <3>1. MarkerAgain(f) = <<e>>
      BY <1>18, <2>2 DEF MarkerAgain
    <3>2. opd' = b \o <<e>> \o << >>
      BY <1>14, <2>1, <3>1
    <3>3. e \in Entries
      BY <2>2 DEF Entries
    <3>4. b \o <<e>> = Append(b, e) /\ Append(b, e) \in Seq(Entries)
      BY <1>16, <3>3, AppendIsConcat, AppendProperties
    <3>5. Append(b, e) \o << >> = Append(b, e)
      BY <3>4, ConcatEmptySeq
    <3>. QED BY <3>2, <3>4, <3>5
  <2>4. /\ g \in FrameSet(prog) /\ g.context = "loop" /\ ContextRead(g, << >>) = Restarted(Contexts[t])
    <3>1. frames[t] \in FrameSet(prog) /\ Contexts[t] = ContextRead(frames[t], x)
      BY <1>3, <1>5, <2>2
    <3>2. f.context = frames[t].context
      <4>1. Contexts[t].kind = frames[t].context
        BY <3>1 DEF ContextRead
      <4>. QED BY <1>7, <4>1
    <3>. QED BY <1>6, <1>7, <1>18, <3>1, <3>2, RestartRead
  <2>5. e \in {LabelMarker, FuncMarker} /\ e.marker = MarkerOf(g.context)
    BY <2>2, <2>4 DEF LabelMarker, MarkerOf
  <2>6. Sim(prog, Append(Upto(Advanced, m), g), Append(b, e),
            Append(Upto(cs, m), ContextRead(g, << >>)), Left)
    BY <1>12, <2>4, <2>5, SimMarked
  <2>7. frames' = Append(Upto(Advanced, m), g)
    <3>1. Put(Upto(Advanced, t), t, g) = Append(Upto(Advanced, t - 1), g) /\ Upto(Advanced, t)[t] = f
      BY <1>6, <1>16, LastPut
    <3>2. frames' = [SubSeq(Advanced, 1, t) EXCEPT ![t].ip = 0]
      BY <1>14, <1>15, <1>18
    <3>3. frames' = Put(Upto(Advanced, t), t, g)
      BY <1>6, <3>1, <3>2 DEF Put, Upto, Rewound
    <3>. QED BY <1>10, <3>1, <3>3
  <2>8. PICK ds : ds = Append(Upto(cs, m), ContextRead(g, << >>))
    OBVIOUS
  <2>9. Contexts' = ds /\ Left' = Left /\ Agrees'
    <3>1. Sim(prog, frames', opd', ds, Left)
      BY <2>3, <2>6, <2>7, <2>8
    <3>. QED BY <1>17, <3>1, Lands
  <2>10. ds = [SubSeq(Contexts, 1, t) EXCEPT ![t] = [Contexts[t] EXCEPT !.ip = 0, !.operands = << >>]]
    <3>1. ds = Append(Upto(Contexts, t - 1), Restarted(Contexts[t]))
      BY <1>10, <1>13, <2>4, <2>8
    <3>2. Contexts \in Seq(ContextSet(prog)) /\ t \in 1..Len(Contexts)
      <4>1. Sim(prog, frames, opd, Contexts, Left) /\ Len(Contexts) = n
        BY <1>1, <1>2, Facing
      <4>. QED BY <1>5, <4>1, SimParts
    <3>3. Put(Upto(Contexts, t), t, Restarted(Contexts[t])) = Append(Upto(Contexts, t - 1), Restarted(Contexts[t]))
      BY <3>2, LastPut
    <3>. QED BY <3>1, <3>3 DEF Put, Upto, Restarted
  <2>11. SP!Branch(l)
    <3>1. Contexts[SP!Depth - l].kind = "loop" /\ SP!Depth - l = t
      BY <1>2, <1>3, <1>7, <1>18
    <3>. QED BY <1>17, <2>9, <2>10, <3>1 DEF SP!Branch, SP!Proceed
  <2>. QED BY <1>17, <2>9, <2>11
<1>19. CASE f.context # "loop"
  <2>1. opd' = b \o vs
    <3>1. MarkerAgain(f) = << >>
      BY <1>19 DEF MarkerAgain
    <3>2. b \o << >> = b
      BY <1>16, ConcatEmptySeq
    <3>. QED BY <1>14, <3>1, <3>2
  <2>2. frames' = Upto(frames, m)
    BY <1>10, <1>13, <1>14, <1>15, <1>19 DEF Upto
  <2>3. Sim(prog, Upto(frames, m), b, Upto(Contexts, m), Left)
    BY <1>12, <1>13
  <2>4. m \in 0..Len(frames) - 1 /\ vs \in Seq(Values)
    BY <1>2, <1>9, <1>10, <1>11
  <2>5. SP!LeaveTo(m, vs) /\ Agrees' /\ Running' /\ mode' = mode
    BY <1>1, <1>14, <2>1, <2>2, <2>3, <2>4, LeaveSim
  <2>6. SP!Branch(l)
    <3>1. Contexts[SP!Depth - l].kind # "loop" /\ SP!Depth - l - 1 = m
      BY <1>2, <1>3, <1>7, <1>10, <1>19
    <3>2. SP!Kept(SP!Rest, Len(SP!Carried(l))) = vs
      BY <1>2, <1>9, <1>10, SameStack
    <3>. QED BY <2>5, <3>1, <3>2 DEF SP!Branch
  <2>. QED BY <2>5, <2>6
<1>. QED BY <1>18, <1>19

LEMMA BrFollows ==
  ASSUME SimInv, Br
  PROVE  Follows
<1>1. /\ SP!At({"br"}) /\ SP!Fetched = Fetched /\ Fetching /\ Active /\ Fetched.op = "br"
  BY PromiseAt DEF Br
<1>2. PICK l : l = Fetched.label
  OBVIOUS
<1>3. l \in SP!Labels(Fetched)
  BY <1>1, <1>2 DEF SP!Labels
<1>4. Branch(l, Rest) /\ prog' = prog /\ globals' = globals
  BY <1>2 DEF Br, Keep
<1>5. SP!Branch(l) /\ Agrees' /\ Running' /\ mode' = mode
  BY <1>1, <1>3, <1>4, BranchFollows
<1>6. SP!Br
  BY <1>1, <1>2, <1>5 DEF SP!Br
<1>. QED BY <1>5, <1>6 DEF Follows, SP!Next

LEMMA BrIfFollows ==
  ASSUME SimInv, BrIf
  PROVE  Follows
<1>1. /\ SP!At({"br_if"}) /\ SP!Fetched = Fetched /\ Fetching /\ Active /\ Fetched.op = "br_if"
  BY PromiseAt DEF BrIf
<1>2. PICK l, c : l = Fetched.label /\ c = Len(SP!Needs(Fetched))
  OBVIOUS
<1>3. l \in SP!Labels(Fetched) /\ c = 1
  BY <1>1, <1>2 DEF SP!Labels, SP!Needs
<1>4. SP!Popped(SP!Operands, 1) = Popped(opd, 1)
  <2>1. 1 <= Len(SP!Operands)
    BY <1>1, <1>2, <1>3, PromiseReady
  <2>. QED BY <1>1, <2>1, SamePopped
<1>5. CASE Popped(opd, 1).val # 0
  <2>1. Branch(l, Rest) /\ prog' = prog /\ globals' = globals
    BY <1>2, <1>5 DEF BrIf, Keep
  <2>2. SP!Branch(l) /\ Agrees' /\ Running' /\ mode' = mode
    BY <1>1, <1>3, <2>1, BranchFollows
  <2>3. SP!BrIf
    BY <1>1, <1>2, <1>4, <1>5, <2>2 DEF SP!BrIf
  <2>. QED BY <2>2, <2>3 DEF Follows, SP!Next
<1>6. CASE Popped(opd, 1).val = 0
  <2>1. opd' = Rest /\ Advance /\ Keep
    BY <1>6 DEF BrIf
  <2>2. opd' = Traded(opd, c, << >>) /\ << >> \in Seq(Values)
    <3>1. Rest = Dropped(opd, c)
      BY <1>1, <1>2, SameNeeds DEF Rest, Alike
    <3>2. Dropped(opd, c) = Traded(opd, c, << >>)
      BY <1>1, <1>2, StackHere
    <3>3. << >> \in Seq(Values)
      OBVIOUS
    <3>. QED BY <2>1, <3>1, <3>2, <3>3
  <2>3. SP!Push(<< >>) /\ Agrees' /\ Running' /\ mode' = mode
    BY <1>1, <1>2, <2>1, <2>2, PushFollows
  <2>4. SP!NotBrIf
    BY <1>1, <1>4, <1>6, <2>1, <2>3 DEF SP!NotBrIf, Keep
  <2>. QED BY <2>3, <2>4 DEF Follows, SP!Next
<1>. QED BY <1>5, <1>6

LEMMA BrTableFollows ==
  ASSUME SimInv, BrTable, Site \notin clobbered
  PROVE  Follows
<1>1. /\ SP!At({"br_table"}) /\ SP!Fetched = Fetched /\ Fetching /\ Active /\ Fetched.op = "br_table"
  BY PromiseAt DEF BrTable
<1>2. PICK v, l : /\ v = Popped(opd, 1).val
                  /\ l = IF v < Len(Fetched.labels) THEN Fetched.labels[v + 1] ELSE Fetched.default
  OBVIOUS
<1>3. Len(SP!Needs(Fetched)) = 1
  BY <1>1 DEF SP!Needs
<1>4. SP!Popped(SP!Operands, 1) = Popped(opd, 1) /\ Popped(opd, 1) \in Values
  <2>1. 1 <= Len(SP!Operands)
    BY <1>1, <1>3, PromiseReady
  <2>. QED BY <1>1, <2>1, SamePopped
<1>5. v \in Nat
  BY <1>2, <1>4, CodeAssumption DEF Values
<1>6. l \in SP!Labels(Fetched)
  <2>1. Fetched.labels \in Seq(Nat)
    <3>1. Fetched \in Instr(Blocks(prog))
      BY <1>1, HandledHere
    <3>. QED BY <1>1, <3>1 DEF Instr
  <2>2. v < Len(Fetched.labels) => v + 1 \in 1..Len(Fetched.labels)
    BY <1>5, <2>1
  <2>. QED BY <1>1, <1>2, <2>2 DEF SP!Labels
<1>7. Branch(l, Rest) /\ prog' = prog /\ globals' = globals
  BY <1>2 DEF BrTable
<1>8. SP!Branch(l) /\ Agrees' /\ Running' /\ mode' = mode
  BY <1>1, <1>6, <1>7, BranchFollows
<1>9. SP!BrTable
  BY <1>1, <1>2, <1>4, <1>8 DEF SP!BrTable
<1>. QED BY <1>8, <1>9 DEF Follows, SP!Next

----------------------------------------------------------------------------
(* The end of a frame *)

LEMMA UnwindFollows ==
  ASSUME SimInv, Active, NEW a \in 1..Len(frames), NEW x, x = MarkerOf(frames[a].context),
         \A k \in a + 1..Len(frames) : MarkerOf(frames[k].context) # x,
         NEW res \in Seq(AnyType), Holds(SP!Operands, res)
  PROVE  /\ CanUnwind(res, x)
         /\ /\ opd' = Unwound(res, x) /\ frames' = Upto(frames, a - 1)
            /\ Proceed /\ prog' = prog /\ globals' = globals
            => /\ SP!LeaveTo(a - 1, SP!Kept(SP!Operands, Len(res)))
               /\ Agrees' /\ Running' /\ mode' = mode
<1>1. PICK n, c, b, vs, o : /\ n = Len(frames) /\ c = Len(res) /\ vs = Kept(opd, c)
                            /\ b = BelowTopmost(Dropped(opd, c), x) /\ o = Contexts[n].operands
  OBVIOUS
<1>2. /\ Sim(prog, frames, opd, Contexts, Left) /\ n \in Nat /\ n # 0 /\ SP!Operands = o
  BY <1>1, Facing
<1>3. /\ Holds(opd, res) /\ c \in Nat /\ c <= Len(o)
      /\ \A j \in Nat : j <= Len(o) => Kept(opd, j) = Kept(o, j) /\ Kept(opd, j) \in Seq(Values)
  BY <1>1, <1>2, SimTop
<1>4. vs = SP!Kept(SP!Operands, c) /\ vs \in Seq(Values)
  BY <1>1, <1>2, <1>3, SameStack
<1>5. /\ HasMarker(Dropped(opd, c), x)
      /\ Sim(prog, Upto(frames, a - 1), b, Upto(Contexts, a - 1), Left)
  <2>1. /\ n = Len(frames) /\ c <= Len(Contexts[n].operands) /\ a \in 1..n
        /\ MarkerOf(frames[a].context) = x /\ \A k \in a + 1..n : MarkerOf(frames[k].context) # x
    BY <1>1, <1>3
  <2>. QED BY <1>1, <1>2, <1>3, <2>1, SimBelowTopmost
<1>6. PICK m : m = a - 1
  OBVIOUS
<1>7. m \in 0..Len(frames) - 1
  BY <1>1, <1>2, <1>6
<1>8. ASSUME opd' = Unwound(res, x), frames' = Upto(frames, a - 1),
             Proceed, prog' = prog, globals' = globals
      PROVE  SP!LeaveTo(m, vs) /\ Agrees' /\ Running' /\ mode' = mode
  <2>1. opd' = b \o vs /\ frames' = Upto(frames, m)
    BY <1>1, <1>6, <1>8 DEF Unwound
  <2>2. Sim(prog, Upto(frames, m), b, Upto(Contexts, m), Left)
    BY <1>5, <1>6
  <2>. QED BY <1>4, <1>7, <1>8, <2>1, <2>2, LeaveSim
<1>9. CanUnwind(res, x)
  BY <1>1, <1>3, <1>5 DEF CanUnwind
<1>. QED BY <1>1, <1>4, <1>6, <1>8, <1>9

LEMMA HoldsAll ==
  ASSUME NEW o \in Seq(Values), NEW ts, SP!Types(o) = ts
  PROVE  Holds(o, ts)
<1>1. Len(ts) = Len(o) /\ Len(o) \in Nat /\ \A k \in 1..Len(o) : ts[k] = o[k].valtype
  BY DEF SP!Types
<1>2. \A k \in 1..Len(o) : ~IsMarker(o[k])
  <2>1. \A k \in 1..Len(o) : o[k] \in Values
    BY ElementOfSeq
  <2>. QED BY <2>1 DEF Values, IsMarker
<1>3. \A k \in 1..Len(ts) : Len(o) - Len(ts) + k = k
  BY <1>1
<1>. QED BY <1>1, <1>2, <1>3 DEF Holds

LEMMA FrameEndUnwinds ==
  ASSUME SimInv, FrameEnd, NEW n, n = Len(frames), NEW x, x = MarkerOf(Top.context),
         NEW res, res = Carries(Top)
  PROVE  /\ Active /\ n \in 1..Len(frames) /\ x = MarkerOf(frames[n].context)
         /\ \A k \in n + 1..Len(frames) : MarkerOf(frames[k].context) # x
         /\ res \in Seq(AnyType) /\ Holds(SP!Operands, res)
         /\ opd' = Unwound(res, x) /\ frames' = Upto(frames, n - 1)
         /\ Proceed /\ prog' = prog /\ globals' = globals
<1>1. Active /\ AtEnd
  BY DEF FrameEnd, Active
<1>2. /\ n \in 1..n /\ n \in Nat /\ Top = frames[n] /\ SP!Depth = n /\ Contexts # << >>
      /\ SP!Operands \in Seq(Values)
  BY <1>1, Facing
<1>3. SP!Innermost.result = res /\ SP!AtEnd /\ SP!Running
  BY <1>1, Seen
<1>4. SP!Types(SP!Operands) = res /\ res \in Seq(AnyType)
  <2>1. SP!IInv
    BY DEF SimInv
  <2>. QED BY <1>2, <1>3, <2>1, ProgramsValid, CodeAssumption, SameStack, SP!EndsWithResult
<1>5. Holds(SP!Operands, res)
  BY <1>2, <1>4, HoldsAll
<1>6. n \in 1..Len(frames) /\ x = MarkerOf(frames[n].context)
      /\ \A k \in n + 1..Len(frames) : MarkerOf(frames[k].context) # x
  BY <1>2
<1>7. CanUnwind(res, x)
  BY <1>1, <1>4, <1>5, <1>6, UnwindFollows
<1>8. /\ opd' = Unwound(res, x) /\ frames' = Upto(frames, n - 1)
      /\ Proceed /\ prog' = prog /\ globals' = globals
  BY <1>7 DEF FrameEnd, Keep, Upto, MarkerOf
<1>. QED BY <1>1, <1>4, <1>5, <1>6, <1>8

LEMMA FrameEndFollows ==
  ASSUME SimInv, FrameEnd
  PROVE  Follows
<1>1. PICK n, x, res : n = Len(frames) /\ x = MarkerOf(Top.context) /\ res = Carries(Top)
  OBVIOUS
<1>2. /\ Active /\ n \in 1..Len(frames) /\ x = MarkerOf(frames[n].context)
      /\ \A k \in n + 1..Len(frames) : MarkerOf(frames[k].context) # x
      /\ res \in Seq(AnyType) /\ Holds(SP!Operands, res)
      /\ opd' = Unwound(res, x) /\ frames' = Upto(frames, n - 1)
      /\ Proceed /\ prog' = prog /\ globals' = globals
  BY <1>1, FrameEndUnwinds
<1>3. /\ SP!LeaveTo(n - 1, SP!Kept(SP!Operands, Len(res)))
      /\ Agrees' /\ Running' /\ mode' = mode
  BY <1>2, UnwindFollows
<1>4. SP!Depth = n /\ Contexts # << >> /\ SP!Operands \in Seq(Values)
  BY <1>1, <1>2, Facing
<1>5. SP!Innermost.result = res /\ SP!AtEnd /\ SP!Running
  BY <1>1, <1>2, Seen DEF FrameEnd
<1>6. SP!End
  BY <1>2, <1>3, <1>4, <1>5, SameStack DEF SP!End
<1>. QED BY <1>3, <1>6 DEF Follows, SP!Next

LEMMA ReturnUnwinds ==
  ASSUME SimInv, Return, NEW a, a = FuncIndex(frames), NEW x, x = "function",
         NEW res, res = Carries(CurrentFunc)
  PROVE  /\ Active /\ a \in 1..Len(frames) /\ x = MarkerOf(frames[a].context)
         /\ \A k \in a + 1..Len(frames) : MarkerOf(frames[k].context) # x
         /\ res = SP!Needs(Fetched) /\ res \in Seq(AnyType) /\ Holds(SP!Operands, res)
         /\ opd' = Unwound(res, x) /\ frames' = Upto(frames, a - 1)
         /\ Proceed /\ prog' = prog /\ globals' = globals
<1>1. Fetching /\ Active /\ Fetched.op = "return"
  BY PromiseAt DEF Return
<1>2. /\ a \in 1..Len(frames) /\ frames[a].context = "function"
      /\ \A k \in a + 1..Len(frames) : frames[k].context # "function"
  BY <1>1, FuncIndexLast DEF SimInv, Active
<1>3. x = MarkerOf(frames[a].context) /\ \A k \in a + 1..Len(frames) : MarkerOf(frames[k].context) # x
  BY <1>2 DEF MarkerOf
<1>4. res = SP!Needs(Fetched)
  <2>1. SP!Activation = a
    BY <1>1, Seen
  <2>2. Contexts[a] = ContextRead(frames[a], Contexts[a].operands)
    BY <1>1, <1>2, Facing
  <2>3. SP!Needs(Fetched) = Contexts[SP!Activation].result
    BY <1>1 DEF SP!Needs
  <2>. QED BY <2>1, <2>2, <2>3 DEF ContextRead, CurrentFunc
<1>5. res \in Seq(AnyType) /\ Holds(SP!Operands, res)
  BY <1>1, <1>4, PromiseReady
<1>6. CanUnwind(res, x)
  BY <1>1, <1>2, <1>3, <1>5, UnwindFollows
<1>7. /\ opd' = Unwound(res, x) /\ frames' = Upto(frames, a - 1)
      /\ Proceed /\ prog' = prog /\ globals' = globals
  BY <1>6 DEF Return, Keep, Upto
<1>. QED BY <1>1, <1>2, <1>3, <1>4, <1>5, <1>7

LEMMA ReturnFollows ==
  ASSUME SimInv, Return
  PROVE  Follows
<1>1. /\ SP!At({"return"}) /\ SP!Fetched = Fetched /\ Fetching /\ Active /\ Fetched.op = "return"
  BY PromiseAt DEF Return
<1>2. PICK a, x, res : a = FuncIndex(frames) /\ x = "function" /\ res = Carries(CurrentFunc)
  OBVIOUS
<1>3. /\ a \in 1..Len(frames) /\ x = MarkerOf(frames[a].context)
      /\ \A k \in a + 1..Len(frames) : MarkerOf(frames[k].context) # x
      /\ res = SP!Needs(Fetched) /\ res \in Seq(AnyType) /\ Holds(SP!Operands, res)
      /\ opd' = Unwound(res, x) /\ frames' = Upto(frames, a - 1)
      /\ Proceed /\ prog' = prog /\ globals' = globals
  BY <1>2, ReturnUnwinds
<1>4. /\ SP!LeaveTo(a - 1, SP!Kept(SP!Operands, Len(res)))
      /\ Agrees' /\ Running' /\ mode' = mode
  BY <1>1, <1>3, UnwindFollows
<1>5. SP!Return
  <2>1. SP!Activation = a
    BY <1>1, <1>2, Seen
  <2>. QED BY <1>1, <1>3, <1>4, <2>1 DEF SP!Return
<1>. QED BY <1>4, <1>5 DEF Follows, SP!Next

----------------------------------------------------------------------------
(* The host, and the beginning *)

\* What the promise asks of a step.
Allowed == SP!Next /\ Agrees' /\ Rested' /\ Returned'

LEMMA FollowsEnough ==
  ASSUME SimInv, Running, Follows, prog' = prog, callee' = callee
  PROVE  Allowed
<1>1. Rested'
  BY DEF Follows, Rested, Running
<1>2. ASSUME Running' PROVE SP!Owes(Due)'
  <2>1. mode' = mode
    BY <1>2 DEF Follows
  <2>2. PICK d : d = Due
    OBVIOUS
  <2>3. SP!Owes(d) /\ SP!IInv /\ SP!Next
    BY <2>2 DEF SimInv, Returned, Follows
  <2>4. SP!Running /\ SP!Running'
    BY <1>2 DEF SP!Running, Running
  <2>5. SP!Owes(d)'
    BY <2>1, <2>3, <2>4, ProgramsValid, CodeAssumption, SP!OwesKept
  <2>6. Due' = d
    BY <2>1, <2>2 DEF Due
  <2>. QED BY <2>5, <2>6 DEF SP!Owes
<1>. QED BY <1>1, <1>2 DEF Allowed, Follows, Returned

\* Without a frame the stack holds what the call has left, and nothing else.
LEMMA OutsideRead ==
  ASSUME SimInv, Running, frames = << >>
  PROVE  /\ Contexts = << >> /\ Left = opd /\ opd \in Seq(Values)
         /\ Holds(opd, Due) /\ Len(opd) = Len(Due) /\ Len(opd) \in Nat
<1>1. Sim(prog, << >>, opd, Contexts, Left)
  BY DEF SimInv, Agrees
<1>2. Contexts = << >> /\ Left = opd /\ opd \in Seq(Values)
  BY <1>1, SimBare
<1>3. SP!Types(opd) = Due
  BY <1>2 DEF SimInv, Returned, SP!Owes
<1>4. Holds(opd, Due)
  BY <1>2, <1>3, HoldsAll
<1>5. Len(opd) = Len(Due) /\ Len(opd) \in Nat
  <2>1. Len(opd) \in Nat
    BY <1>2
  <2>2. Len(SP!Types(opd)) = Len(opd)
    BY <2>1 DEF SP!Types
  <2>. QED BY <1>3, <2>1, <2>2
<1>. QED BY <1>2, <1>4, <1>5

LEMMA FinishFollows ==
  ASSUME SimInv, Finish
  PROVE  Allowed
<1>1. mode = "run" /\ Running /\ frames = << >> /\ prog' = prog /\ globals' = globals
  BY DEF Finish, Running, Keep
<1>2. PICK t2 : t2 = prog.funcs[callee + 1].t2
  OBVIOUS
<1>3. t2 = Due
  BY <1>1, <1>2 DEF Due
<1>4. /\ Contexts = << >> /\ opd \in Seq(Entries)
      /\ Holds(opd, t2) /\ Len(opd) = Len(t2) /\ Len(opd) \in Nat
  BY <1>1, <1>3, OutsideRead DEF SimInv, IInv, StacksOK
<1>5. Len(t2) <= 1
  <2>1. PICK k : k = callee + 1
    OBVIOUS
  <2>2. prog.funcs \in Seq(Func(Blocks(prog)))
    BY CodeAssumption DEF SimInv, IInv, IsProgram
  <2>3. k \in 1..Len(prog.funcs)
    <3>1. callee \in Nat /\ callee < Len(prog.funcs) /\ Len(prog.funcs) \in Nat
      BY <1>1, <2>2 DEF SimInv, IInv, CalleeOK
    <3>. QED BY <2>1, <3>1
  <2>4. << >> \in Seq(Values)
    OBVIOUS
  <2>. QED BY <1>2, <2>1, <2>3, <2>4, FuncRead DEF SimInv
<1>6. ~(Len(t2) > 1) /\ ~(Len(opd) > Len(t2))
  BY <1>4, <1>5
<1>7. opd' = Dropped(opd, Len(t2)) /\ frames' = frames /\ mode' = "idle" /\ outcome' = "returned"
  BY <1>2, <1>4, <1>6 DEF Finish
<1>8. opd' = << >>
  <2>1. opd' = SubSeq(opd, 1, Len(opd) - Len(t2))
    BY <1>7 DEF Dropped
  <2>2. Len(opd) - Len(t2) = 0
    BY <1>4
  <2>. QED BY <1>4, <2>1, <2>2
<1>9. ~Running' /\ Contexts' = << >> /\ Left' = << >>
  BY <1>7, MappingReadNext DEF Running
<1>10. SP!Finish
  BY <1>1, <1>4, <1>7, <1>9 DEF SP!Finish, SP!Running
<1>. QED BY <1>1, <1>7, <1>8, <1>9, <1>10 DEF Allowed, SP!Next, Agrees, Rested, Returned

LEMMA StartDoneFollows ==
  ASSUME SimInv, StartDone
  PROVE  Allowed
<1>1. /\ mode = "start" /\ Running /\ frames = << >> /\ prog' = prog /\ globals' = globals
      /\ mode' = "idle" /\ frames' = frames /\ opd' = opd /\ outcome' = outcome
  BY DEF StartDone, Running, Keep
<1>2. Due = << >>
  BY <1>1 DEF Due
<1>3. Contexts = << >> /\ opd = << >>
  <2>1. Contexts = << >> /\ opd \in Seq(Values) /\ Len(opd) = Len(Due)
    BY <1>1, OutsideRead
  <2>2. Len(Due) = 0
    BY <1>2
  <2>. QED BY <2>1, <2>2, EmptySeq
<1>4. ~Running' /\ Contexts' = << >> /\ Left' = << >>
  BY <1>1, MappingReadNext DEF Running
<1>5. SP!Finish
  BY <1>1, <1>3, <1>4 DEF SP!Finish, SP!Running
<1>. QED BY <1>1, <1>3, <1>4, <1>5 DEF Allowed, SP!Next, Agrees, Rested, Returned

\* A call begins with the context of the function and nothing else.
LEMMA EntryRead ==
  ASSUME IInv, NEW k \in 1..Len(prog.funcs), NEW f, f = prog.funcs[k], NEW args \in Seq(Values)
  PROVE  Sim(prog, <<FuncFrame(f, args)>>, <<FuncMarker>>, <<SP!FuncContext(f, args)>>, << >>)
<1>1. PICK g : g = FuncFrame(f, args)
  OBVIOUS
<1>2. g \in FrameSet(prog) /\ g.context = "function" /\ ContextRead(g, << >>) = SP!FuncContext(f, args)
  BY <1>1, FuncRead
<1>3. PICK e : e = FuncMarker
  OBVIOUS
<1>4. e \in {LabelMarker, FuncMarker} /\ e.marker = MarkerOf(g.context)
  BY <1>2, <1>3 DEF FuncMarker, MarkerOf
<1>5. PICK nothing : nothing = << >>
  OBVIOUS
<1>6. Sim(prog, nothing, nothing, nothing, nothing)
  <2>1. nothing \in Seq(Values)
    BY <1>5
  <2>. QED BY <1>5, <2>1, SimBare
<1>7. Sim(prog, Append(nothing, g), Append(nothing, e), Append(nothing, ContextRead(g, << >>)), nothing)
  BY <1>2, <1>4, <1>6, SimMarked
<1>8. \A x : Append(nothing, x) = <<x>>
  BY <1>5
<1>. QED BY <1>1, <1>2, <1>3, <1>5, <1>7, <1>8

LEMMA InvokeFollows ==
  ASSUME SimInv, ReuseAfterTrap = FALSE, Invoke
  PROVE  Allowed
<1>1. /\ mode = "idle" /\ opd' = Append(opd, FuncMarker) /\ mode' = "run" /\ outcome' = "none"
      /\ prog' = prog /\ globals' = globals
  BY DEF Invoke
<1>2. frames = << >> /\ opd = << >>
  BY <1>1 DEF Invoke, HostMayCall, SimInv, Rested
<1>3. Left = << >>
  BY <1>1, MappingRead DEF Running
<1>4. PICK j \in prog.exports :
        \E vs \in [1..Len(prog.funcs[j + 1].t1) -> Val] :
          /\ frames' = Append(frames, FuncFrame(prog.funcs[j + 1],
                         [n \in 1..Len(prog.funcs[j + 1].t1) |->
                            Value(prog.funcs[j + 1].t1[n], vs[n])]))
          /\ callee' = j
  BY DEF Invoke
<1>5. PICK k, f : k = j + 1 /\ f = prog.funcs[k]
  OBVIOUS
<1>6. k \in 1..Len(prog.funcs) /\ f \in Func(Blocks(prog)) /\ f.t1 \in Seq(ValType)
  <2>1. prog.funcs \in Seq(Func(Blocks(prog))) /\ prog.exports \subseteq 0..Len(prog.funcs) - 1
    BY CodeAssumption DEF SimInv, IInv, IsProgram
  <2>2. k \in 1..Len(prog.funcs)
    BY <1>4, <1>5, <2>1
  <2>3. f \in Func(Blocks(prog))
    BY <1>5, <2>1, <2>2, ElementOfSeq
  <2>. QED BY <2>2, <2>3 DEF Func, ValueTypes
<1>7. PICK vs \in [1..Len(f.t1) -> Val] :
        /\ frames' = Append(frames, FuncFrame(f, [n \in 1..Len(f.t1) |-> Value(f.t1[n], vs[n])]))
        /\ callee' = j
  BY <1>4, <1>5
<1>8. PICK args : args = [n \in 1..Len(f.t1) |-> Value(f.t1[n], vs[n])]
  OBVIOUS
<1>9. args \in Seq(Values)
  <2>1. \A n \in 1..Len(f.t1) : Value(f.t1[n], vs[n]) \in Values
    <3>1. \A n \in 1..Len(f.t1) : f.t1[n] \in ValType /\ vs[n] \in Val
      BY <1>6, ElementOfSeq
    <3>. QED BY <3>1, ValueType DEF AnyType
  <2>2. Len(f.t1) \in Nat
    BY <1>6
  <2>. QED BY <1>8, <2>1, <2>2, IsASeq
<1>10. frames' = <<FuncFrame(f, args)>> /\ opd' = <<FuncMarker>>
  BY <1>1, <1>2, <1>7, <1>8
<1>11. Sim(prog, frames', opd', <<SP!FuncContext(f, args)>>, << >>)
  BY <1>5, <1>6, <1>9, <1>10, EntryRead DEF SimInv
<1>12. Contexts' = <<SP!FuncContext(f, args)>> /\ Left' = << >> /\ Agrees'
  <2>1. Running'
    BY <1>1 DEF Running
  <2>. QED BY <1>1, <1>11, <2>1, Lands
<1>13. SP!Invoke
  <2>1. args = [n \in 1..Len(f.t1) |-> SP!Value(f.t1[n], vs[n])]
    BY <1>8, SameStack
  <2>2. \E j1 \in prog.exports : \E vs1 \in [1..Len(prog.funcs[j1 + 1].t1) -> Val] :
          Contexts' = <<SP!FuncContext(prog.funcs[j1 + 1],
                          [n \in 1..Len(prog.funcs[j1 + 1].t1) |->
                             SP!Value(prog.funcs[j1 + 1].t1[n], vs1[n])])>>
    BY <1>4, <1>5, <1>7, <1>12, <2>1
  <2>. QED BY <1>1, <1>3, <1>12, <2>2 DEF SP!Invoke
<1>14. Returned'
  <2>1. Due' = f.t2
    BY <1>1, <1>5, <1>7 DEF Due
  <2>2. PICK c : c = SP!FuncContext(f, args)
    OBVIOUS
  <2>3. c.result = f.t2
    BY <2>2 DEF SP!FuncContext
  <2>4. Contexts' # << >> /\ Contexts'[1].result = f.t2
    BY <1>12, <2>2, <2>3
  <2>. QED BY <1>12, <2>1, <2>4 DEF Returned, SP!Owes
<1>15. Rested'
  BY <1>1 DEF Rested
<1>. QED BY <1>12, <1>13, <1>14, <1>15 DEF Allowed, SP!Next

LEMMA InvokeUnknownFollows ==
  ASSUME SimInv, InvokeUnknown
  PROVE  Allowed
<1>1. /\ mode = "idle" /\ mode' = mode /\ outcome' = "NOT_FOUND"
      /\ prog' = prog /\ globals' = globals
  BY DEF InvokeUnknown
<1>2. ~Running /\ ~Running'
  BY <1>1 DEF Running
<1>3. Contexts = << >> /\ Left = << >> /\ Contexts' = << >> /\ Left' = << >>
  BY <1>2, MappingRead, MappingReadNext
<1>4. SP!InvokeUnknown
  BY <1>1, <1>3 DEF SP!InvokeUnknown
<1>. QED BY <1>1, <1>2, <1>4 DEF Allowed, SP!Next, Agrees, Rested, Returned

\* At the beginning.
LEMMA InitFollows ==
  ASSUME Init, UninitReads = {{}}
  PROVE  SimInv /\ S!Instantiated
<1>1. IInv /\ emptyRead = {} /\ prog \in Programs
  BY InitTyped DEF Init
<1>2. CASE prog.start = << >>
  <2>1. frames = << >> /\ opd = << >> /\ mode = "idle" /\ globals = prog.globals /\ outcome = "none"
    BY <1>2 DEF Init
  <2>2. ~Running /\ Contexts = << >> /\ Left = << >>
    BY <2>1, MappingRead DEF Running
  <2>3. SP!Init
    BY <1>1, <1>2, <2>1, <2>2 DEF SP!Init, SP!Instantiated
  <2>4. SP!IInv
    BY <2>3, ProgramsValid, CodeAssumption, SP!InitIInv
  <2>5. S!Instantiated
    BY <1>2, <2>1, <2>2 DEF S!Instantiated
  <2>. QED BY <1>1, <2>1, <2>2, <2>4, <2>5 DEF SimInv, Agrees, Rested, Returned
<1>3. CASE prog.start # << >>
  <2>1. PICK n, k, f, args : n = prog.start[1] /\ k = n + 1 /\ f = prog.funcs[k] /\ args = << >>
    OBVIOUS
  <2>2. frames = <<FuncFrame(f, args)>> /\ opd = <<FuncMarker>> /\ mode = "start"
        /\ globals = prog.globals /\ outcome = "none"
    BY <1>3, <2>1 DEF Init
  <2>3. k \in 1..Len(prog.funcs) /\ f.t2 = << >>
    <3>1. /\ prog.start \in Seq(Nat) /\ prog.funcs \in Seq(Func(Blocks(prog)))
          /\ \A m \in 1..Len(prog.start) : prog.start[m] < Len(prog.funcs)
          /\ \A m \in 1..Len(prog.start) : prog.funcs[prog.start[m] + 1].t2 = << >>
      BY <1>1, CodeAssumption, TypingAssumption DEF IsProgram, Valid
    <3>2. 1 \in 1..Len(prog.start)
      BY <1>3, <3>1, EmptySeq
    <3>3. n \in Nat /\ n < Len(prog.funcs) /\ f.t2 = << >>
      BY <2>1, <3>1, <3>2, ElementOfSeq
    <3>. QED BY <2>1, <3>1, <3>3
  <2>4. args \in Seq(Values)
    BY <2>1
  <2>5. Sim(prog, frames, opd, <<SP!FuncContext(f, args)>>, << >>)
    BY <1>1, <2>1, <2>2, <2>3, <2>4, EntryRead
  <2>6. PICK c : c = SP!FuncContext(f, args)
    OBVIOUS
  <2>7. Contexts = <<c>> /\ Left = << >> /\ Running
    <3>1. ContextsOf(frames, opd) = <<c>> /\ LeftOf(frames, opd) = << >>
      BY <2>5, <2>6, SimContexts
    <3>2. Running
      BY <2>2 DEF Running
    <3>. QED BY <3>1, <3>2, MappingRead
  <2>8. SP!Init
    BY <1>1, <1>3, <2>1, <2>2, <2>6, <2>7 DEF SP!Init, SP!Instantiated
  <2>9. SP!IInv
    BY <2>8, ProgramsValid, CodeAssumption, SP!InitIInv
  <2>10. SP!Owes(Due)
    <3>1. Due = << >>
      BY <2>2 DEF Due
    <3>2. c.result = << >>
      BY <2>3, <2>6 DEF SP!FuncContext
    <3>3. Contexts # << >> /\ Contexts[1].result = << >>
      BY <2>7, <3>2
    <3>. QED BY <2>7, <3>1, <3>3 DEF SP!Owes
  <2>11. S!Instantiated
    <3>1. c = S!FuncContext(f, args)
      BY <2>6 DEF S!FuncContext, SP!FuncContext, S!Value, SP!Value
    <3>. QED BY <1>3, <2>1, <2>2, <2>7, <3>1 DEF S!Instantiated
  <2>12. Agrees
    BY <2>5, <2>6, <2>7 DEF Agrees
  <2>13. Rested
    BY <2>2 DEF Rested
  <2>. QED BY <1>1, <2>9, <2>10, <2>12, <2>13, <2>11 DEF SimInv, Returned
<1>. QED BY <1>2, <1>3

----------------------------------------------------------------------------
(* Every step *)

LEMMA StepFollows ==
  ASSUME SimInv, Step, BrTableOnce
  PROVE  Allowed
<1>1. ~Absent /\ ~BadOperand
  BY Granted DEF Absent, BadOperand
<1>2. ~BitCount /\ ~Divide
  <2>1. ASSUME At({"bitcount"}) \/ At({"divide"}) PROVE FALSE
    BY <2>1, HandledHere DEF At
  <2>. QED BY <2>1 DEF BitCount, Divide
<1>3. CASE FrameEnd
  <2>1. Follows
    BY <1>3, FrameEndFollows
  <2>. QED BY <1>3, <2>1, FollowsEnough DEF FrameEnd, Keep
<1>4. CASE Const \/ Numeric \/ Load \/ MemorySize \/ Store \/ Drop \/ Nop \/ Select
  <2>1. Follows
    BY <1>4, ConstFollows, ComputeFollows, DiscardFollows, SelectFollows
  <2>2. Running /\ prog' = prog /\ callee' = callee
    BY <1>4 DEF Const, Numeric, Load, MemorySize, Store, Drop, Nop, Select, At, Fetching, Keep
  <2>. QED BY <2>1, <2>2, FollowsEnough
<1>5. CASE LocalGet \/ GlobalGet \/ LocalSet \/ GlobalSet
  <2>1. Follows
    BY <1>5, GetFollows, LocalSetFollows, GlobalSetFollows
  <2>2. Running /\ prog' = prog /\ callee' = callee
    BY <1>5 DEF LocalGet, GlobalGet, LocalSet, GlobalSet, At, Fetching, Keep
  <2>. QED BY <2>1, <2>2, FollowsEnough
<1>6. CASE EnterBlock \/ EnterLoop \/ EnterThen \/ EnterElse
  <2>1. Follows
    BY <1>6, BlocksFollow
  <2>2. Running /\ prog' = prog /\ callee' = callee
    BY <1>6 DEF EnterBlock, EnterLoop, EnterThen, EnterElse, Open, At, Fetching, Keep
  <2>. QED BY <2>1, <2>2, FollowsEnough
<1>7. CASE Br \/ BrIf \/ BrTable \/ Return
  <2>1. Follows
    <3>1. ASSUME BrTable PROVE Site \notin clobbered
      BY <3>1 DEF BrTable, BrTableOnce
    <3>. QED BY <1>7, <3>1, BrFollows, BrIfFollows, BrTableFollows, ReturnFollows
  <2>2. Running /\ prog' = prog /\ callee' = callee
    BY <1>7 DEF Br, BrIf, BrTable, Return, At, Fetching, Keep
  <2>. QED BY <2>1, <2>2, FollowsEnough
<1>8. CASE Call \/ CallIndirect
  <2>1. Follows
    BY <1>8, CallFollows, CallIndirectFollows
  <2>2. Running /\ prog' = prog /\ callee' = callee
    BY <1>8 DEF Call, CallIndirect, Enter, Trap, At, Fetching, Keep
  <2>. QED BY <2>1, <2>2, FollowsEnough
<1>9. CASE MemoryTrap \/ MemoryGrow \/ Unreachable
  <2>1. Follows
    BY <1>9, TrapsFollow
  <2>2. Running /\ prog' = prog /\ callee' = callee
    BY <1>9 DEF MemoryTrap, MemoryGrow, Unreachable, Trap, At, Fetching, Keep
  <2>. QED BY <2>1, <2>2, FollowsEnough
<1>10. CASE Finish \/ StartDone
  BY <1>10, FinishFollows, StartDoneFollows
<1>. QED BY <1>1, <1>2, <1>3, <1>4, <1>5, <1>6, <1>7, <1>8, <1>9, <1>10 DEF Step

\* The invariant holds again, and the promise allows the step.
LEMMA EveryStep ==
  ASSUME SimInv, ReuseAfterTrap = FALSE, BrTableOnce, [Next]_vars
  PROVE  SimInv' /\ [SP!Next]_SP!vars
<1>1. IInv'
  BY Inductive DEF SimInv
<1>2. emptyRead' = emptyRead
  BY DEF Next, vars, Step, Invoke, InvokeUnknown, FrameEnd, Absent, BadOperand, Const, Numeric, BitCount,
     Divide, Load, Store, MemoryTrap, MemorySize, MemoryGrow, Drop, Select, Nop, Unreachable, LocalGet,
     LocalSet, GlobalGet, GlobalSet, EnterBlock, EnterLoop, EnterThen, EnterElse, Open, Br, BrIf, BrTable,
     Return, Call, CallIndirect, Enter, Trap, Finish, StartDone, Keep
<1>3. CASE Next
  <2>1. Allowed
    BY <1>3, StepFollows, InvokeFollows, InvokeUnknownFollows DEF Next
  <2>2. SP!IInv'
    <3>1. SP!IInv /\ SP!Next
      BY <2>1 DEF SimInv, Allowed
    <3>2. [SP!Next]_SP!vars
      BY <3>1
    <3>. QED BY <3>1, <3>2, ProgramsValid, CodeAssumption, SP!Inductive
  <2>. QED BY <1>1, <1>2, <2>1, <2>2 DEF SimInv, Allowed
<1>4. CASE UNCHANGED vars
  <2>1. /\ prog' = prog /\ frames' = frames /\ opd' = opd /\ globals' = globals /\ callee' = callee
        /\ mode' = mode /\ outcome' = outcome
    BY <1>4 DEF vars
  <2>2. Running' <=> Running
    BY <2>1 DEF Running
  <2>3. Contexts' = Contexts /\ Left' = Left
    BY <2>1, <2>2, MappingRead, MappingReadNext
  <2>4. UNCHANGED SP!vars
    BY <2>1, <2>3 DEF SP!vars
  <2>5. SP!IInv'
    <3>1. SP!IInv /\ [SP!Next]_SP!vars
      BY <2>4 DEF SimInv
    <3>. QED BY <3>1, ProgramsValid, CodeAssumption, SP!Inductive
  <2>6. Agrees'
    BY <2>1, <2>2, <2>3 DEF SimInv, Agrees
  <2>7. Rested'
    BY <2>1 DEF SimInv, Rested
  <2>8. Returned'
    BY <2>1, <2>2, <2>3 DEF SimInv, Returned, SP!Owes, SP!Types, Due
  <2>. QED BY <1>1, <1>2, <2>4, <2>5, <2>6, <2>7, <2>8 DEF SimInv
<1>. QED BY <1>3, <1>4

\* The promise is the same with its theorems and without.
LEMMA SameReads ==
  /\ S!Running <=> SP!Running
  /\ S!AtEnd <=> SP!AtEnd
  /\ S!Fetching <=> SP!Fetching
  /\ S!Depth = SP!Depth
  /\ S!Innermost = SP!Innermost
  /\ S!Operands = SP!Operands
  /\ S!Activation = SP!Activation
  /\ S!Locals = SP!Locals
  /\ S!Fetched = SP!Fetched
  /\ S!Rest = SP!Rest
  /\ S!Needs(S!Fetched) = SP!Needs(SP!Fetched)
  /\ \A l : S!Carried(l) = SP!Carried(l)
  /\ S!Ready(S!Fetched) <=> SP!Ready(SP!Fetched)
  /\ \A ops : S!At(ops) <=> SP!At(ops)
  BY DEF
     S!At, SP!At, S!Fetching, SP!Fetching, S!Running, SP!Running, S!AtEnd, SP!AtEnd,
     S!Innermost, SP!Innermost, S!Depth, SP!Depth, S!Fetched, SP!Fetched, S!Ready, SP!Ready,
     S!Exists, SP!Exists, S!Activation, SP!Activation, S!Locals, SP!Locals, S!IsLabel,
     SP!IsLabel, S!Labels, SP!Labels, S!Needs, SP!Needs, S!TypeAt, SP!TypeAt, S!Operands,
     SP!Operands, S!Popped, SP!Popped, S!Branches, SP!Branches, S!Rest, SP!Rest, S!Dropped,
     SP!Dropped, S!Holds, SP!Holds, S!IsMarker, SP!IsMarker, S!Carried, SP!Carried

LEMMA SameNext == [S!Next]_S!vars <=> [SP!Next]_SP!vars
<1>1. /\ S!Const <=> SP!Const
      /\ S!Compute <=> SP!Compute
      /\ S!Discard <=> SP!Discard
      /\ S!Select <=> SP!Select
  BY SameReads DEF
     S!Const, SP!Const, S!Compute, SP!Compute, S!Discard, SP!Discard, S!Select, SP!Select,
     S!Push, SP!Push, S!Onward, SP!Onward, S!Proceed, SP!Proceed, S!Pushed, SP!Pushed,
     S!Value, SP!Value, S!Popped, SP!Popped
<1>2. /\ S!LocalGet <=> SP!LocalGet
      /\ S!LocalSet <=> SP!LocalSet
      /\ S!GlobalGet <=> SP!GlobalGet
      /\ S!GlobalSet <=> SP!GlobalSet
  BY SameReads DEF
     S!LocalGet, SP!LocalGet, S!LocalSet, SP!LocalSet, S!GlobalGet, SP!GlobalGet,
     S!GlobalSet, SP!GlobalSet, S!Push, SP!Push, S!Onward, SP!Onward, S!Proceed, SP!Proceed,
     S!Popped, SP!Popped
<1>3. /\ S!EnterBlock <=> SP!EnterBlock
      /\ S!EnterLoop <=> SP!EnterLoop
      /\ S!EnterThen <=> SP!EnterThen
      /\ S!EnterElse <=> SP!EnterElse
      /\ S!SkipIf <=> SP!SkipIf
  BY SameReads DEF
     S!EnterBlock, SP!EnterBlock, S!EnterLoop, SP!EnterLoop, S!EnterThen, SP!EnterThen,
     S!EnterElse, SP!EnterElse, S!SkipIf, SP!SkipIf, S!Open, SP!Open, S!BlockContext,
     SP!BlockContext, S!Push, SP!Push, S!Onward, SP!Onward, S!Proceed, SP!Proceed, S!Popped,
     SP!Popped
<1>4. /\ S!End <=> SP!End
      /\ S!Return <=> SP!Return
  BY SameReads DEF
     S!End, SP!End, S!Return, SP!Return, S!LeaveTo, SP!LeaveTo, S!Proceed, SP!Proceed,
     S!Kept, SP!Kept, S!Holds, SP!Holds, S!IsMarker, SP!IsMarker
<1>5. /\ S!Br <=> SP!Br
      /\ S!BrIf <=> SP!BrIf
      /\ S!NotBrIf <=> SP!NotBrIf
      /\ S!BrTable <=> SP!BrTable
  BY SameReads DEF
     S!Br, SP!Br, S!BrIf, SP!BrIf, S!NotBrIf, SP!NotBrIf, S!BrTable, SP!BrTable, S!Branch,
     SP!Branch, S!LeaveTo, SP!LeaveTo, S!Push, SP!Push, S!Onward, SP!Onward, S!Proceed,
     SP!Proceed, S!Kept, SP!Kept, S!Popped, SP!Popped
<1>6. /\ S!Call <=> SP!Call
      /\ S!CallIndirect <=> SP!CallIndirect
  BY SameReads DEF
     S!Call, SP!Call, S!CallIndirect, SP!CallIndirect, S!Enter, SP!Enter, S!Callable,
     SP!Callable, S!Onward, SP!Onward, S!FuncContext, SP!FuncContext, S!Value, SP!Value,
     S!Proceed, SP!Proceed, S!Kept, SP!Kept, S!Dropped, SP!Dropped, S!Popped, SP!Popped
<1>7. S!Trap <=> SP!Trap
  BY SameReads DEF
     S!Trap, SP!Trap, S!TrapsOf, SP!TrapsOf, S!Callable, SP!Callable, S!Popped, SP!Popped
<1>8. /\ S!Invoke <=> SP!Invoke
      /\ S!InvokeUnknown <=> SP!InvokeUnknown
      /\ S!Finish <=> SP!Finish
  BY SameReads DEF
     S!Invoke, SP!Invoke, S!InvokeUnknown, SP!InvokeUnknown, S!Finish, SP!Finish,
     S!FuncContext, SP!FuncContext, S!Value, SP!Value
<1>9. S!vars = SP!vars /\ (S!vars' = SP!vars')
  BY DEF S!vars, SP!vars
<1>. QED BY <1>1, <1>2, <1>3, <1>4, <1>5, <1>6, <1>7, <1>8, <1>9 DEF S!Next, SP!Next

----------------------------------------------------------------------------
(* What belongs to the callers *)

\* The sequence t is as s, up to position j.
Spares(t, s, j) == Len(t) >= j /\ \A i \in 1..j : t[i] = s[i]

LEMMA SparesTwice ==
  ASSUME NEW u, NEW t, NEW s, NEW j, Spares(u, t, j), Spares(t, s, j)
  PROVE  Spares(u, s, j)
  BY DEF Spares

LEMMA SparesCut ==
  ASSUME NEW D, NEW s \in Seq(D), NEW c \in 0..Len(s), NEW j \in Nat, j <= c
  PROVE  Spares(SubSeq(s, 1, c), s, j) /\ SubSeq(s, 1, c) \in Seq(D) /\ Len(SubSeq(s, 1, c)) = c
<1>1. /\ SubSeq(s, 1, c) \in Seq(D) /\ Len(SubSeq(s, 1, c)) = c
      /\ \A i \in 1..c : SubSeq(s, 1, c)[i] = s[i]
  BY SubSeqProperties
<1>2. \A i \in 1..j : i \in 1..c
  OBVIOUS
<1>. QED BY <1>1, <1>2 DEF Spares

LEMMA SparesConcat ==
  ASSUME NEW D, NEW t \in Seq(D), NEW w \in Seq(D), NEW s, NEW j \in Nat, Spares(t, s, j)
  PROVE  Spares(t \o w, s, j)
<1>1. PICK u, a, b : u = t \o w /\ a = Len(t) /\ b = Len(w)
  OBVIOUS
<1>2. a \in Nat /\ b \in Nat
  BY <1>1
<1>3. /\ Len(u) = a + b
      /\ \A i \in 1..a + b : u[i] = IF i <= a THEN t[i] ELSE w[i - a]
  BY <1>1, ConcatProperties
<1>4. a >= j /\ \A i \in 1..j : t[i] = s[i]
  BY <1>1 DEF Spares
<1>5. \A i \in 1..j : i \in 1..a + b /\ i <= a
  BY <1>2, <1>4
<1>6. \A i \in 1..j : u[i] = s[i]
  BY <1>3, <1>4, <1>5
<1>7. Len(u) >= j
  BY <1>2, <1>3, <1>4
<1>. QED BY <1>1, <1>6, <1>7 DEF Spares

LEMMA SparesAppend ==
  ASSUME NEW D, NEW t \in Seq(D), NEW e, NEW s, NEW j \in Nat, Spares(t, s, j)
  PROVE  Spares(Append(t, e), s, j)
<1>1. PICK T : T = D \cup {e}
  OBVIOUS
<1>2. t \in Seq(T) /\ e \in T /\ <<e>> \in Seq(T)
  BY <1>1
<1>3. Append(t, e) = t \o <<e>>
  BY <1>2, AppendIsConcat
<1>. QED BY <1>2, <1>3, SparesConcat

LEMMA SparesExcept ==
  ASSUME NEW D, NEW t \in Seq(D), NEW a \in 1..Len(t), NEW e, NEW s, NEW j \in Nat, j < a,
         Spares(t, s, j)
  PROVE  Spares([t EXCEPT ![a] = e], s, j)
<1>1. PICK T, u : T = D \cup {e} /\ u = [t EXCEPT ![a] = e]
  OBVIOUS
<1>2. t \in Seq(T) /\ e \in T
  BY <1>1
<1>3. Len(u) = Len(t) /\ \A k \in 1..Len(t) : u[k] = IF k = a THEN e ELSE t[k]
  BY <1>1, <1>2, ExceptSeq
<1>4. Len(t) \in Nat /\ Len(t) >= j /\ \A i \in 1..j : t[i] = s[i]
  BY DEF Spares
<1>5. \A i \in 1..j : i \in 1..Len(t) /\ i # a
  BY <1>4
<1>6. \A i \in 1..j : u[i] = s[i]
  BY <1>3, <1>4, <1>5
<1>. QED BY <1>1, <1>3, <1>4, <1>6 DEF Spares

\* However many markers go from the stack t of n contexts, if the activation a is
\* the last to go at most, s is spared up to position h.
MarkersSpare(t, a, n, s, h) == \A j \in a..n : Spares(BelowMarkers(t, n - j + 1), s, h)

\* The last activation of the frames fs.
Activated(fs, a) == /\ a \in 1..Len(fs) /\ fs[a].context = "function"
                    /\ \A k \in a + 1..Len(fs) : fs[k].context # "function"

\* From the frame j on, the topmost marker x is that of j.
TopmostOf(fs, j, x) == /\ j \in 1..Len(fs) /\ MarkerOf(fs[j].context) = x
                       /\ \A k \in j + 1..Len(fs) : MarkerOf(fs[k].context) # x

\* Of the contexts from the running activation a on, nothing reaches below the
\* marker of a: neither pops of operands nor pops down to a marker.
LEMMA SimCallers ==
  ASSUME NEW p, NEW fs, NEW s, NEW cs, NEW rs, Sim(p, fs, s, cs, rs), NEW n, n = Len(fs), n # 0,
         NEW a, Activated(fs, a),
         NEW d \in Nat, d <= Len(cs[n].operands), NEW h, h = Topmost(s, "function") - 1
  PROVE  /\ h \in Nat /\ s \in Seq(Entries) /\ Dropped(s, d) \in Seq(Entries)
         /\ Topmost(Dropped(s, d), "function") - 1 = h
         /\ Spares(Dropped(s, d), s, h)
         /\ MarkersSpare(Dropped(s, d), a, n, s, h)
         /\ \A j, x : j >= a /\ TopmostOf(fs, j, x) => Spares(BelowTopmost(Dropped(s, d), x), s, h)
<1>1. PICK os : /\ Reads(s, Kinds(fs), os, rs) /\ cs = ContextsRead(fs, os)
                /\ fs \in Seq(FrameSet(p)) /\ os \in Seq(Seq(Values)) /\ Len(os) = Len(fs)
                /\ Len(fs) \in Nat /\ Len(Kinds(fs)) = Len(fs)
  BY SimType
<1>2. PICK ks, m : ks = Kinds(fs) /\ Laid(s, ks, os, rs, m)
  BY <1>1 DEF Reads
<1>3. n \in Nat /\ n \in 1..n /\ n \in 1..Len(fs) /\ n = Len(ks)
      /\ a \in 1..n /\ a \in Nat /\ a <= n /\ 1 <= a
  BY <1>1, <1>2 DEF Activated
<1>4. d <= Len(os[n])
  <2>1. n \in 1..Len(fs)
    BY <1>3
  <2>2. cs[n] = ContextRead(fs[n], os[n])
    BY <1>1, <2>1, ContextsReadType
  <2>. QED BY <2>2 DEF ContextRead
<1>5. \A k \in 1..n : ks[k] = MarkerOf(fs[k].context)
  BY <1>1, <1>2, KindsType
<1>6. PICK x : x = "function"
  OBVIOUS
<1>7. ks[a] = x /\ \A k \in a + 1..n : ks[k] # x
  <2>1. \A k \in a + 1..n : k \in 1..n
    BY <1>3
  <2>. QED BY <1>3, <1>5, <1>6, <2>1 DEF MarkerOf, Activated
<1>8. s \in Seq(Entries) /\ Len(s) \in Nat /\ Len(os[n]) \in Nat
  BY <1>2, <1>3, LaidType, LaidUpper
<1>9. Topmost(Dropped(s, d), x) = m[a] /\ Topmost(s, x) = m[a]
  <2>1. Topmost(Dropped(s, d), x) = m[a]
    BY <1>2, <1>3, <1>4, <1>7, LaidBelowTopmost
  <2>2. 0 <= Len(os[n]) /\ 0 \in Nat
    BY <1>8
  <2>3. Topmost(Dropped(s, 0), x) = m[a]
    BY <1>2, <1>3, <1>7, <2>2, LaidBelowTopmost
  <2>. QED BY <1>8, <2>1, <2>3, DroppedNone
<1>10. \A j \in a..n : m[a] \in Nat \ {0} /\ m[j] \in Nat /\ m[a] <= m[j] /\ m[j] <= Len(s)
  <2>. TAKE j \in a..n
  <2>1. j \in 1..n + 1 /\ a \in 1..n + 1 /\ j \in 1..n /\ (a = j \/ a < j)
    BY <1>3
  <2>2. a < j => m[a] < m[j]
    BY <1>2, <1>3, <2>1 DEF Laid, Marks
  <2>3. m[a] \in 1..Len(s) /\ m[j] \in 1..Len(s)
    BY <1>2, <1>3, <2>1, LaidType
  <2>. QED BY <1>8, <2>1, <2>2, <2>3
<1>11. h = m[a] - 1 /\ h \in Nat
  <2>1. h = m[a] - 1
    BY <1>6, <1>9
  <2>2. a \in a..n
    BY <1>3
  <2>. QED BY <1>10, <2>1, <2>2
<1>12. \A j \in a..n : m[j] - 1 \in 0..Len(s) /\ h <= m[j] - 1
  <2>. TAKE j \in a..n
  <2>1. m[a] \in Nat \ {0} /\ m[j] \in Nat /\ m[a] <= m[j] /\ m[j] <= Len(s)
    BY <1>10
  <2>. QED BY <1>8, <1>11, <2>1
<1>13. \A j \in a..n : Spares(SubSeq(s, 1, m[j] - 1), s, h)
  <2>. TAKE j \in a..n
  <2>1. PICK c : c = m[j] - 1
    OBVIOUS
  <2>2. c \in 0..Len(s) /\ h <= c
    BY <1>12, <2>1
  <2>. QED BY <1>8, <1>11, <2>1, <2>2, SparesCut
<1>14. Spares(Dropped(s, d), s, h) /\ Dropped(s, d) \in Seq(Entries)
  <2>1. PICK c : c = Len(s) - d
    OBVIOUS
  <2>2. Len(s) = m[n] + Len(os[n]) /\ m[n] \in Nat
    BY <1>2, <1>3, LaidUpper
  <2>3. n \in a..n
    BY <1>3
  <2>4. h <= m[n] - 1
    BY <1>12, <2>3
  <2>5. c \in 0..Len(s) /\ h <= c
    BY <1>4, <1>8, <1>11, <2>1, <2>2, <2>4
  <2>. QED BY <1>8, <1>11, <2>1, <2>5, SparesCut DEF Dropped
<1>15. \A j \in a..n : Spares(BelowMarkers(Dropped(s, d), n - j + 1), s, h)
  <2>. TAKE j \in a..n
  <2>1. j \in 1..n
    BY <1>3
  <2>2. BelowMarkers(Dropped(s, d), n - j + 1) = SubSeq(s, 1, m[j] - 1)
    BY <1>2, <1>3, <1>4, <2>1, LaidBelowMarkers
  <2>. QED BY <1>13, <2>2
<1>16. ASSUME NEW j, NEW y, j >= a, TopmostOf(fs, j, y)
       PROVE  Spares(BelowTopmost(Dropped(s, d), y), s, h)
  <2>1. j \in 1..n /\ j \in a..n /\ \A k \in j + 1..n : k \in 1..n
    BY <1>3, <1>16 DEF TopmostOf
  <2>2. ks[j] = y /\ \A k \in j + 1..n : ks[k] # y
    BY <1>5, <1>16, <2>1 DEF TopmostOf
  <2>3. BelowTopmost(Dropped(s, d), y) = SubSeq(s, 1, m[j] - 1)
    BY <1>2, <1>3, <1>4, <2>1, <2>2, LaidBelowTopmost
  <2>. QED BY <1>13, <2>1, <2>3
<1>17. Topmost(Dropped(s, d), "function") - 1 = h
  BY <1>6, <1>9, <1>11
<1>. QED BY <1>8, <1>11, <1>14, <1>15, <1>16, <1>17 DEF MarkersSpare

\* What a step leaves alone.
Untouched == /\ Spares(opd', opd, FuncMarkerPos - 1)
             /\ Spares(frames', frames, FuncIndex(frames) - 1)

LEMMA ActivatedHere ==
  ASSUME SimInv, Active, NEW a, a = FuncIndex(frames)
  PROVE  Activated(frames, a) /\ Activated(Advanced, a)
<1>1. /\ a \in 1..Len(frames) /\ frames[a].context = "function"
      /\ \A k \in a + 1..Len(frames) : frames[k].context # "function"
  BY FuncIndexLast DEF SimInv, Active
<1>2. /\ Len(frames) \in Nat /\ Len(Advanced) = Len(frames)
      /\ \A k \in 1..Len(frames) : Advanced[k].context = frames[k].context
  BY Facing, AdvancedOK DEF SimInv, Active
<1>3. \A k \in a + 1..Len(frames) : k \in 1..Len(frames)
  BY <1>1, <1>2
<1>. QED BY <1>1, <1>2, <1>3 DEF Activated

\* The stack without operands of the innermost context is as before, up to the
\* marker of the running activation; so is what is left of it by popping down to
\* the marker of that activation, or of a context above it.
LEMMA OperandsSpared ==
  ASSUME SimInv, Active, NEW d \in Nat, d <= Len(SP!Operands),
         NEW s, s = Dropped(opd, d), NEW h, h = FuncMarkerPos - 1
  PROVE  /\ h \in Nat /\ opd \in Seq(Entries) /\ s \in Seq(Entries)
         /\ Spares(opd, opd, h) /\ Spares(s, opd, h)
         /\ \A e : Spares(Append(opd, e), opd, h) /\ Spares(Append(s, e), opd, h)
<1>1. PICK n, a : n = Len(frames) /\ a = FuncIndex(frames)
  OBVIOUS
<1>2. Sim(prog, frames, opd, Contexts, Left) /\ n # 0 /\ d <= Len(Contexts[n].operands)
  BY <1>1, Facing
<1>3. Activated(frames, a)
  BY <1>1, ActivatedHere
<1>4. h = Topmost(opd, "function") - 1
  BY DEF FuncMarkerPos
<1>5. h \in Nat /\ opd \in Seq(Entries) /\ s \in Seq(Entries) /\ Spares(s, opd, h)
  BY <1>1, <1>2, <1>3, <1>4, SimCallers
<1>6. Spares(opd, opd, h)
  <2>1. Len(opd) \in Nat /\ Len(s) <= Len(opd) /\ Len(s) \in Nat
    <3>1. Len(opd) \in Nat /\ Len(s) \in Nat
      BY <1>5
    <3>2. PICK c : c = Len(SP!Operands)
      OBVIOUS
    <3>3. c \in Nat /\ d <= c /\ c < Len(opd)
      BY <1>1, <1>2, <3>2, Facing, SimTop
    <3>4. d <= Len(opd)
      BY <3>1, <3>3
    <3>5. Len(s) = Len(opd) - d
      BY <1>5, <3>4, DroppedType
    <3>. QED BY <3>1, <3>5
  <2>2. Len(s) >= h
    BY <1>5 DEF Spares
  <2>3. Len(opd) >= h
    BY <1>5, <2>1, <2>2
  <2>. QED BY <2>3 DEF Spares
<1>7. \A e : Spares(Append(opd, e), opd, h) /\ Spares(Append(s, e), opd, h)
  BY <1>5, <1>6, SparesAppend
<1>. QED BY <1>5, <1>6, <1>7

LEMMA SparedTwice ==
  ASSUME SimInv, Active, NEW d \in Nat, d <= Len(SP!Operands),
         NEW s, s = Dropped(opd, d), NEW o, o = Dropped(SP!Operands, d),
         NEW c \in Nat, c <= Len(o), NEW h, h = FuncMarkerPos - 1, NEW n, n = Len(frames)
  PROVE  /\ Spares(Dropped(s, c), opd, h) /\ Dropped(s, c) \in Seq(Entries)
         /\ \A j \in FuncIndex(frames)..n : Spares(BelowMarkers(Dropped(s, c), n - j + 1), opd, h)
<1>1. PICK a, cs : a = FuncIndex(frames) /\ cs = SP!Onward(o)
  OBVIOUS
<1>2. Spares(s, opd, h) /\ h \in Nat
  BY OperandsSpared
<1>3. /\ Sim(prog, frames, opd, Contexts, Left) /\ n # 0 /\ n \in Nat
      /\ d <= Len(Contexts[n].operands)
  BY Facing
<1>4. Activated(frames, a)
  BY <1>1, ActivatedHere
<1>5. h = Topmost(s, "function") - 1
  <2>1. h = Topmost(opd, "function") - 1
    BY DEF FuncMarkerPos
  <2>. QED BY <1>3, <1>4, <2>1, SimCallers
<1>6. Sim(prog, Advanced, s, cs, Left) /\ o \in Seq(Values)
  BY <1>1, MiddleTop
<1>7. n = Len(Advanced) /\ cs[n].operands = o
  BY <1>1, <1>6, OnwardFacts
<1>8. Activated(Advanced, a)
  BY <1>1, ActivatedHere
<1>9. c <= Len(cs[n].operands)
  BY <1>7
<1>10. /\ Spares(Dropped(s, c), s, h) /\ Dropped(s, c) \in Seq(Entries)
       /\ \A j \in a..n : Spares(BelowMarkers(Dropped(s, c), n - j + 1), s, h)
  <2>1. PICK fs, rs : fs = Advanced /\ rs = Left
    OBVIOUS
  <2>2. /\ Sim(prog, fs, s, cs, rs) /\ n = Len(fs) /\ n # 0 /\ Activated(fs, a)
        /\ c <= Len(cs[n].operands) /\ h = Topmost(s, "function") - 1
    BY <1>3, <1>4, <1>5, <1>6, <1>7, <1>8, <1>9, <2>1
  <2>3. Spares(Dropped(s, c), s, h)
    BY <2>2, SimCallers
  <2>4. Dropped(s, c) \in Seq(Entries)
    BY <2>2, SimCallers
  <2>5. MarkersSpare(Dropped(s, c), a, n, s, h)
    BY <2>2, SimCallers
  <2>. QED BY <2>3, <2>4, <2>5 DEF MarkersSpare
<1>. QED BY <1>1, <1>2, <1>10, SparesTwice

\* The frames below the running activation are as before, if the top frame goes
\* on, a frame is pushed, or frames down to the activation go.
LEMMA FramesSpared ==
  ASSUME SimInv, Active, NEW n, n = Len(frames), NEW a, a = FuncIndex(frames),
         NEW fs \in {frames, Advanced}
  PROVE  /\ a \in 1..n /\ a - 1 \in Nat /\ n \in Nat /\ fs \in Seq(FrameSet(prog)) /\ Len(fs) = n
         /\ Spares(fs, frames, a - 1)
         /\ \A g : Spares(Append(fs, g), frames, a - 1)
         /\ \A m \in 0..n : a - 1 <= m => /\ Spares(SubSeq(fs, 1, m), frames, a - 1)
                                          /\ SubSeq(fs, 1, m) \in Seq(FrameSet(prog))
                                          /\ Len(SubSeq(fs, 1, m)) = m
<1>1. /\ n \in Nat /\ Sim(prog, frames, opd, Contexts, Left)
  BY Facing
<1>2. a \in 1..n /\ a - 1 \in Nat /\ a - 1 <= n
  <2>1. a \in 1..n
    BY FuncIndexLast DEF SimInv, Active
  <2>. QED BY <1>1, <2>1
<1>3. fs \in Seq(FrameSet(prog)) /\ Len(fs) = n
  <2>1. frames \in Seq(FrameSet(prog))
    BY <1>1, SimParts
  <2>2. Advanced \in Seq(FrameSet(prog)) /\ Len(Advanced) = n
    BY FrameIsFrameSet, AdvancedOK DEF SimInv, Active, FramesOK
  <2>. QED BY <2>1, <2>2
<1>4. \A k \in 1..n : k # n => fs[k] = frames[k]
  <2>1. << >> \in Seq(Values)
    OBVIOUS
  <2>2. \A k \in 1..n : k # n => Advanced[k] = frames[k]
    BY <2>1, OnwardFacts
  <2>. QED BY <2>2
<1>5. Spares(fs, frames, a - 1)
  <2>1. \A k \in 1..a - 1 : k \in 1..n /\ k # n
    BY <1>1, <1>2
  <2>. QED BY <1>2, <1>3, <1>4, <2>1 DEF Spares
<1>6. \A g : Spares(Append(fs, g), frames, a - 1)
  BY <1>2, <1>3, <1>5, SparesAppend
<1>7. ASSUME NEW m \in 0..n, a - 1 <= m
      PROVE  /\ Spares(SubSeq(fs, 1, m), frames, a - 1)
             /\ SubSeq(fs, 1, m) \in Seq(FrameSet(prog)) /\ Len(SubSeq(fs, 1, m)) = m
  <2>1. m \in 0..Len(fs)
    BY <1>3
  <2>2. PICK j : j = a - 1
    OBVIOUS
  <2>3. /\ Spares(SubSeq(fs, 1, m), fs, j)
        /\ SubSeq(fs, 1, m) \in Seq(FrameSet(prog)) /\ Len(SubSeq(fs, 1, m)) = m
    BY <1>2, <1>3, <1>7, <2>1, <2>2, SparesCut
  <2>. QED BY <1>5, <2>2, <2>3, SparesTwice
<1>. QED BY <1>1, <1>2, <1>3, <1>5, <1>6, <1>7

\* What a handler pops before anything else are operands of the innermost context.
LEMMA NeedsWithin ==
  ASSUME SimInv, Fetching
  PROVE  Len(Needs(Fetched)) \in Nat /\ Len(Needs(Fetched)) <= Len(SP!Operands)
<1>1. /\ Active /\ SP!Fetching /\ SP!Fetched = Fetched /\ SP!IInv
      /\ Len(SP!Needs(Fetched)) \in Nat /\ Len(SP!Needs(Fetched)) <= Len(SP!Operands)
  <2>1. Active /\ SP!Fetching
    BY PromiseReady
  <2>. QED BY <2>1, PromiseReady, Seen DEF SimInv
<1>2. Len(SP!Operands) \in Nat
  <2>1. SP!Operands \in Seq(Values)
    BY <1>1, Facing
  <2>. QED BY <2>1
<1>3. PICK i : i = Fetched
  OBVIOUS
<1>4. i.op \in Alike \cup {"memory.grow", "drop", "return", "call", "call_indirect"}
  <2>1. SP!Fetched.op \in {"const", "numeric", "bitcount", "divide", "load", "store", "drop", "select",
           "return", "unreachable", "nop", "memory.size", "memory.grow", "local.get", "local.set",
           "local.tee", "global.get", "global.set", "block", "loop", "if", "br", "br_if", "br_table",
           "call", "call_indirect"}
    BY <1>1, ProgramsValid, CodeAssumption, SP!EveryOpcode
  <2>. QED BY <1>1, <1>3, <2>1 DEF Alike
<1>5. CASE i.op \in Alike
  BY <1>1, <1>3, <1>5, SameNeeds
<1>6. CASE i.op \in {"memory.grow", "drop", "return", "call"}
  <2>1. Needs(i) = << >>
    BY <1>6 DEF Needs
  <2>. QED BY <1>2, <1>3, <2>1
<1>7. CASE i.op = "call_indirect"
  <2>1. Needs(i) = <<"i32">> /\ SP!Needs(i) = Append(i.t1, "i32")
    BY <1>7 DEF Needs, SP!Needs
  <2>2. i.t1 \in Seq(AnyType)
    <3>1. i \in Instr(Blocks(prog))
      BY <1>3, HandledHere
    <3>. QED BY <1>7, <3>1 DEF Instr, ValueTypes, AnyType
  <2>3. Len(Append(i.t1, "i32")) = Len(i.t1) + 1 /\ Len(i.t1) \in Nat
    BY <2>2, AppendProperties DEF AnyType, ValType
  <2>. QED BY <1>1, <1>2, <1>3, <2>1, <2>3
<1>. QED BY <1>4, <1>5, <1>6, <1>7

LEMMA RestSpared ==
  ASSUME SimInv, Fetching, NEW h, h = FuncMarkerPos - 1
  PROVE  /\ Spares(opd, opd, h) /\ Spares(Rest, opd, h)
         /\ \A e : Spares(Append(opd, e), opd, h) /\ Spares(Append(Rest, e), opd, h)
<1>1. PICK d : d = Len(Needs(Fetched))
  OBVIOUS
<1>2. Active /\ d \in Nat /\ d <= Len(SP!Operands)
  BY <1>1, NeedsWithin, PromiseReady
<1>. QED BY <1>1, <1>2, OperandsSpared DEF Rest

Pops   == opd' = opd \/ opd' = Rest
Pushes == \E e : opd' = Append(opd, e) \/ opd' = Append(Rest, e)
Stays  == frames' = frames \/ frames' = Advanced
Opens  == \E g : frames' = Append(Advanced, g)

LEMMA StacksSpared ==
  ASSUME SimInv, Fetching, Pops \/ Pushes, Stays \/ Opens
  PROVE  Untouched
<1>1. PICK h, a, n : h = FuncMarkerPos - 1 /\ a = FuncIndex(frames) /\ n = Len(frames)
  OBVIOUS
<1>2. Spares(opd', opd, h)
  <2>1. /\ Spares(opd, opd, h) /\ Spares(Rest, opd, h)
        /\ \A e : Spares(Append(opd, e), opd, h) /\ Spares(Append(Rest, e), opd, h)
    BY <1>1, RestSpared
  <2>. QED BY <2>1 DEF Pops, Pushes
<1>3. Spares(frames', frames, a - 1)
  <2>1. Active
    BY PromiseReady
  <2>2. ASSUME NEW fs \in {frames, Advanced}
        PROVE  Spares(fs, frames, a - 1) /\ \A g : Spares(Append(fs, g), frames, a - 1)
    BY <1>1, <2>1, FramesSpared
  <2>3. /\ Spares(frames, frames, a - 1) /\ Spares(Advanced, frames, a - 1)
        /\ \A g : Spares(Append(Advanced, g), frames, a - 1)
    BY <2>2
  <2>. QED BY <2>3 DEF Stays, Opens
<1>. QED BY <1>1, <1>2, <1>3 DEF Untouched

\* The handlers that pop operands, push a value, enter a block or trap.
LEMMA HandlersSpare ==
  ASSUME SimInv,
         \/ Absent \/ Const \/ Numeric \/ BitCount \/ Divide
         \/ Load \/ Store \/ MemoryTrap \/ MemorySize \/ MemoryGrow
         \/ Select \/ Nop \/ Unreachable \/ LocalGet \/ GlobalGet \/ GlobalSet
         \/ EnterBlock \/ EnterLoop \/ EnterThen \/ EnterElse
  PROVE  Untouched
<1>1. CASE Absent \/ Nop
  BY <1>1, StacksSpared DEF Absent, Nop, At, Advance, Pops, Stays
<1>2. CASE Const \/ BitCount \/ LocalGet \/ GlobalGet
  BY <1>2, StacksSpared DEF Const, BitCount, LocalGet, GlobalGet, At, Advance, Pushes, Stays
<1>3. CASE Numeric \/ Load \/ Select
  BY <1>3, StacksSpared DEF Numeric, Load, Select, At, Advance, Pushes, Stays
<1>4. CASE Divide \/ MemorySize
  BY <1>4, StacksSpared DEF Divide, MemorySize, At, Advance, Die, Pops, Pushes, Stays
<1>5. CASE Store \/ GlobalSet
  BY <1>5, StacksSpared DEF Store, GlobalSet, At, Advance, Pops, Stays
<1>6. CASE MemoryTrap \/ MemoryGrow \/ Unreachable
  BY <1>6, StacksSpared DEF MemoryTrap, MemoryGrow, Unreachable, Trap, At, Pops, Stays
<1>7. CASE EnterBlock \/ EnterLoop \/ EnterThen
  BY <1>7, StacksSpared DEF EnterBlock, EnterLoop, EnterThen, Open, At, Pushes, Opens
<1>8. CASE EnterElse
  BY <1>8, StacksSpared DEF EnterElse, Open, At, Advance, Pushes, Opens, Stays
<1>. QED BY <1>1, <1>2, <1>3, <1>4, <1>5, <1>6, <1>7, <1>8

LEMMA DropSpares ==
  ASSUME SimInv, Drop
  PROVE  Untouched
<1>1. Fetching /\ Active /\ Len(SP!Needs(Fetched)) <= Len(SP!Operands) /\ Fetched.op = "drop"
  BY PromiseReady DEF Drop, At
<1>2. SP!Needs(Fetched) = <<SP!TypeAt(1)>>
  BY <1>1 DEF SP!Needs
<1>3. 1 <= Len(SP!Operands)
  BY <1>1, <1>2
<1>4. PICK h, a, n : h = FuncMarkerPos - 1 /\ a = FuncIndex(frames) /\ n = Len(frames)
  OBVIOUS
<1>5. Spares(Dropped(opd, 1), opd, h) /\ Spares(opd, opd, h)
  BY <1>1, <1>3, <1>4, OperandsSpared
<1>6. Spares(Advanced, frames, a - 1)
  BY <1>1, <1>4, FramesSpared
<1>7. (opd' = Dropped(opd, 1) \/ opd' = opd) /\ frames' = Advanced
  BY DEF Drop, Advance
<1>. QED BY <1>4, <1>5, <1>6, <1>7 DEF Untouched

LEMMA LocalSetSpares ==
  ASSUME SimInv, LocalSet
  PROVE  Untouched
<1>1. Fetching /\ Active
  BY PromiseReady DEF LocalSet, At
<1>2. PICK h, a, n, f : /\ h = FuncMarkerPos - 1 /\ a = FuncIndex(frames) /\ n = Len(frames)
                        /\ f = [Advanced[a] EXCEPT !.locals[Fetched.idx + 1] = Popped(opd, 1)]
  OBVIOUS
<1>3. Spares(opd', opd, h)
  <2>1. Spares(opd, opd, h) /\ Spares(Rest, opd, h)
    BY <1>1, <1>2, RestSpared
  <2>. QED BY <2>1 DEF LocalSet
<1>4. /\ a \in 1..Len(Advanced) /\ a - 1 \in Nat /\ a - 1 < a /\ Advanced \in Seq(FrameSet(prog))
      /\ Spares(Advanced, frames, a - 1)
  <2>1. /\ a \in 1..n /\ a - 1 \in Nat /\ n \in Nat /\ Advanced \in Seq(FrameSet(prog))
        /\ Len(Advanced) = n /\ Spares(Advanced, frames, a - 1)
    BY <1>1, <1>2, FramesSpared
  <2>. QED BY <2>1
<1>5. Spares([Advanced EXCEPT ![a] = f], frames, a - 1)
  BY <1>4, SparesExcept
<1>6. frames' = [Advanced EXCEPT ![a] = f]
  BY <1>2 DEF LocalSet
<1>. QED BY <1>2, <1>3, <1>5, <1>6 DEF Untouched

LEMMA EnterSpares ==
  ASSUME SimInv, Fetching, NEW d \in Nat, d <= Len(SP!Operands),
         NEW s, s = Dropped(opd, d), NEW o, o = Dropped(SP!Operands, d),
         NEW k \in 1..Len(prog.funcs), NEW f, f = prog.funcs[k], Holds(o, f.t1), Enter(f, s)
  PROVE  Untouched
<1>1. Active
  BY PromiseReady
<1>2. PICK h, a, n, c, g : /\ h = FuncMarkerPos - 1 /\ a = FuncIndex(frames) /\ n = Len(frames)
                           /\ c = Len(f.t1) /\ g = FuncFrame(f, Kept(s, c))
  OBVIOUS
<1>3. f.t1 \in Seq(AnyType)
  BY FuncRead, EmptySeq DEF SimInv
<1>4. Holds(s, f.t1) /\ c \in Nat /\ c <= Len(o)
  BY <1>1, <1>2, <1>3, MiddleTop
<1>5. frames' = Append(Advanced, g) /\ opd' = Append(Dropped(s, c), FuncMarker)
  BY <1>2, <1>4 DEF Enter
<1>6. Spares(Dropped(s, c), opd, h) /\ Dropped(s, c) \in Seq(Entries)
  BY <1>1, <1>2, <1>4, SparedTwice
<1>7. h \in Nat
  BY <1>1, <1>2, OperandsSpared
<1>8. Spares(opd', opd, h)
  BY <1>5, <1>6, <1>7, SparesAppend
<1>9. Spares(Append(Advanced, g), frames, a - 1)
  BY <1>1, <1>2, FramesSpared
<1>. QED BY <1>2, <1>5, <1>8, <1>9 DEF Untouched

LEMMA CallSpares ==
  ASSUME SimInv, Call
  PROVE  Untouched
<1>1. Fetching /\ Active /\ Fetched.op = "call"
  BY PromiseAt DEF Call
<1>2. PICK k, f : k = Fetched.func + 1 /\ f = prog.funcs[k]
  OBVIOUS
<1>3. k \in 1..Len(prog.funcs) /\ SP!Needs(Fetched) = f.t1
  <2>1. SP!IInv /\ SP!Fetching /\ SP!Fetched = Fetched
    BY <1>1, PromiseReady, Seen DEF SimInv
  <2>. QED BY <1>1, <1>2, <2>1, ProgramsValid, CodeAssumption, SP!CallTurned
<1>4. PICK s, o, d : s = Dropped(opd, d) /\ o = Dropped(SP!Operands, d) /\ d = 0
  OBVIOUS
<1>5. d \in Nat /\ d <= Len(SP!Operands) /\ s = opd /\ o = SP!Operands
  <2>1. SP!Operands \in Seq(Values) /\ opd \in Seq(Entries)
    BY <1>1, Facing, StackHere
  <2>2. Len(SP!Operands) \in Nat
    BY <2>1
  <2>. QED BY <1>4, <2>1, <2>2, DroppedNone
<1>6. Holds(o, f.t1)
  BY <1>1, <1>3, <1>5, PromiseReady
<1>7. Enter(f, s)
  BY <1>2, <1>5 DEF Call
<1>. QED BY <1>1, <1>2, <1>3, <1>4, <1>5, <1>6, <1>7, EnterSpares

LEMMA CallIndirectSpares ==
  ASSUME SimInv, CallIndirect
  PROVE  Untouched
<1>1. Fetching /\ Active /\ Fetched.op = "call_indirect"
  BY PromiseAt DEF CallIndirect
<1>2. Fetched.t1 \in Seq(AnyType)
  <2>1. Fetched \in Instr(Blocks(prog))
    BY <1>1, HandledHere
  <2>. QED BY <1>1, <2>1 DEF Instr, ValueTypes, AnyType
<1>3. Holds(SP!Operands, Append(Fetched.t1, "i32")) /\ SP!Operands \in Seq(Values)
  <2>1. SP!Needs(Fetched) = Append(Fetched.t1, "i32")
    BY <1>1 DEF SP!Needs
  <2>. QED BY <1>1, <2>1, PromiseReady, Facing
<1>4. PICK o, s, d : d = 1 /\ o = Dropped(SP!Operands, d) /\ s = Dropped(opd, d)
  OBVIOUS
<1>5. d \in Nat /\ d # 0 /\ d <= Len(SP!Operands) /\ Holds(o, Fetched.t1)
  BY <1>2, <1>3, <1>4, HoldsBelow
<1>6. PICK v : v = Popped(opd, 1).val
  OBVIOUS
<1>7. v \in Nat
  <2>1. Popped(opd, 1) \in Values
    BY <1>1, <1>4, <1>5, SamePopped
  <2>. QED BY <1>6, <2>1, CodeAssumption DEF Values
<1>8. Rest = s
  <2>1. Needs(Fetched) = <<"i32">>
    BY <1>1 DEF Needs
  <2>. QED BY <1>4, <2>1 DEF Rest
<1>9. CASE \E code : Trap(code)
  BY <1>1, <1>9, StacksSpared DEF Trap, Pops, Stays
<1>10. CASE ~\E code : Trap(code)
  <2>1. /\ ~(v >= Len(prog.table)) /\ prog.table[v + 1].initialized
        /\ ~(prog.table[v + 1].func >= Len(prog.funcs))
        /\ Enter(prog.funcs[prog.table[v + 1].func + 1], s)
    BY <1>6, <1>8, <1>10 DEF CallIndirect
  <2>2. prog.table \in Seq([initialized : BOOLEAN, func : Nat]) /\ Len(prog.funcs) \in Nat
    <3>1. IsProgram(prog)
      BY CodeAssumption DEF SimInv, IInv
    <3>. QED BY <3>1 DEF IsProgram
  <2>3. v + 1 \in 1..Len(prog.table)
    BY <1>7, <2>1, <2>2
  <2>4. PICK m, f : m = prog.table[v + 1].func /\ f = prog.funcs[m + 1]
    OBVIOUS
  <2>5. m \in Nat /\ m + 1 \in 1..Len(prog.funcs)
    <3>1. prog.table[v + 1] \in [initialized : BOOLEAN, func : Nat]
      BY <2>2, <2>3, ElementOfSeq
    <3>2. m \in Nat /\ ~(m >= Len(prog.funcs))
      BY <2>1, <2>4, <3>1
    <3>. QED BY <2>2, <3>2
  <2>6. f.t1 = Fetched.t1
    BY <1>1, <2>1, <2>3, <2>4, HandledHere
  <2>7. Enter(f, s) /\ Holds(o, f.t1)
    BY <1>5, <2>1, <2>4, <2>6
  <2>. QED BY <1>1, <1>4, <1>5, <2>4, <2>5, <2>7, EnterSpares
<1>. QED BY <1>9, <1>10

\* The end of a frame, and return.
LEMMA UnwoundSpares ==
  ASSUME SimInv, Active, NEW j \in 1..Len(frames), j >= FuncIndex(frames),
         NEW x, x = MarkerOf(frames[j].context),
         \A k \in j + 1..Len(frames) : MarkerOf(frames[k].context) # x,
         NEW res \in Seq(AnyType), Holds(SP!Operands, res),
         opd' = Unwound(res, x), frames' = Upto(frames, j - 1)
  PROVE  Untouched
<1>1. PICK h, a, n, c, o, t, vs :
        /\ h = FuncMarkerPos - 1 /\ a = FuncIndex(frames) /\ n = Len(frames) /\ c = Len(res)
        /\ o = Contexts[n].operands /\ t = BelowTopmost(Dropped(opd, c), x) /\ vs = Kept(opd, c)
  OBVIOUS
<1>2. /\ Sim(prog, frames, opd, Contexts, Left) /\ n # 0 /\ n \in Nat /\ SP!Operands = o
  BY <1>1, Facing
<1>3. /\ c \in Nat /\ c <= Len(o)
      /\ \A i \in Nat : i <= Len(o) => Kept(opd, i) = Kept(o, i) /\ Kept(opd, i) \in Seq(Values)
  BY <1>1, <1>2, SimTop
<1>4. vs \in Seq(Values)
  BY <1>1, <1>3
<1>5. h \in Nat
  BY <1>1, <1>2, <1>3, OperandsSpared
<1>6. h = Topmost(opd, "function") - 1 /\ Activated(frames, a) /\ TopmostOf(frames, j, x) /\ j >= a
  BY <1>1, ActivatedHere DEF FuncMarkerPos, TopmostOf
<1>7. Spares(t, opd, h)
  BY <1>1, <1>2, <1>3, <1>6, SimCallers
<1>8. t \in Seq(Entries)
  <2>1. /\ n = Len(frames) /\ c <= Len(Contexts[n].operands) /\ j \in 1..n
        /\ MarkerOf(frames[j].context) = x /\ \A k \in j + 1..n : MarkerOf(frames[k].context) # x
    BY <1>1, <1>3
  <2>2. Sim(prog, Upto(frames, j - 1), t, Upto(Contexts, j - 1), Left)
    BY <1>1, <1>2, <1>3, <2>1, SimBelowTopmost
  <2>. QED BY <2>2, SimParts
<1>9. Spares(opd', opd, h)
  <2>1. opd' = t \o vs
    BY <1>1 DEF Unwound
  <2>2. vs \in Seq(Entries)
    BY <1>4, ValuesAreEntries
  <2>. QED BY <1>5, <1>7, <1>8, <2>1, <2>2, SparesConcat
<1>10. Spares(frames', frames, a - 1)
  <2>1. PICK m : m = j - 1
    OBVIOUS
  <2>2. a \in 1..n
    BY <1>1, FramesSpared
  <2>3. m \in 0..n /\ a - 1 <= m
    BY <1>1, <1>2, <2>1, <2>2
  <2>4. Spares(SubSeq(frames, 1, m), frames, a - 1)
    BY <1>1, <2>3, FramesSpared
  <2>. QED BY <2>1, <2>4 DEF Upto
<1>. QED BY <1>1, <1>9, <1>10 DEF Untouched

LEMMA FrameEndSpares ==
  ASSUME SimInv, FrameEnd
  PROVE  Untouched
<1>1. PICK n, x, res : n = Len(frames) /\ x = MarkerOf(Top.context) /\ res = Carries(Top)
  OBVIOUS
<1>2. /\ Active /\ n \in 1..Len(frames) /\ x = MarkerOf(frames[n].context)
      /\ \A k \in n + 1..Len(frames) : MarkerOf(frames[k].context) # x
      /\ res \in Seq(AnyType) /\ Holds(SP!Operands, res)
      /\ opd' = Unwound(res, x) /\ frames' = Upto(frames, n - 1)
  BY <1>1, FrameEndUnwinds
<1>3. n >= FuncIndex(frames)
  <2>1. FuncIndex(frames) \in 1..n /\ n \in Nat
    BY <1>1, <1>2, FramesSpared
  <2>. QED BY <2>1
<1>. QED BY <1>2, <1>3, UnwoundSpares

LEMMA ReturnSpares ==
  ASSUME SimInv, Return
  PROVE  Untouched
<1>1. PICK a, x, res : a = FuncIndex(frames) /\ x = "function" /\ res = Carries(CurrentFunc)
  OBVIOUS
<1>2. /\ Active /\ a \in 1..Len(frames) /\ x = MarkerOf(frames[a].context)
      /\ \A k \in a + 1..Len(frames) : MarkerOf(frames[k].context) # x
      /\ res \in Seq(AnyType) /\ Holds(SP!Operands, res)
      /\ opd' = Unwound(res, x) /\ frames' = Upto(frames, a - 1)
  BY <1>1, ReturnUnwinds
<1>3. a >= FuncIndex(frames)
  <2>1. a \in Nat
    BY <1>2
  <2>. QED BY <1>1, <2>1
<1>. QED BY <1>2, <1>3, UnwoundSpares

\* A branch goes no further than to the running activation.
LEMMA BranchSpares ==
  ASSUME SimInv, Fetching, Fetched.op \in {"br", "br_if", "br_table"},
         NEW l, l \in SP!Labels(Fetched), Branch(l, Rest), prog' = prog, globals' = globals
  PROVE  Untouched
<1>1. Active /\ SP!Fetched = Fetched /\ SP!IInv /\ SP!Fetching /\ Needs(Fetched) = SP!Needs(Fetched)
  <2>1. Active /\ SP!Fetching
    BY PromiseReady
  <2>. QED BY <2>1, Seen, SameNeeds DEF SimInv, Alike
<1>2. PICK n, d, s, o, t, res, c, h, a :
        /\ n = Len(frames) /\ d = Len(SP!Needs(Fetched)) /\ s = Rest /\ o = SP!Rest
        /\ t = n - l /\ res = SP!Carried(l) /\ c = Len(res)
        /\ h = FuncMarkerPos - 1 /\ a = FuncIndex(frames)
  OBVIOUS
<1>3. n \in Nat /\ n # 0 /\ SP!Depth = n
  BY <1>1, <1>2, Facing
<1>4. d \in Nat /\ d <= Len(SP!Operands) /\ s = Dropped(opd, d) /\ o = Dropped(SP!Operands, d)
  <2>1. d \in Nat /\ d <= Len(SP!Operands)
    BY <1>2, PromiseReady
  <2>2. SP!Rest = Dropped(SP!Operands, d)
    BY <1>1, <1>2, SameStack DEF SP!Rest
  <2>. QED BY <1>1, <1>2, <2>1, <2>2 DEF Rest
<1>5. l \in Nat /\ t \in 1..n /\ SP!Holds(o, res) /\ SP!IsLabel(l)
  <2>1. SP!Fetched.op \in {"br", "br_if", "br_table"} /\ l \in SP!Labels(SP!Fetched)
    BY <1>1
  <2>2. /\ l \in Nat /\ SP!Depth - l \in 1..SP!Depth /\ SP!Holds(SP!Rest, SP!Carried(l))
        /\ SP!IsLabel(l)
    BY <1>1, <2>1, ProgramsValid, CodeAssumption, SP!TargetType
  <2>. QED BY <1>2, <1>3, <2>2
<1>6. a \in 1..n /\ a <= t
  <2>1. SP!Activation = a /\ a \in 1..n
    BY <1>1, <1>2, Seen
  <2>2. SP!Activation <= SP!Depth - l
    BY <1>5 DEF SP!IsLabel
  <2>. QED BY <1>2, <1>3, <2>1, <2>2
<1>7. Carries(Advanced[t]) = res /\ Advanced[t] \in FrameSet(prog)
  BY <1>1, <1>2, <1>5, TargetRead
<1>8. /\ o \in Seq(Values) /\ c \in Nat /\ c <= Len(o) /\ Holds(s, res)
      /\ Kept(s, c) \in Seq(Values)
  <2>1. res \in Seq(AnyType)
    BY <1>7, CarriesType, FrameIsFrameSet
  <2>2. Holds(o, res)
    BY <1>5, SameStack
  <2>3. /\ o \in Seq(Values) /\ Holds(s, res) /\ Len(res) \in Nat /\ Len(res) <= Len(o)
        /\ \A i \in Nat : i <= Len(o) => Kept(s, i) \in Seq(Values)
    BY <1>1, <1>4, <2>1, <2>2, MiddleTop
  <2>. QED BY <1>2, <2>3
<1>9. PICK body, b, w, vs : /\ body = Dropped(s, c) /\ b = BelowMarkers(body, l + 1)
                            /\ w = MarkerAgain(Advanced[t]) /\ vs = Kept(s, c)
  OBVIOUS
<1>10. Running'
  BY BranchFollows
<1>11. Len(Advanced) = n /\ Len(Advanced) - l = t
  <2>1. Len(Advanced) = n
    BY <1>1, <1>2, FramesSpared
  <2>. QED BY <1>2, <2>1
<1>12. /\ ~(MarkerCount(body) <= l)
       /\ frames' = FramesAfterBranch(l) /\ opd' = b \o w \o vs
  <2>1. ~(l >= Len(Advanced))
    BY <1>2, <1>3, <1>5, <1>11
  <2>2. \A code : ~Raise(code)
    BY <1>10 DEF Raise, Running
  <2>3. IF MarkerCount(body) <= l
        THEN Raise("VECTOR_EXCEPTION")
        ELSE frames' = FramesAfterBranch(l) /\ opd' = b \o w \o vs
    BY <1>2, <1>7, <1>8, <1>9, <1>11, <2>1 DEF Branch
  <2>. QED BY <2>2, <2>3
<1>13. Spares(b, opd, h) /\ body \in Seq(Entries) /\ h \in Nat
  <2>1. /\ body \in Seq(Entries)
        /\ \A j \in a..n : Spares(BelowMarkers(body, n - j + 1), opd, h)
    BY <1>1, <1>2, <1>4, <1>8, <1>9, SparedTwice
  <2>2. t \in a..n /\ n - t + 1 = l + 1
    BY <1>2, <1>3, <1>5, <1>6
  <2>3. h \in Nat
    BY <1>1, <1>2, <1>4, OperandsSpared
  <2>. QED BY <1>9, <2>1, <2>2, <2>3
<1>14. b \in Seq(Entries) /\ w \in Seq(Entries) /\ vs \in Seq(Entries)
  <2>1. PICK i : i = l + 1
    OBVIOUS
  <2>2. i \in 1..MarkerCount(body)
    <3>1. MarkerCount(body) \in Nat
      BY <1>13, RankType
    <3>. QED BY <1>5, <1>12, <2>1, <3>1
  <2>3. b \in Seq(Entries)
    BY <1>9, <1>13, <2>1, <2>2, BelowMarkersType
  <2>4. w \in Seq(Entries)
    <3>1. w = << >> \/ w = <<LabelMarker>>
      BY <1>9 DEF MarkerAgain
    <3>2. PICK e : e = LabelMarker
      OBVIOUS
    <3>3. e \in Entries /\ (w = << >> \/ w = <<e>>)
      BY <3>1, <3>2 DEF Entries
    <3>4. <<e>> \in Seq(Entries)
      BY <3>3
    <3>5. << >> \in Seq(Entries)
      OBVIOUS
    <3>. QED BY <3>3, <3>4, <3>5
  <2>5. vs \in Seq(Entries)
    BY <1>8, <1>9, ValuesAreEntries
  <2>. QED BY <2>3, <2>4, <2>5
<1>15. Spares(opd', opd, h)
  <2>1. PICK u : u = b \o w
    OBVIOUS
  <2>2. u \in Seq(Entries) /\ Spares(u, opd, h)
    BY <1>13, <1>14, <2>1, SparesConcat, ConcatProperties
  <2>3. Spares(u \o vs, opd, h)
    BY <1>13, <1>14, <2>2, SparesConcat
  <2>. QED BY <1>12, <2>1, <2>3
<1>16. Spares(frames', frames, a - 1)
  <2>1. FramesAfterBranch(l) = IF Advanced[t].context = "loop"
                               THEN [SubSeq(Advanced, 1, t) EXCEPT ![t].ip = 0]
                               ELSE SubSeq(Advanced, 1, t - 1)
    BY <1>11 DEF FramesAfterBranch
  <2>2. PICK m, u, e : /\ m = t - 1 /\ u = SubSeq(Advanced, 1, t)
                       /\ e = [SubSeq(Advanced, 1, t)[t] EXCEPT !.ip = 0]
    OBVIOUS
  <2>3. /\ m \in 0..n /\ t \in 0..n /\ a - 1 <= m /\ a - 1 <= t /\ a - 1 < t /\ a - 1 \in Nat
        /\ t \in 1..t
    BY <1>3, <1>5, <1>6, <2>2
  <2>4. Spares(SubSeq(Advanced, 1, m), frames, a - 1)
    BY <1>1, <1>2, <2>3, FramesSpared
  <2>5. /\ Spares(u, frames, a - 1) /\ u \in Seq(FrameSet(prog)) /\ Len(u) = t
    BY <1>1, <1>2, <2>2, <2>3, FramesSpared
  <2>6. Spares([u EXCEPT ![t] = e], frames, a - 1)
    BY <2>3, <2>5, SparesExcept
  <2>7. frames' = SubSeq(Advanced, 1, m) \/ frames' = [u EXCEPT ![t] = e]
    BY <1>12, <2>1, <2>2
  <2>. QED BY <2>4, <2>6, <2>7
<1>. QED BY <1>2, <1>15, <1>16 DEF Untouched

LEMMA BranchesSpare ==
  ASSUME SimInv, Br \/ BrIf \/ BrTable, BrTableOnce
  PROVE  Untouched
<1>1. CASE Br
  <2>1. Fetching /\ Fetched.op = "br" /\ Fetched.label \in SP!Labels(Fetched)
    BY <1>1, PromiseAt DEF Br, SP!Labels
  <2>2. Branch(Fetched.label, Rest) /\ prog' = prog /\ globals' = globals
    BY <1>1 DEF Br, Keep
  <2>. QED BY <2>1, <2>2, BranchSpares
<1>2. CASE BrIf
  <2>1. Fetching /\ Fetched.op = "br_if" /\ Fetched.label \in SP!Labels(Fetched)
    BY <1>2, PromiseAt DEF BrIf, SP!Labels
  <2>2. CASE Popped(opd, 1).val # 0
    <3>1. Branch(Fetched.label, Rest) /\ prog' = prog /\ globals' = globals
      BY <1>2, <2>2 DEF BrIf, Keep
    <3>. QED BY <2>1, <3>1, BranchSpares
  <2>3. CASE Popped(opd, 1).val = 0
    BY <1>2, <2>1, <2>3, StacksSpared DEF BrIf, Advance, Pops, Stays
  <2>. QED BY <2>2, <2>3
<1>3. CASE BrTable
  <2>1. Fetching /\ Active /\ Fetched.op = "br_table"
    BY <1>3, PromiseAt DEF BrTable
  <2>2. PICK v, l : /\ v = Popped(opd, 1).val
                    /\ l = IF v < Len(Fetched.labels) THEN Fetched.labels[v + 1] ELSE Fetched.default
    OBVIOUS
  <2>3. v \in Nat
    <3>1. Len(SP!Needs(Fetched)) = 1
      BY <2>1 DEF SP!Needs
    <3>2. 1 <= Len(SP!Operands)
      BY <2>1, <3>1, PromiseReady
    <3>3. Popped(opd, 1) \in Values
      BY <2>1, <3>2, SamePopped
    <3>. QED BY <2>2, <3>3, CodeAssumption DEF Values
  <2>4. l \in SP!Labels(Fetched)
    <3>1. Fetched.labels \in Seq(Nat)
      <4>1. Fetched \in Instr(Blocks(prog))
        BY <2>1, HandledHere
      <4>. QED BY <2>1, <4>1 DEF Instr
    <3>2. v < Len(Fetched.labels) => v + 1 \in 1..Len(Fetched.labels)
      BY <2>3, <3>1
    <3>. QED BY <2>1, <2>2, <3>2 DEF SP!Labels
  <2>5. Branch(l, Rest) /\ prog' = prog /\ globals' = globals
    <3>1. Site \notin clobbered
      BY <1>3 DEF BrTable, BrTableOnce
    <3>. QED BY <1>3, <2>2, <3>1 DEF BrTable
  <2>. QED BY <2>1, <2>4, <2>5, BranchSpares
<1>. QED BY <1>1, <1>2, <1>3

LEMMA StepsSpare ==
  ASSUME SimInv, Active, BrTableOnce, Next
  PROVE  Untouched
<1>1. ~BadOperand /\ ~Finish /\ ~StartDone /\ ~Invoke /\ ~InvokeUnknown
  BY Granted DEF BadOperand, Finish, StartDone, Invoke, InvokeUnknown, Active, Running
<1>. QED BY <1>1, HandlersSpare, DropSpares, LocalSetSpares, CallSpares, CallIndirectSpares,
            FrameEndSpares, ReturnSpares, BranchesSpare DEF Next, Step

LEMMA ActivationsSpare ==
  ASSUME SimInv, BrTableOnce, [Next]_vars, Running, frames # << >>
  PROVE  UNCHANGED vars \/ Untouched
  BY StepsSpare DEF Active

----------------------------------------------------------------------------
(* The theorems about valid modules *)

LEMMA SimInductive ==
  ASSUME UninitReads = {{}}, ReuseAfterTrap = FALSE
  PROVE  Spec /\ []BrTableOnce => []SimInv
<1>1. Init => SimInv
  BY InitFollows
<1>2. SimInv /\ BrTableOnce /\ [Next]_vars => SimInv'
  BY EveryStep
<1>. QED BY <1>1, <1>2, PTL DEF Spec

\* The frames and the markers stay in step: a branch, a return or the end of a
\* block that pops the operand stack down to a marker (eval_br, clean_to_label,
\* clean_to_func_marker) finds the marker of the frame it leaves, whatever valid
\* module it runs.
THEOREM StacksInStep ==
  ASSUME UninitReads = {{}}, ReuseAfterTrap = FALSE
  PROVE  Spec /\ []BrTableOnce => []MarkersMatchFrames
<1>1. SimInv => MarkersMatchFrames
  <2>. SUFFICES ASSUME SimInv, Running PROVE MarkersMatchFrames
    BY DEF MarkersMatchFrames
  <2>. QED BY SimContexts DEF SimInv, Agrees, MarkersMatchFrames
<1>. QED BY <1>1, SimInductive, PTL

LEMMA SimMatches ==
  ASSUME SimInv
  PROVE  OperandsMatchTyping /\ LabelsMatchContexts
<1>1. SP!OperandsMatchTyping /\ SP!LabelsMatchContexts
  BY ProgramsValid, CodeAssumption, SP!IInvImplies DEF SimInv
<1>2. /\ S!OperandsMatchTyping <=> SP!OperandsMatchTyping
      /\ S!LabelsMatchContexts <=> SP!LabelsMatchContexts
  BY DEF S!OperandsMatchTyping, SP!OperandsMatchTyping, S!LabelsMatchContexts, SP!LabelsMatchContexts,
     S!Depth, SP!Depth, S!Awaits, SP!Awaits, S!Types, SP!Types, S!TypesOf, SP!TypesOf
<1>. QED BY <1>1, <1>2 DEF OperandsMatchTyping, LabelsMatchContexts

\* Every frame, suspended or not, finds on its part of the operand stack just the
\* operands its next instruction was validated against: what the pops of stack.h
\* assert holds.
THEOREM FramesFindOperands ==
  ASSUME UninitReads = {{}}, ReuseAfterTrap = FALSE
  PROVE  Spec /\ []BrTableOnce => []OperandsMatchTyping
<1>1. SimInv => OperandsMatchTyping
  BY SimMatches
<1>. QED BY <1>1, SimInductive, PTL

\* The labels of a block are the frames below its own, down to its activation:
\* eval_br, which counts frames, unwinds to the frame the label names.
THEOREM LabelsAreFrames ==
  ASSUME UninitReads = {{}}, ReuseAfterTrap = FALSE
  PROVE  Spec /\ []BrTableOnce => []LabelsMatchContexts
<1>1. SimInv => LabelsMatchContexts
  BY SimMatches
<1>. QED BY <1>1, SimInductive, PTL

\* The evaluation loop with its two stacks does for every valid module what the
\* promise allows, step by step: fetch_next_instr, eval_br, eval_call, the handlers
\* and _interpret_function push and pop as if every block had a stack of its own.
THEOREM RunsStructured ==
  ASSUME UninitReads = {{}}, ReuseAfterTrap = FALSE
  PROVE  Spec /\ []BrTableOnce => ImplementsStructured
<1>1. Init => S!Instantiated
  BY InitFollows
<1>2. SimInv /\ BrTableOnce /\ [Next]_vars => [S!Next]_S!vars
  BY EveryStep, SameNext
<1>. QED BY <1>1, <1>2, SimInductive, PTL DEF Spec, ImplementsStructured

\* An activation leaves alone what belongs to its callers, whatever valid module
\* it runs: br, return and the end of a block pop down to a marker of their own
\* activation (eval_br, clean_to_func_marker, clean_to_label), local.set writes
\* into the frame that peek_func_frame finds, and no handler reaches below.
THEOREM CallersSpared ==
  ASSUME UninitReads = {{}}, ReuseAfterTrap = FALSE
  PROVE  Spec /\ []BrTableOnce => CallersUntouched
<1>1. SimInv /\ BrTableOnce /\ [Next]_vars
      => [Running /\ frames # << >> =>
           /\ Len(opd') >= FuncMarkerPos - 1
           /\ \A p \in 1..FuncMarkerPos - 1 : opd'[p] = opd[p]
           /\ Len(frames') >= FuncIndex(frames) - 1
           /\ \A k \in 1..FuncIndex(frames) - 1 : frames'[k] = frames[k]]_vars
  BY ActivationsSpare DEF Untouched, Spares
<1>. QED BY <1>1, SimInductive, PTL DEF Spec, CallersUntouched
=============================================================================
