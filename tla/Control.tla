------------------------------ MODULE Control ------------------------------
(***************************************************************************)
(* The evaluation loop of the interpreter: interpreter.c, control.c and    *)
(* the control, variable and parametric opcode handlers, over the operand  *)
(* stack of stack.h.  Two stacks run in step: one frame per activation or  *)
(* entered block, and on the operand stack one marker per frame, below the *)
(* operands of that frame.  One action per opcode handler, together with   *)
(* the fetch before it; what numeric opcodes and memory accesses compute   *)
(* is any value of the right type.                                         *)
(***************************************************************************)
EXTENDS Code

CONSTANTS
  UninitReads,    \* the sets of typed blocks whose never assigned `empty' flag
                  \* may read as true in the build (next_blocktype)
  ReuseAfterTrap, \* does the host call again after an exception?
  MaxFrames,      \* bound on the depth of the frame stack
  MaxInvocations  \* bound on the calls of interpret_function

ASSUME ControlAssumption ==
  /\ UninitReads # {}
  /\ ReuseAfterTrap \in BOOLEAN
  /\ MaxFrames \in Nat /\ MaxInvocations \in Nat

VARIABLES
  prog,         \* the module, chosen once
  emptyRead,    \* the blocks whose flag reads as true, fixed by the parse
  frames,       \* eval_state->frames, the top last
  opd,          \* eval_state->opd_stack, the top last
  globals,      \* eval_state->globals
  clobbered,    \* the br_table instructions whose label vector was overwritten
  callee,       \* the function interpret_function was asked to run
  mode,         \* "start": in the start function, "idle": in the host,
                \* "run": in interpret_function, "dead": the process is gone
  outcome,      \* how the last run ended
  invocations

vars == <<prog, emptyRead, frames, opd, globals, clobbered, callee, mode, outcome, invocations>>

Exceptions == {"VECTOR_EXCEPTION", "REACHED_OP_UNREACHABLE", "UNINITIALIZED",
               "NO_MEMORY", "MEMORY_ACCESS_OUT_OF_BOUNDS", "INVALID_INSTRUCTION",
               "ONLY_ONE_RETURN_VALUE_ALLOWED", "OPERAND_STACK_NOT_EMPTY", "NOT_FOUND"}
Deaths     == {"assertion", "unhandled", "segfault", "arithmetic"}
Outcomes   == {"none", "returned"} \cup Exceptions \cup Deaths

----------------------------------------------------------------------------
(* Frames *)

Frame == [instrs : Blocks(prog), ip : Nat, arity : Nat, result_type : AnyType,
          context : {"function", "control", "loop"}, locals : Seq(Values)]

Top == frames[Len(frames)]

\* The results a branch to a frame, or its end, carries over: at most one.
Carries(frame) == IF frame.arity > 0 THEN <<frame.result_type>> ELSE << >>

\* A block taken for a loop.
LoopFrame(body, rt, context) ==
  [instrs |-> body, ip |-> 0, arity |-> IF rt = << >> \/ body \in emptyRead THEN 0 ELSE 1,
   result_type |-> IF rt = << >> THEN "unknown" ELSE rt[1],
   context |-> "loop", locals |-> << >>]

\* The frame a block opens.  arity tests the flag that the parser sets for an
\* empty block type only; for the others it reads what the stack held.
BlockFrame(body, rt, context) ==
  [instrs |-> body, ip |-> 0, arity |-> IF rt = << >> \/ body \in emptyRead THEN 0 ELSE 1,
   result_type |-> IF rt = << >> THEN "unknown" ELSE rt[1],
   context |-> context, locals |-> << >>]

\* Arguments stored in the order they are popped.
FuncFrameReversed(f, args) ==
  [instrs |-> f.body, ip |-> 0, arity |-> Len(f.t2),
   result_type |-> IF f.t2 = << >> THEN "unknown" ELSE f.t2[1], context |-> "function",
   locals |-> [k \in 1..Len(args) |-> args[Len(args) - k + 1]]
                \o [k \in 1..Len(f.locals) |-> Value(f.locals[k], 0)]]

\* The frame of an activation: the arguments, then the declared locals, zeroed.
FuncFrame(f, args) ==
  [instrs |-> f.body, ip |-> 0, arity |-> Len(f.t2),
   result_type |-> IF f.t2 = << >> THEN "unknown" ELSE f.t2[1], context |-> "function",
   locals |-> args \o [k \in 1..Len(f.locals) |-> Value(f.locals[k], 0)]]

\* The frame of a call that found too few operands on the stack s: its locals
\* are the arguments popped so far, above entries that were never set.
PartialFrame(f, s) ==
  [FuncFrame(f, << >>) EXCEPT
     !.locals = IF s = << >> THEN << >>
                ELSE [k \in 1..Len(f.t1) - Len(s) |-> Value("unknown", 0)] \o s]

\* The top frame taken for the activation.
TopIndex(fs) == Len(fs)

\* peek_func_frame: the activation the top frame belongs to.
FuncIndex(fs) == CHOOSE k \in 1..Len(fs) : /\ fs[k].context = "function"
                                           /\ \A j \in k + 1..Len(fs) : fs[j].context # "function"

CurrentFunc == frames[FuncIndex(frames)]

----------------------------------------------------------------------------
(* How a step leaves the loop *)

Running == mode \in {"start", "run"}

\* What no handler but global.set and br_table touches.
Keep == UNCHANGED <<prog, emptyRead, globals, clobbered, callee, invocations>>

\* The evaluation loop goes on.
Proceed == UNCHANGED <<mode, outcome>>

\* THROW_EXCEPTION: caught by the TRY_CATCH of interpret_function; the start
\* function runs outside of it, and there the throw aborts.
Raise(code) ==
  IF mode = "run" THEN mode' = "idle" /\ outcome' = code
                  ELSE mode' = "dead" /\ outcome' = "unhandled"

Die(cause) == mode' = "dead" /\ outcome' = cause /\ UNCHANGED <<frames, opd>>

\* A pop of types ts off the stack s that does not find them, with fs the frames
\* so far: the stack is popped bare before the vector raises.
PopFails(s, ts, fs) ==
  IF Mismatch(s, ts) THEN Die("assertion")
  ELSE frames' = fs /\ opd' = << >> /\ Raise("VECTOR_EXCEPTION")

----------------------------------------------------------------------------
(* The fetch *)

AtEnd == Top.ip >= Len(prog.code[Top.instrs])

\* fetch_next_instr increments ip before the handler runs.
Fetching == Running /\ frames # << >> /\ ~AtEnd
Fetched  == prog.code[Top.instrs][Top.ip + 1]
Advanced == [frames EXCEPT ![Len(frames)].ip = @ + 1]

\* The handler leaves the frames alone.
Advance == frames' = Advanced /\ Proceed

----------------------------------------------------------------------------
(* The end of a frame: fetch_next_instr with clean_to_func_marker and       *)
(* clean_to_label                                                          *)

\* The result forgotten.
UnwoundBare(res, m) == BelowTopmost(Dropped(opd, Len(res)), m)

CanUnwind(res, m) == Holds(opd, res) /\ HasMarker(Dropped(opd, Len(res)), m)
Unwound(res, m)   == BelowTopmost(Dropped(opd, Len(res)), m) \o Kept(opd, Len(res))

FrameEnd ==
  LET m == IF Top.context = "function" THEN "function" ELSE "label"
  IN  /\ Running /\ frames # << >> /\ AtEnd
      /\ IF CanUnwind(Carries(Top), m)
         THEN /\ opd' = Unwound(Carries(Top), m)
              /\ frames' = SubSeq(frames, 1, Len(frames) - 1)
              /\ Proceed
         ELSE PopFails(opd, Carries(Top), frames)
      /\ Keep

----------------------------------------------------------------------------
(* What the handlers look up and pop before they do anything else *)

SelectType == IF Len(opd) >= 2 /\ ~IsMarker(Popped(opd, 2)) THEN Popped(opd, 2).valtype
              ELSE "unknown"

Present(i) ==
  CASE i.op \in {"local.get", "local.set", "local.tee"} -> i.idx < Len(CurrentFunc.locals)
    [] i.op \in {"global.get", "global.set"} -> i.idx < Len(globals)
    [] i.op = "call" -> i.func < Len(prog.funcs)
    [] i.op \in {"load", "store"} -> prog.memory
    [] OTHER -> TRUE

Needs(i) ==
  CASE i.op = "numeric" -> i.pops
    [] i.op = "bitcount" -> <<i.t>>
    [] i.op = "divide" -> <<i.t, i.t>>
    [] i.op = "store" -> <<"i32", i.t>>
    [] i.op \in {"load", "if", "br_if", "br_table", "call_indirect"} -> <<"i32">>
    [] i.op = "select" -> <<SelectType, SelectType, "i32">>
    [] i.op \in {"local.set", "local.tee"} -> <<CurrentFunc.locals[i.idx + 1].valtype>>
    [] i.op = "global.set" -> <<globals[i.idx + 1].valtype>>
    [] OTHER -> << >>

\* A load or a store raises without a memory, vec_..._getp on an index the module
\* does not have.
Absent == /\ Fetching /\ ~Present(Fetched)
          /\ frames' = Advanced /\ UNCHANGED opd
          /\ Raise(IF Fetched.op \in {"load", "store"} THEN "NO_MEMORY" ELSE "VECTOR_EXCEPTION")
          /\ Keep

\* An operand is missing or of another type.
BadOperand == /\ Fetching /\ Present(Fetched) /\ ~Holds(opd, Needs(Fetched))
              /\ PopFails(opd, Needs(Fetched), Advanced) /\ Keep

\* A handler of one of these opcodes finds its operands; rest is the stack
\* without them.
At(ops) == Fetching /\ Fetched.op \in ops /\ Present(Fetched) /\ Holds(opd, Needs(Fetched))
Rest    == Dropped(opd, Len(Needs(Fetched)))

\* The handler raises after it has popped them.
Trap(code) == opd' = Rest /\ frames' = Advanced /\ Raise(code) /\ Keep

----------------------------------------------------------------------------
(* Numeric, memory and parametric opcodes *)

Const == /\ At({"const"})
         /\ opd' = Append(opd, Value(Fetched.t, Fetched.v))
         /\ Advance /\ Keep

Numeric == /\ At({"numeric"})
           /\ \E v \in Val : opd' = Append(Rest, Value(Fetched.push, v))
           /\ Advance /\ Keep

\* clz, ctz and popcnt peek at their operand and push the result above it.
BitCount == /\ At({"bitcount"})
            /\ \E v \in Val : opd' = Append(opd, Value(Fetched.t, v))
            /\ Advance /\ Keep

\* Nothing looks at the divisor: zero, and the one quotient that does not fit,
\* end the process.
Divide == /\ At({"divide"})
          /\ \/ /\ Popped(opd, 1).val # 0
                /\ \E v \in Val : opd' = Append(Rest, Value(Fetched.t, v))
                /\ Advance
             \/ Die("arithmetic")
          /\ Keep

Load == /\ At({"load"})
        /\ \E v \in Val : opd' = Append(Rest, Value(Fetched.t, v))
        /\ Advance /\ Keep

Store == /\ At({"store"})
         /\ opd' = Rest
         /\ Advance /\ Keep

\* calculate_address raises after it has popped the address.
MemoryTrap == At({"load", "store"}) /\ Trap("MEMORY_ACCESS_OUT_OF_BOUNDS")

\* memory.size looks into the memory without asking whether there is one.
MemorySize == /\ At({"memory.size"})
              /\ IF prog.memory
                 THEN (\E v \in Val : opd' = Append(opd, Value("i32", v))) /\ Advance
                 ELSE Die("segfault")
              /\ Keep

\* memory.grow, and every opcode that has no handler.
MemoryGrow == At({"memory.grow"}) /\ Trap("INVALID_INSTRUCTION")

\* drop asserts nothing of the entry it pops.
Drop == /\ At({"drop"})
        /\ IF opd # << >>
           THEN opd' = Dropped(opd, 1) /\ Advance
           ELSE frames' = Advanced /\ UNCHANGED opd /\ Raise("VECTOR_EXCEPTION")
        /\ Keep

Select == /\ At({"select"})
          /\ opd' = Append(Rest, IF Popped(opd, 1).val # 0 THEN Popped(opd, 3) ELSE Popped(opd, 2))
          /\ Advance /\ Keep

Nop == At({"nop"}) /\ UNCHANGED opd /\ Advance /\ Keep

Unreachable == At({"unreachable"}) /\ Trap("REACHED_OP_UNREACHABLE")

----------------------------------------------------------------------------
(* Variables *)

LocalGet == /\ At({"local.get"})
            /\ opd' = Append(opd, CurrentFunc.locals[Fetched.idx + 1])
            /\ Advance /\ Keep

\* local.set pops what it stores, local.tee leaves it.
LocalSet == /\ At({"local.set", "local.tee"})
            /\ frames' = [Advanced EXCEPT ![FuncIndex(frames)].locals[Fetched.idx + 1] =
                            Popped(opd, 1)]
            /\ opd' = IF Fetched.op = "local.set" THEN Rest ELSE opd
            /\ Proceed /\ Keep

GlobalGet == /\ At({"global.get"})
             /\ opd' = Append(opd, globals[Fetched.idx + 1])
             /\ Advance /\ Keep

GlobalSet == /\ At({"global.set"})
             /\ globals' = [globals EXCEPT ![Fetched.idx + 1] = Popped(opd, 1)]
             /\ opd' = Rest
             /\ Advance
             /\ UNCHANGED <<prog, emptyRead, clobbered, callee, invocations>>

----------------------------------------------------------------------------
(* Blocks *)

Open(body, context, s) ==
  /\ opd' = Append(s, LabelMarker)
  /\ frames' = Append(Advanced, BlockFrame(body, Fetched.rt, context))
  /\ Proceed /\ Keep

EnterBlock == At({"block"}) /\ Open(Fetched.body, "control", Rest)
EnterLoop  == At({"loop"}) /\ Open(Fetched.body, "loop", Rest)

EnterThen == At({"if"}) /\ Popped(opd, 1).val # 0 /\ Open(Fetched.then, "control", Rest)

\* The marker is pushed before the path is chosen: an if without an else that
\* is not taken leaves a marker no frame goes with.
EnterElse == /\ At({"if"}) /\ Popped(opd, 1).val = 0
             /\ IF Fetched.else # NoBlock THEN Open(Fetched.else, "control", Rest)
                ELSE opd' = Append(Rest, LabelMarker) /\ Advance /\ Keep

----------------------------------------------------------------------------
(* Branches *)

\* What could go wrong here.  The target goes, but not the frame that branches;
\* a restarted loop begins before, or after, its first instruction, or gets no
\* marker of its own.
FramesAfterKeepingTop(l) == Append(SubSeq(Advanced, 1, Len(Advanced) - l - 1), Top)
FramesRestarting(l, ip) ==
  LET t == Len(Advanced) - l
  IN  IF Advanced[t].context = "loop" THEN [SubSeq(Advanced, 1, t) EXCEPT ![t].ip = ip]
      ELSE SubSeq(Advanced, 1, t - 1)
FramesBeforeFirst(l) == FramesRestarting(l, 0 - 1)
FramesAfterFirst(l)  == FramesRestarting(l, 1)
NoMarkerAgain(frame) == << >>

\* A loop that is branched to gets its marker back.
MarkerAgain(frame) == IF frame.context = "loop" THEN <<LabelMarker>> ELSE << >>

\* The frames a branch to label l leaves: the target and all above it go, but a
\* loop stays and restarts.
FramesAfterBranch(l) ==
  LET t == Len(Advanced) - l
  IN  IF Advanced[t].context = "loop" THEN [SubSeq(Advanced, 1, t) EXCEPT ![t].ip = 0]
      ELSE SubSeq(Advanced, 1, t - 1)

\* eval_br with s on the operand stack.  The target's result is popped, also
\* when the target is a loop; then one marker goes per frame unwound.
Branch(l, s) ==
  LET t    == Len(Advanced) - l
      res  == Carries(Advanced[t])
      body == Dropped(s, Len(res))
  IN  IF l >= Len(Advanced)
      THEN frames' = Advanced /\ opd' = s /\ Raise("VECTOR_EXCEPTION")
      ELSE IF ~Holds(s, res)
      THEN PopFails(s, res, Advanced)
      ELSE IF MarkerCount(body) <= l
      THEN /\ frames' = SubSeq(Advanced, 1, Len(Advanced) - MarkerCount(body))
           /\ opd' = << >>
           /\ Raise("VECTOR_EXCEPTION")
      ELSE /\ frames' = FramesAfterBranch(l)
           /\ opd' = BelowMarkers(body, l + 1) \o MarkerAgain(Advanced[t]) \o Kept(s, Len(res))
           /\ Proceed

Br == At({"br"}) /\ Branch(Fetched.label, Rest) /\ Keep

BrIf == /\ At({"br_if"})
        /\ IF Popped(opd, 1).val # 0 THEN Branch(Fetched.label, Rest)
           ELSE opd' = Rest /\ Advance
        /\ Keep

Site == <<Top.instrs, Top.ip>>

\* The chosen label is stored in the instruction, over the pointer to its
\* labels; the next execution follows what is left of that pointer.
BrTable ==
  /\ At({"br_table"})
  /\ clobbered' = clobbered \cup {Site}
  /\ UNCHANGED <<prog, emptyRead, globals, callee, invocations>>
  /\ IF Site \in clobbered THEN Die("segfault")
     ELSE LET v == Popped(opd, 1).val
              l == IF v < Len(Fetched.labels) THEN Fetched.labels[v + 1] ELSE Fetched.default
          IN  Branch(l, Rest)

\* Frames popped past the activation.
ReturnWithoutBreak ==
  /\ At({"return"})
  /\ IF CanUnwind(Carries(CurrentFunc), "function")
     THEN /\ opd' = Unwound(Carries(CurrentFunc), "function")
          /\ frames' = << >>
          /\ Proceed
     ELSE PopFails(opd, Carries(CurrentFunc), Advanced)
  /\ Keep

Return ==
  /\ At({"return"})
  /\ IF CanUnwind(Carries(CurrentFunc), "function")
     THEN /\ opd' = Unwound(Carries(CurrentFunc), "function")
          /\ frames' = SubSeq(frames, 1, FuncIndex(frames) - 1)
          /\ Proceed
     ELSE PopFails(opd, Carries(CurrentFunc), Advanced)
  /\ Keep

----------------------------------------------------------------------------
(* Calls *)

\* eval_call: the frame is pushed first, then the arguments are popped into it,
\* last one first, then the marker is pushed.
Enter(f, s) ==
  /\ Len(frames) < MaxFrames
  /\ IF Holds(s, f.t1)
     THEN /\ frames' = Append(Advanced, FuncFrame(f, Kept(s, Len(f.t1))))
          /\ opd' = Append(Dropped(s, Len(f.t1)), FuncMarker)
          /\ Proceed
     ELSE PopFails(s, f.t1, Append(Advanced, PartialFrame(f, s)))
  /\ Keep

Call == At({"call"}) /\ Enter(prog.funcs[Fetched.func + 1], opd)

\* The signature the instruction names is not compared with the function's.
CallIndirect ==
  /\ At({"call_indirect"})
  /\ LET v == Popped(opd, 1).val
         entry == prog.table[v + 1]
     IN  IF v >= Len(prog.table) THEN Trap("VECTOR_EXCEPTION")
         ELSE IF ~entry.initialized THEN Trap("UNINITIALIZED")
         ELSE IF entry.func >= Len(prog.funcs) THEN Trap("VECTOR_EXCEPTION")
         ELSE Enter(prog.funcs[entry.func + 1], Rest)

----------------------------------------------------------------------------
(* The host: interpret_function, and the start function of init_interpreter *)

HostMayCall == ReuseAfterTrap \/ outcome \in {"none", "returned"}

\* The parameters are pushed and eval_call pops them; the stacks are as the
\* last call left them.
Invoke ==
  /\ mode = "idle" /\ HostMayCall /\ invocations < MaxInvocations
  /\ \E k \in prog.exports :
       LET f == prog.funcs[k + 1]
       IN  \E args \in [1..Len(f.t1) -> Val] :
             /\ frames' = Append(frames, FuncFrame(f, [n \in 1..Len(f.t1) |-> Value(f.t1[n], args[n])]))
             /\ callee' = k
  /\ opd' = Append(opd, FuncMarker)
  /\ mode' = "run" /\ outcome' = "none" /\ invocations' = invocations + 1
  /\ UNCHANGED <<prog, emptyRead, globals, clobbered>>

\* find_exported_func raises before anything has changed.
InvokeUnknown ==
  /\ mode = "idle" /\ HostMayCall /\ invocations < MaxInvocations
  /\ outcome' = "NOT_FOUND" /\ invocations' = invocations + 1
  /\ UNCHANGED <<prog, emptyRead, frames, opd, globals, clobbered, callee, mode>>

\* The tail of _interpret_function, once no frame is left.
Finish ==
  LET t2 == prog.funcs[callee + 1].t2
  IN  /\ mode = "run" /\ frames = << >> /\ Keep
      /\ IF Len(t2) > 1
         THEN UNCHANGED <<frames, opd>> /\ Raise("ONLY_ONE_RETURN_VALUE_ALLOWED")
         ELSE IF ~Holds(opd, t2)
         THEN PopFails(opd, t2, frames)
         ELSE /\ opd' = Dropped(opd, Len(t2)) /\ UNCHANGED frames
              /\ IF Len(opd) > Len(t2) THEN Raise("OPERAND_STACK_NOT_EMPTY")
                 ELSE mode' = "idle" /\ outcome' = "returned"

StartDone == /\ mode = "start" /\ frames = << >>
             /\ mode' = "idle"
             /\ UNCHANGED <<frames, opd, outcome>> /\ Keep

\* init_interpreter has filled the table and the globals, and has entered the
\* start function if there is one.
Init ==
  /\ prog \in Programs /\ emptyRead \in UninitReads
  /\ globals = prog.globals /\ clobbered = {}
  /\ callee = 0 /\ outcome = "none" /\ invocations = 0
  /\ IF prog.start = << >>
     THEN frames = << >> /\ opd = << >> /\ mode = "idle"
     ELSE /\ frames = <<FuncFrame(prog.funcs[prog.start[1] + 1], << >>)>>
          /\ opd = <<FuncMarker>> /\ mode = "start"

Step == \/ FrameEnd \/ Absent \/ BadOperand
        \/ Const \/ Numeric \/ BitCount \/ Divide
        \/ Load \/ Store \/ MemoryTrap \/ MemorySize \/ MemoryGrow
        \/ Drop \/ Select \/ Nop \/ Unreachable
        \/ LocalGet \/ LocalSet \/ GlobalGet \/ GlobalSet
        \/ EnterBlock \/ EnterLoop \/ EnterThen \/ EnterElse
        \/ Br \/ BrIf \/ BrTable \/ Return \/ Call \/ CallIndirect
        \/ Finish \/ StartDone

Next == Invoke \/ InvokeUnknown \/ Step

\* eval_instrs is a loop: it never rests while it has a frame.
Spec == Init /\ [][Next]_vars
FairSpec == Spec /\ WF_vars(Step)

----------------------------------------------------------------------------
(* Properties *)

\* The type invariant.
TypeOK ==
  /\ frames \in Seq(Frame) /\ opd \in Seq(Entries)
  /\ globals \in Seq(Values) /\ Len(globals) = Len(prog.globals)
  /\ clobbered \subseteq Blocks(prog) \X Nat
  /\ callee \in Nat /\ invocations \in 0..MaxInvocations
  /\ mode \in {"start", "idle", "run", "dead"} /\ outcome \in Outcomes

\* At the bottom of the frame stack there is an activation, whatever the module
\* and however the last call ended: peek_func_frame never returns NULL, which
\* every one of its callers dereferences.
BottomIsActivation == frames # << >> => frames[1].context = "function"
=============================================================================
