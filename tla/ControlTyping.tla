--------------------------- MODULE ControlTyping ---------------------------
(***************************************************************************)
(* What the interpreter keeps when it is given a valid module, and that it *)
(* does with it what module Structured promises.                           *)
(***************************************************************************)
EXTENDS Control, Typing

\* What the interpreter gets wrong is left out: an if without else, clz and its
\* like, a division by zero, branches that carry a result to a loop, a
\* call_indirect with the wrong signature.
Handled(p) ==
  /\ \A b \in DOMAIN p.typing :
       /\ p.typing[b].kind = "loop" => p.typing[b].rt = << >>
       /\ \A k \in 1..Len(p.code[b]) :
            LET i == p.code[b][k]
            IN  /\ i.op \notin {"bitcount", "divide"}
                /\ i.op = "if" => i.else # NoBlock
                /\ i.op = "call_indirect" =>
                     \A n \in 1..Len(p.table) : p.table[n].initialized =>
                       LET f == p.funcs[p.table[n].func + 1] IN f.t1 = i.t1 /\ f.t2 = i.t2

ASSUME HandledAssumption == \A p \in Programs : Handled(p)

\* And a br_table executed again, when it has overwritten its labels.  That is not
\* a matter of the module alone: the theorems take it as a hypothesis, and the
\* modules of the runs have a br_table in no loop, in a function called once.
BrTableOnce == At({"br_table"}) => Site \notin clobbered

----------------------------------------------------------------------------
(* Properties *)

MarkerOf(context) == IF context = "function" THEN "function" ELSE "label"

\* The two stacks stay in step: the markers on the operand stack are those of
\* the frames, in the same order.  Every pop down to a marker (eval_br,
\* clean_to_label, clean_to_func_marker) relies on it.
MarkersMatchFrames ==
  Running => /\ MarkerCount(opd) = Len(frames)
             /\ \A k \in 1..Len(frames) :
                  opd[MarkerPos(opd, k)].marker = MarkerOf(frames[k].context)

\* The operands frame k works on: between its marker and the next one.
Segment(k) ==
  LET above == IF k = Len(frames) THEN Len(opd) + 1 ELSE MarkerPos(opd, k + 1)
  IN  SubSeq(opd, MarkerPos(opd, k) + 1, above - 1)

\* The two stacks read as one stack of contexts: if they are not in step, the
\* operands of a context cannot be told from the markers.
InStep == MarkerCount(opd) = Len(frames)

ContextOf(k) ==
  LET f == frames[k]
  IN  [instrs |-> f.instrs, ip |-> f.ip, kind |-> f.context, result |-> Carries(f),
       operands |-> IF InStep THEN Segment(k) ELSE opd, locals |-> f.locals]

\* What lies below the first marker.
Results == IF frames # << >> /\ InStep THEN SubSeq(opd, 1, MarkerPos(opd, 1) - 1) ELSE opd

\* Between calls the host sees neither.
Contexts == IF Running THEN [k \in 1..Len(frames) |-> ContextOf(k)] ELSE << >>
Left     == IF Running THEN Results ELSE << >>

S == INSTANCE Structured WITH contexts <- Contexts, results <- Left

\* Every frame, suspended or not, finds on its part of the stack the operands
\* its next instruction was validated against, no more and no fewer.
OperandsMatchTyping == S!OperandsMatchTyping

\* A frame's labels are the frames below it: a branch finds its target at the
\* depth the label names, and never crosses an activation.
LabelsMatchContexts == S!LabelsMatchContexts

\* A valid module is run as if every block had a stack of its own: branches,
\* returns and the ends of blocks take away what they should and leave the rest;
\* no assertion of stack.h fails, no stack runs empty, nothing is left over when
\* the call returns, and it stops by a trap of its own or not at all.
ImplementsStructured == S!Instantiated /\ [][S!Next]_S!vars

\* The position of the marker of the running activation.
FuncMarkerPos == Topmost(opd, "function")

\* An activation leaves alone what belongs to its callers: their operands, their
\* frames with their locals, until it returns, and then but for its results.
CallersUntouched ==
  [][Running /\ frames # << >> =>
       /\ Len(opd') >= FuncMarkerPos - 1
       /\ \A p \in 1..FuncMarkerPos - 1 : opd'[p] = opd[p]
       /\ Len(frames') >= FuncIndex(frames) - 1
       /\ \A k \in 1..FuncIndex(frames) - 1 : frames'[k] = frames[k]]_vars

\* A module without loops whose functions call only functions before them.
Terminating(p) ==
  \A b \in DOMAIN p.typing :
    /\ p.typing[b].kind # "loop"
    /\ \A k \in 1..Len(p.code[b]) :
         LET i == p.code[b][k]
         IN  /\ i.op = "call" => i.func < p.typing[b].func
             /\ i.op = "call_indirect" =>
                  \A n \in 1..Len(p.table) : p.table[n].func < p.typing[b].func

\* Without loops and without recursion every call comes back to the host: the
\* loop of eval_instrs always gets to the bottom of its frames.
EveryCallEnds == (mode = "run" /\ Terminating(prog)) ~> mode \in {"idle", "dead"}

AtLoopStart == frames # << >> /\ Top.context = "loop" /\ Top.ip = 0

\* Without recursion, a call that never ends is at the start of a loop again and
\* again: blocks, conditionals and branches out of them cannot keep the
\* interpreter busy for ever.
OnlyLoopsRunForever == <>[]Running => []<>AtLoopStart
=============================================================================
