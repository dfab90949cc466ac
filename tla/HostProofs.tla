----------------------------- MODULE HostProofs -----------------------------
(***************************************************************************)
(* For any functions, any depth of the C stack and any codes: a throw does *)
(* not jump to a dead frame.  That does not follow from the flag alone:    *)
(* what is kept up is that the flag is set exactly while one function, and *)
(* the one the buffer is of, is inside of its try clause.                  *)
(*                                                                         *)
(* Then, for any command line, any depth of the C stack and any work of    *)
(* the parser: main uses TRY_CATCH as its protocol asks, so no throw jumps *)
(* to a dead frame, and no exception is lost.  The invariant says for      *)
(* every place main can be at how deep the C stack is, whether the flag is *)
(* set and for which frame, and whether anything has been thrown.          *)
(***************************************************************************)
EXTENDS Host, FiniteSetTheorems, TLAPS

----------------------------------------------------------------------------
(* Functions that call, try, throw and return *)

\* The types of the variables; there is always a frame.
ExceptionsTypeOK ==
  /\ stack \in Seq(Frames) /\ Len(stack) >= 1
  /\ active \in BOOLEAN
  /\ buffer \in 0..Len(stack)

\* The frames that are in a try clause: the one the buffer is of, while the
\* flag is set, and none otherwise.
Tried == IF active THEN {buffer} ELSE {}

TriedOnce ==
  /\ active => buffer # 0
  /\ \A i \in 1..Len(stack) : stack[i].clause = "try" <=> i \in Tried

ExceptionsInv == ExceptionsTypeOK /\ TriedOnce /\ process # "wild"

\* A C stack with the clause of its innermost frame changed.
LEMMA ClauseChanged ==
  ASSUME stack \in Seq(Frames), Len(stack) >= 1, NEW c \in Clauses
  PROVE  /\ InClause(c) \in Seq(Frames) /\ Len(InClause(c)) = Len(stack)
         /\ InClause(c)[Len(stack)].clause = c
         /\ \A i \in 1..Len(stack) - 1 : InClause(c)[i] = stack[i]
<1> DEFINE d == Len(stack)
           changed == [function |-> stack[d].function, clause |-> c]
<1>1. d \in 1..d /\ d \in DOMAIN stack /\ stack[d] \in Frames
  OBVIOUS
<1>2. changed \in Frames /\ changed.clause = c
  BY <1>1 DEF Frames
<1>3. InClause(c) = [stack EXCEPT ![d] = changed]
  BY DEF InClause, Depth, Innermost
<1> HIDE DEF changed
<1> QED
  BY <1>1, <1>2, <1>3

\* The C stack a throw leaves behind.
LEMMA StackUnwound ==
  ASSUME stack \in Seq(Frames), buffer \in 1..Len(stack)
  PROVE  /\ Unwound \in Seq(Frames) /\ Len(Unwound) = buffer
         /\ Unwound[buffer].clause = "catch" /\ Unwound[buffer].function = stack[buffer].function
         /\ \A i \in 1..buffer - 1 : Unwound[i] = stack[i]
<1> DEFINE kept == SubSeq(stack, 1, buffer)
           caught == [function |-> stack[buffer].function, clause |-> "catch"]
<1>1. kept \in Seq(Frames) /\ Len(kept) = buffer /\ \A i \in 1..buffer : kept[i] = stack[i]
  OBVIOUS
<1>2. caught \in Frames /\ caught.clause = "catch" /\ caught.function = stack[buffer].function
  <2>1. stack[buffer] \in Frames
    OBVIOUS
  <2> QED
    BY <2>1 DEF Frames, Clauses
<1>3. Unwound = [kept EXCEPT ![buffer] = caught]
  BY DEF Unwound
<1>4. buffer \in Nat /\ buffer \in 1..buffer
  OBVIOUS
<1> HIDE DEF kept, caught
<1> QED
  BY <1>1, <1>2, <1>3, <1>4

\* At the start nothing is tried.
LEMMA ExceptionsInvInit == ExceptionsInit => ExceptionsInv
<1> SUFFICES ASSUME ExceptionsInit PROVE ExceptionsInv
  OBVIOUS
<1>1. PICK f \in Functions : stack = <<[function |-> f, clause |-> "none"]>>
  BY DEF ExceptionsInit
<1>2. [function |-> f, clause |-> "none"] \in Frames
  BY DEF Frames, Clauses
<1>3. stack \in Seq(Frames) /\ Len(stack) = 1 /\ stack[1].clause = "none"
  BY <1>1, <1>2
<1>4. active = FALSE /\ buffer = 0 /\ process = "running"
  BY DEF ExceptionsInit
<1>5. Tried = {} /\ active \in BOOLEAN /\ (active => buffer # 0)
  BY <1>4, Zenon DEF Tried
<1>6. buffer \in 0..Len(stack) /\ process # "wild"
  BY <1>3, <1>4
<1> QED
  BY <1>3, <1>5, <1>6 DEF ExceptionsInv, ExceptionsTypeOK, TriedOnce

\* What a step leaves of the invariant, said of the new stack alone.
LEMMA Reestablished ==
  ASSUME stack' \in Seq(Frames), Len(stack') >= 1, buffer' \in 0..Len(stack'),
         active' \in BOOLEAN, active' => buffer' # 0, process' # "wild",
         \A i \in 1..Len(stack') : stack'[i].clause = "try" <=> i \in Tried'
  PROVE  ExceptionsInv'
BY DEF ExceptionsInv, ExceptionsTypeOK, TriedOnce

\* Each of the macros, and the C calls between them, keeps it so.
LEMMA ExceptionsInvStep == ExceptionsInv /\ [ExceptionsNext]_exception_vars => ExceptionsInv'
<1> SUFFICES ASSUME ExceptionsInv, [ExceptionsNext]_exception_vars PROVE ExceptionsInv'
  OBVIOUS
<1> DEFINE d == Len(stack)
<1>0. /\ stack \in Seq(Frames) /\ d >= 1 /\ d \in Nat /\ active \in BOOLEAN /\ buffer \in 0..d
      /\ active => buffer # 0
      /\ \A i \in 1..d : stack[i].clause = "try" <=> i \in Tried
      /\ process # "wild"
  BY DEF ExceptionsInv, ExceptionsTypeOK, TriedOnce
<1>a. active = FALSE => Tried = {}
  BY DEF Tried
<1>b. active => Tried = {buffer}
  BY DEF Tried
<1>c. active' = FALSE => Tried' = {}
  BY DEF Tried
<1>d. active' = TRUE => Tried' = {buffer'}
  BY DEF Tried
<1>e. UNCHANGED <<active, buffer>> => Tried' = Tried
  BY DEF Tried
<1>1. ASSUME NEW f \in Functions, Call(f) PROVE ExceptionsInv'
  <2>1. [function |-> f, clause |-> "none"] \in Frames
    BY DEF Frames, Clauses
  <2>2. stack' = Append(stack, [function |-> f, clause |-> "none"])
    BY <1>1 DEF Call
  <2>3. /\ stack' \in Seq(Frames) /\ Len(stack') = d + 1
        /\ stack'[d + 1].clause = "none"
        /\ \A i \in 1..d : stack'[i] = stack[i]
    BY <1>0, <2>1, <2>2
  <2>4. UNCHANGED <<active, buffer>> /\ process' = process
    BY <1>1 DEF Call
  <2>5. Tried' = Tried /\ d + 1 \notin Tried
    BY <1>0, <1>e, <2>4 DEF Tried
  <2> QED
    BY <1>0, <2>3, <2>4, <2>5, Reestablished
<1>2. CASE Return
  <2>1. /\ stack' = SubSeq(stack, 1, d - 1) /\ d > 1 /\ stack[d].clause = "none"
        /\ active' = active /\ process' = process
        /\ buffer' = IF buffer = d THEN 0 ELSE buffer
    BY <1>2 DEF Return, Depth, Innermost
  <2>2. /\ stack' \in Seq(Frames) /\ Len(stack') = d - 1
        /\ \A i \in 1..d - 1 : stack'[i] = stack[i]
    BY <1>0, <2>1
  <2>3. d \notin Tried
    BY <1>0, <2>1
  <2>4. active => buffer' = buffer /\ buffer # d
    BY <2>1, <2>3, <1>b
  <2>5. Tried' = Tried
    BY <2>1, <2>4 DEF Tried
  <2>6. buffer' \in 0..d - 1
    BY <1>0, <2>1
  <2>7. \A i \in 1..d - 1 : stack'[i].clause = "try" <=> i \in Tried'
    BY <1>0, <2>2, <2>5
  <2>8. active' \in BOOLEAN /\ (active' => buffer' # 0) /\ process' # "wild"
    BY <1>0, <2>1, <2>4
  <2> QED
    BY <1>0, <2>1, <2>2, <2>6, <2>7, <2>8, Reestablished
<1>3. CASE Try
  <2>1. CASE active
    BY <1>0, <1>3, <1>e, <2>1, Reestablished DEF Try, End
  <2>2. CASE ~active
    <3>1. /\ buffer' = d /\ active' = TRUE /\ stack' = InClause("try") /\ process' = process
      BY <1>3, <2>2 DEF Try, Depth
    <3>2. /\ stack' \in Seq(Frames) /\ Len(stack') = d /\ stack'[d].clause = "try"
          /\ \A i \in 1..d - 1 : stack'[i] = stack[i]
      BY <1>0, <3>1, ClauseChanged DEF Clauses
    <3>3. Tried' = {d} /\ Tried = {}
      BY <1>0, <1>a, <1>d, <2>2, <3>1
    <3> QED
      BY <1>0, <3>1, <3>2, <3>3, Reestablished
  <2> QED
    BY <2>1, <2>2
<1>4. CASE LeaveTry
  <2>1. /\ stack[d].clause = "try" /\ active' = FALSE /\ buffer' = buffer
        /\ stack' = InClause("none") /\ process' = process
    BY <1>4 DEF LeaveTry, Depth, Innermost
  <2>2. /\ stack' \in Seq(Frames) /\ Len(stack') = d /\ stack'[d].clause = "none"
        /\ \A i \in 1..d - 1 : stack'[i] = stack[i]
    BY <1>0, <2>1, ClauseChanged DEF Clauses
  <2>3. Tried' = {} /\ \A i \in 1..d - 1 : i \notin Tried
    BY <1>0, <1>c, <2>1 DEF Tried
  <2>4. active' \in BOOLEAN /\ (active' => buffer' # 0)
    BY <2>1, Zenon
  <2>5. /\ buffer' \in 0..d /\ process' # "wild"
        /\ \A i \in 1..d : stack'[i].clause = "try" <=> i \in Tried'
    BY <1>0, <2>1, <2>2, <2>3
  <2> QED
    BY <1>0, <2>2, <2>4, <2>5, Reestablished
<1>5. ASSUME NEW c \in Codes, Throw(c) PROVE ExceptionsInv'
  <2>1. CASE ~active
    BY <1>0, <1>5, <1>e, <2>1, Reestablished DEF Throw, End
  <2>2. CASE active
    <3>1. buffer \in 1..d
      BY <1>0, <2>2
    <3>2. active' = FALSE /\ buffer' = buffer /\ process' = process /\ stack' = Unwound
      BY <1>5, <2>2, <3>1 DEF Throw
    <3>3. /\ stack' \in Seq(Frames) /\ Len(stack') = buffer /\ stack'[buffer].clause = "catch"
          /\ \A i \in 1..buffer - 1 : stack'[i] = stack[i]
      BY <1>0, <3>1, <3>2, StackUnwound
    <3>4. Tried' = {} /\ Tried = {buffer}
      BY <1>b, <1>c, <2>2, <3>2
    <3>5. \A i \in 1..buffer : stack'[i].clause # "try"
      BY <1>0, <3>1, <3>3, <3>4
    <3>6. active' \in BOOLEAN /\ (active' => buffer' # 0)
      BY <3>2, Zenon
    <3>7. buffer' \in 0..buffer /\ process' # "wild" /\ Len(stack') >= 1
      BY <1>0, <3>1, <3>2, <3>3
    <3> QED
      BY <3>3, <3>4, <3>5, <3>6, <3>7, Reestablished
  <2> QED
    BY <2>1, <2>2
<1>6. CASE LeaveCatch
  <2>1. /\ stack[d].clause = "catch" /\ UNCHANGED <<active, buffer>>
        /\ stack' = InClause("none") /\ process' = process
    BY <1>6 DEF LeaveCatch, Depth, Innermost
  <2>2. /\ stack' \in Seq(Frames) /\ Len(stack') = d /\ stack'[d].clause = "none"
        /\ \A i \in 1..d - 1 : stack'[i] = stack[i]
    BY <1>0, <2>1, ClauseChanged DEF Clauses
  <2>3. Tried' = Tried /\ d \notin Tried
    BY <1>0, <1>e, <2>1
  <2> QED
    BY <1>0, <2>1, <2>2, <2>3, Reestablished
<1>7. CASE Stop
  <2>1. UNCHANGED <<stack, active, buffer>> /\ process' # "wild"
    BY <1>7 DEF Stop, End
  <2> QED
    BY <1>0, <1>e, <2>1, Reestablished
<1>8. CASE UNCHANGED exception_vars
  <2>1. UNCHANGED <<stack, active, buffer, process>>
    BY <1>8 DEF exception_vars
  <2> QED
    BY <1>0, <1>e, <2>1, Reestablished
<1> QED
  BY <1>1, <1>2, <1>3, <1>4, <1>5, <1>6, <1>7, <1>8 DEF ExceptionsNext

\* Whatever functions do between TRY_CATCH and THROW_EXCEPTION, short of
\* returning from inside of a clause, no throw jumps to a function that has
\* returned (exception.h:62-102).
THEOREM JumpTargetsAlive == ExceptionsSpec => []JumpsAreSafe
<1>1. ExceptionsInv => JumpsAreSafe
  BY DEF ExceptionsInv, JumpsAreSafe
<1> QED
  BY ExceptionsInvInit, ExceptionsInvStep, <1>1, PTL DEF ExceptionsSpec

----------------------------------------------------------------------------
(* main *)

\* Which steps there are in which phase.
PhaseOK ==
  /\ pc \in {"options", "parse", "init", "interpret", "print"}
  /\ pc = "options" => step = "read"
  /\ pc = "print" => step = "call"
  /\ step \in {"read", "call", "enter", "try", "body", "leave", "return", "check"}
  /\ step = "read" => pc = "options"
  /\ step \in {"enter", "try", "leave", "return"} => Guarded

\* Outside of the guards: one frame, or two just before a clause; nothing thrown.
OutsideOK ==
  /\ step \in {"read", "call"} => Len(stack) = 1 /\ ~active /\ ~thrown
  /\ step = "enter" => Len(stack) = 2 /\ ~active /\ ~thrown

\* In the body the guard, if there is one, is the second frame.
InsideOK ==
  /\ step = "try" => Len(stack) = 2
  /\ step \in {"try", "body"} => ~thrown
  /\ step = "try" \/ (step = "body" /\ Guarded) => active /\ buffer = 2
  /\ step = "body" /\ ~Guarded => ~active

\* Behind it a throw is in the catch clause, and then in ex.
BehindOK ==
  /\ step = "leave" => Len(stack) = 2
  /\ step = "leave" /\ stack[2].clause # "catch" => stack[2].clause = "try" /\ ~thrown
  /\ step = "leave" /\ stack[2].clause = "catch" => ~active /\ code \in Codes
  /\ step = "return" => Len(stack) = 2
  /\ step = "check" => Len(stack) = 1
  /\ step \in {"return", "check"} => ~active
  /\ step \in {"return", "check"} /\ thrown => ex \in Codes /\ Guarded

StandingOK == process = "running" => OutsideOK /\ InsideOK /\ BehindOK

\* ThrowsAreReported as a disjunction.
Reported ==
  thrown /\ process # "running" =>
    \/ process = "abort" /\ pc = "init"
    \/ process = "exit 1" /\ Guarded /\ ex \in Codes /\ Len(stack) = 1

HostInv == ExceptionsInv /\ thrown \in BOOLEAN /\ PhaseOK /\ StandingOK /\ Reported

----------------------------------------------------------------------------
(* What the actions of Exceptions do to the C stack *)

LEMMA CallDoes ==
  ASSUME ExceptionsInv, NEW f \in Functions, Call(f)
  PROVE  /\ Len(stack') = Len(stack) + 1 /\ stack'[Len(stack)] = stack[Len(stack)]
         /\ UNCHANGED <<active, code, buffer, process>>
BY DEF ExceptionsInv, ExceptionsTypeOK, Call

LEMMA ReturnDoes ==
  ASSUME ExceptionsInv, Return
  PROVE  /\ Len(stack) > 1 /\ Len(stack') = Len(stack) - 1
         /\ stack'[Len(stack) - 1] = stack[Len(stack) - 1]
         /\ UNCHANGED <<active, code, process>>
         /\ stack[Len(stack)].clause = "none"
         /\ buffer < Len(stack) => buffer' = buffer
BY DEF ExceptionsInv, ExceptionsTypeOK, Return, Depth, Innermost

LEMMA ClauseDoes ==
  ASSUME ExceptionsInv, NEW c \in Clauses, stack' = InClause(c)
  PROVE  Len(stack') = Len(stack) /\ stack'[Len(stack)].clause = c
BY ClauseChanged DEF ExceptionsInv, ExceptionsTypeOK

LEMMA ThrowDoes ==
  ASSUME ExceptionsInv, NEW c \in Codes, Throw(c), active
  PROVE  /\ Len(stack') = buffer /\ stack'[buffer].clause = "catch"
         /\ active' = FALSE /\ code' = c /\ UNCHANGED <<buffer, process>>
<1>1. buffer \in 1..Len(stack) /\ stack \in Seq(Frames)
  BY DEF ExceptionsInv, ExceptionsTypeOK, TriedOnce
<1>2. stack' = Unwound /\ active' = FALSE /\ code' = c /\ UNCHANGED <<buffer, process>>
  BY <1>1 DEF Throw
<1> QED
  BY <1>1, <1>2, StackUnwound

\* The flag is set: the frame of the buffer is in its try clause, and no other.
LEMMA FlagMeansTry ==
  ASSUME ExceptionsInv, NEW i \in 1..Len(stack)
  PROVE  /\ active /\ i = buffer => stack[i].clause = "try"
         /\ stack[i].clause = "try" => active /\ i = buffer
BY DEF ExceptionsInv, TriedOnce, Tried

----------------------------------------------------------------------------
(* Every step of main is one of Exceptions *)

\* The functions main calls are functions.
LEMMA CalleesAreFunctions ==
  /\ pc \in {"parse", "init", "interpret"} => Callee[pc] \in Functions
  /\ Guarded => Body[pc] \in Functions
BY HostAssumption DEF Callee, Body, Guarded

\* End is a Stop, when it is with one of these; a throw or a try may abort.
LEMMA ExitIsStop ==
  ASSUME NEW how \in {"exit 0", "exit 1", "killed"}, Running, Exit(how)
  PROVE  ExceptionsNext
BY DEF Exit, Stop, ExceptionsNext

LEMMA StepFollows == HostInv /\ [Next]_vars => [ExceptionsNext]_exception_vars
<1> SUFFICES ASSUME HostInv, [Next]_vars PROVE [ExceptionsNext]_exception_vars
  OBVIOUS
<1>1. CASE OptionPath \/ OptionFunction \/ OptionArgument \/ SkipOperand \/ Open \/ GoOn
  BY <1>1 DEF OptionPath, OptionFunction, OptionArgument, SkipOperand, Sets, Open, GoOn,
              NoJumps, exception_vars
<1>2. CASE ArgumentWithoutValue \/ Usage \/ Report \/ PrintResult \/ Dies
  <2>1. Running /\ \E how \in {"exit 0", "exit 1", "killed"} : Exit(how)
    BY <1>2 DEF ArgumentWithoutValue, Usage, Report, PrintResult, Dies, Reading, Main
  <2> QED
    BY <2>1, ExitIsStop
<1>3. CASE OpenFails
  <2>1. Running /\ \E how \in {"exit 0", "exit 1", "killed"} : Exit(how)
    BY <1>3 DEF OpenFails, Opening, Main
  <2> QED
    BY <2>1, ExitIsStop
<1>4. CASE Begin
  <2>1. step = "call" /\ pc # "print" /\ Call(Callee[pc])
    BY <1>4 DEF Begin
  <2>2. pc \in {"parse", "init", "interpret"}
    BY <2>1 DEF HostInv, PhaseOK
  <2> QED
    BY <2>1, <2>2, CalleesAreFunctions DEF ExceptionsNext
<1>5. CASE Enter
  BY <1>5 DEF Enter, ExceptionsNext
<1>6. CASE CallBody
  <2>1. step = "try" /\ Call(Body[pc])
    BY <1>6 DEF CallBody
  <2> QED
    BY <2>1, CalleesAreFunctions DEF ExceptionsNext, HostInv, PhaseOK
<1>7. CASE InnerCall
  BY <1>7 DEF InnerCall, Inner, ExceptionsNext
<1>8. CASE InnerReturn \/ BodyReturns \/ Returns
  BY <1>8 DEF InnerReturn, BodyReturns, Returns, ExceptionsNext
<1>9. CASE InnerThrow
  BY <1>9 DEF InnerThrow, ExceptionsNext
<1>10. CASE Leave
  BY <1>10 DEF Leave, ExceptionsNext
<1>11. CASE UNCHANGED vars
  BY <1>11 DEF vars, exception_vars
<1> QED
  BY <1>1, <1>2, <1>3, <1>4, <1>5, <1>6, <1>7, <1>8, <1>9, <1>10, <1>11 DEF Next

----------------------------------------------------------------------------
(* Every step keeps the invariant *)

LEMMA HostInvInit == Init => HostInv
<1> SUFFICES ASSUME Init PROVE HostInv
  OBVIOUS
<1>1. ExceptionsInv /\ ExceptionsInit
  BY ExceptionsInvInit DEF Init
<1>2. pc = "options" /\ step = "read" /\ thrown = FALSE
  BY DEF Init
<1>3. Len(stack) = 1 /\ active = FALSE /\ process = "running"
  BY <1>1 DEF ExceptionsInit
<1>4. ~active /\ ~thrown /\ thrown \in BOOLEAN
  BY <1>2, <1>3, Zenon
<1> QED
  BY <1>1, <1>2, <1>3, <1>4 DEF HostInv, PhaseOK, StandingOK, OutsideOK, InsideOK, BehindOK, Reported

\* The invariant but for that of Exceptions, which every step keeps.
Placed == thrown \in BOOLEAN /\ PhaseOK /\ StandingOK /\ Reported

\* A place main goes to, while the process runs on.
LEMMA PlacedThere ==
  ASSUME HostInv, process' = "running", PhaseOK', OutsideOK', InsideOK', BehindOK',
         thrown' \in BOOLEAN
  PROVE  Placed'
BY DEF Placed, StandingOK, Reported

\* The end of the process leaves main where it was.
LEMMA PlacedAtEnd ==
  ASSUME HostInv, NEW how \in {"exit 0", "exit 1", "killed"}, Exit(how),
         thrown => how = "exit 1" /\ Guarded /\ ex \in Codes /\ Len(stack) = 1
  PROVE  Placed'
<1>1. /\ process' = how /\ UNCHANGED <<stack, pc, step, ex, thrown>>
  BY DEF Exit, End, Bodyless
<1> QED
  BY <1>1 DEF HostInv, Placed, PhaseOK, StandingOK, Reported, Guarded

LEMMA HostInvStep == HostInv /\ [Next]_vars => Placed'
<1> SUFFICES ASSUME HostInv, [Next]_vars PROVE Placed'
  OBVIOUS
<1>0. ExceptionsInv /\ thrown \in BOOLEAN /\ PhaseOK /\ StandingOK /\ Reported
  BY DEF HostInv
<1>a. Running => process = "running" /\ OutsideOK /\ InsideOK /\ BehindOK
  BY <1>0 DEF Running, StandingOK
<1> USE DEF Bodyless, Goes
<1>1. CASE OptionPath \/ OptionFunction \/ OptionArgument \/ SkipOperand
  <2>1. /\ Running /\ pc = "options" /\ pc' = "options" /\ step' = "read"
        /\ UNCHANGED <<stack, active, process, thrown>>
    BY <1>1 DEF OptionPath, OptionFunction, OptionArgument, SkipOperand, Sets, NoJumps, Reading, Main
  <2>2. Len(stack) = 1 /\ ~active /\ ~thrown
    BY <1>0, <1>a, <2>1 DEF PhaseOK, OutsideOK
  <2> QED
    BY <1>0, <1>a, <2>1, <2>2, PlacedThere DEF PhaseOK, OutsideOK, InsideOK, BehindOK
<1>2. CASE ArgumentWithoutValue \/ Usage \/ OpenFails \/ PrintResult
  <2>1. /\ Running /\ pc \in {"options", "print"}
        /\ \E how \in {"exit 0", "exit 1", "killed"} : Exit(how)
    BY <1>2 DEF ArgumentWithoutValue, Usage, OpenFails, PrintResult, Opening, Reading, Main
  <2>2. ~thrown
    BY <1>0, <1>a, <2>1 DEF PhaseOK, OutsideOK
  <2> QED
    BY <2>1, <2>2, PlacedAtEnd
<1>3. CASE Open
  <2>1. /\ Running /\ pc = "options" /\ pc' = "parse" /\ step' = "call"
        /\ UNCHANGED <<stack, active, process, thrown>>
    BY <1>3 DEF Open, Opening, NoJumps, Main
  <2>2. Len(stack) = 1 /\ ~active /\ ~thrown
    BY <1>0, <1>a, <2>1 DEF PhaseOK, OutsideOK
  <2> QED
    BY <1>0, <1>a, <2>1, <2>2, PlacedThere DEF PhaseOK, OutsideOK, InsideOK, BehindOK
<1>4. CASE Begin
  <2>1. /\ Running /\ step = "call" /\ pc # "print" /\ Call(Callee[pc])
        /\ pc' = pc /\ thrown' = thrown /\ step' = IF Guarded THEN "enter" ELSE "body"
    BY <1>4 DEF Begin, Main
  <2>2. pc \in {"parse", "init", "interpret"} /\ Len(stack) = 1 /\ ~active /\ ~thrown
    BY <1>0, <1>a, <2>1 DEF PhaseOK, OutsideOK
  <2>3. Len(stack') = 2 /\ active' = active /\ process' = process
    BY <1>0, <2>1, <2>2, CallDoes, CalleesAreFunctions
  <2> QED
    BY <1>0, <1>a, <2>1, <2>2, <2>3, PlacedThere
      DEF PhaseOK, OutsideOK, InsideOK, BehindOK, Guarded
<1>5. CASE Enter
  <2>1. Running /\ step = "enter" /\ Try /\ pc' = pc /\ step' = "try" /\ thrown' = thrown
    BY <1>5 DEF Enter
  <2>2. Guarded /\ Len(stack) = 2 /\ ~active /\ ~thrown
    BY <1>0, <1>a, <2>1 DEF PhaseOK, OutsideOK
  <2>3. /\ stack' = InClause("try") /\ buffer' = Len(stack) /\ process' = process
        /\ active' = TRUE
    BY <2>1, <2>2 DEF Try, Depth
  <2>4. Len(stack') = 2
    BY <1>0, <2>2, <2>3, ClauseDoes DEF Clauses
  <2>5. active'
    BY <2>3
  <2> QED
    BY <1>0, <1>a, <2>1, <2>2, <2>3, <2>4, <2>5, PlacedThere
      DEF PhaseOK, OutsideOK, InsideOK, BehindOK, Guarded
<1>6. CASE CallBody
  <2>1. /\ Running /\ step = "try" /\ Call(Body[pc])
        /\ pc' = pc /\ step' = "body" /\ thrown' = thrown
    BY <1>6 DEF CallBody
  <2>2. Guarded /\ active /\ buffer = 2 /\ ~thrown
    BY <1>0, <1>a, <2>1 DEF PhaseOK, InsideOK
  <2>3. active' = active /\ buffer' = buffer /\ process' = process
    BY <1>0, <2>1, <2>2, CallDoes, CalleesAreFunctions
  <2> QED
    BY <1>0, <1>a, <2>1, <2>2, <2>3, PlacedThere
      DEF PhaseOK, OutsideOK, InsideOK, BehindOK, Guarded
<1>7. CASE InnerCall \/ InnerReturn
  <2>1. Running /\ step = "body" /\ UNCHANGED <<pc, step, thrown>>
    BY <1>7 DEF InnerCall, InnerReturn
  <2>2. active' = active /\ process' = process /\ (Guarded => buffer' = buffer)
    <3>1. CASE InnerCall
      BY <1>0, <3>1, CallDoes DEF InnerCall, Inner
    <3>2. CASE InnerReturn
      <4>1. Return /\ (Guarded => Len(stack) > 3)
        BY <3>2 DEF InnerReturn, Bottom, Depth
      <4>2. Guarded => buffer = 2
        BY <1>a, <2>1 DEF InsideOK
      <4> QED
        BY <1>0, <4>1, <4>2, ReturnDoes
    <3> QED
      BY <1>7, <3>1, <3>2
  <2> QED
    BY <1>0, <1>a, <2>1, <2>2, PlacedThere DEF PhaseOK, OutsideOK, InsideOK, BehindOK, Guarded
<1>8. CASE InnerThrow
  <2>1. PICK c \in Codes : Throw(c)
    BY <1>8 DEF InnerThrow
  <2>2. /\ Running /\ step = "body" /\ pc' = pc /\ thrown' = TRUE
        /\ step' = IF process' = "running" THEN "leave" ELSE step
    BY <1>8 DEF InnerThrow
  <2>3. thrown' \in BOOLEAN /\ thrown'
    BY <2>2
  <2>4. CASE active
    <3>1. Guarded /\ buffer = 2
      BY <1>a, <2>2, <2>4 DEF InsideOK
    <3>2. /\ Len(stack') = 2 /\ stack'[2].clause = "catch" /\ active' = FALSE
          /\ code' \in Codes /\ process' = process
      BY <1>0, <2>1, <2>4, <3>1, ThrowDoes
    <3>3. ~active' /\ step' = "leave" /\ process' = "running"
      BY <1>a, <2>2, <3>2
    <3> QED
      BY <1>0, <2>2, <2>3, <3>1, <3>2, <3>3, PlacedThere
        DEF PhaseOK, OutsideOK, InsideOK, BehindOK, Guarded
  <2>5. CASE ~active
    <3>1. process' = "abort" /\ stack' = stack
      BY <2>1, <2>5 DEF Throw, End
    <3>2. ~Guarded /\ step' = "body"
      BY <1>a, <2>2, <2>5, <3>1 DEF InsideOK
    <3>3. pc = "init"
      BY <1>0, <2>2, <3>2 DEF PhaseOK, Guarded
    <3> QED
      BY <1>0, <2>2, <2>3, <3>1, <3>2, <3>3 DEF Placed, PhaseOK, StandingOK, Reported, Guarded
  <2> QED
    BY <2>4, <2>5
<1>9. CASE Dies
  <2>1. Running /\ step = "body" /\ Exit("killed")
    BY <1>9 DEF Dies
  <2> QED
    BY <1>a, <2>1, PlacedAtEnd DEF InsideOK
<1>10. CASE BodyReturns
  <2>1. /\ Running /\ step = "body" /\ Len(stack) = Bottom /\ Return
        /\ pc' = pc /\ thrown' = thrown /\ step' = IF Guarded THEN "leave" ELSE "check"
    BY <1>10 DEF BodyReturns, Depth
  <2>2. /\ Len(stack') = Bottom - 1 /\ stack'[Bottom - 1] = stack[Bottom - 1]
        /\ active' = active /\ process' = process
    BY <1>0, <2>1, ReturnDoes
  <2>3. ~thrown
    BY <1>a, <2>1 DEF InsideOK
  <2>4. CASE Guarded
    <3>1. Bottom = 3 /\ active /\ buffer = 2
      BY <1>a, <2>1, <2>4 DEF Bottom, InsideOK
    <3>2. 2 \in 1..Len(stack)
      BY <2>1, <3>1
    <3>3. stack[2].clause = "try"
      BY <1>0, <3>1, <3>2, FlagMeansTry
    <3> QED
      BY <1>0, <1>a, <2>1, <2>2, <2>3, <2>4, <3>1, <3>3, PlacedThere
        DEF PhaseOK, OutsideOK, InsideOK, BehindOK, Guarded
  <2>5. CASE ~Guarded
    <3>1. Bottom = 2 /\ ~active
      BY <1>a, <2>1, <2>5 DEF Bottom, InsideOK
    <3> QED
      BY <1>0, <1>a, <2>1, <2>2, <2>3, <2>5, <3>1, PlacedThere
        DEF PhaseOK, OutsideOK, InsideOK, BehindOK, Guarded
  <2> QED
    BY <2>4, <2>5
<1>11. CASE Leave
  <2>1. /\ Running /\ step = "leave" /\ pc' = pc /\ step' = "return" /\ thrown' = thrown
        /\ \/ LeaveTry /\ ex' = ex
           \/ LeaveCatch /\ ex' = code
    BY <1>11 DEF Leave
  <2>2. Guarded /\ Len(stack) = 2
    BY <1>0, <1>a, <2>1 DEF PhaseOK, BehindOK
  <2>3. CASE LeaveTry /\ ex' = ex
    <3>1. /\ stack[2].clause = "try" /\ active' = FALSE /\ stack' = InClause("none")
          /\ process' = process
      BY <2>2, <2>3 DEF LeaveTry, Innermost, Depth
    <3>2. Len(stack') = 2 /\ ~active' /\ ~thrown
      BY <1>0, <1>a, <2>1, <2>2, <3>1, ClauseDoes DEF Clauses, BehindOK
    <3> QED
      BY <1>0, <1>a, <2>1, <2>2, <3>1, <3>2, PlacedThere
        DEF PhaseOK, OutsideOK, InsideOK, BehindOK, Guarded
  <2>4. CASE LeaveCatch /\ ex' = code
    <3>1. /\ stack[2].clause = "catch" /\ active' = active /\ stack' = InClause("none")
          /\ process' = process
      BY <2>2, <2>4 DEF LeaveCatch, Innermost, Depth
    <3>2. Len(stack') = 2 /\ ~active /\ ex' \in Codes
      BY <1>0, <1>a, <2>1, <2>2, <2>4, <3>1, ClauseDoes DEF Clauses, BehindOK
    <3> QED
      BY <1>0, <1>a, <2>1, <2>2, <3>1, <3>2, PlacedThere
        DEF PhaseOK, OutsideOK, InsideOK, BehindOK, Guarded
  <2> QED
    BY <2>1, <2>3, <2>4
<1>12. CASE Returns
  <2>1. /\ Running /\ step = "return" /\ Return /\ pc' = pc /\ step' = "check"
        /\ UNCHANGED <<thrown, ex>>
    BY <1>12 DEF Returns
  <2>2. /\ Guarded /\ Len(stack) = 2 /\ ~active
        /\ thrown => ex \in Codes
    BY <1>0, <1>a, <2>1 DEF PhaseOK, BehindOK
  <2>3. Len(stack') = 1 /\ active' = active /\ process' = process
    BY <1>0, <2>1, <2>2, ReturnDoes
  <2> QED
    BY <1>0, <1>a, <2>1, <2>2, <2>3, PlacedThere
      DEF PhaseOK, OutsideOK, InsideOK, BehindOK, Guarded
<1>13. CASE GoOn
  <2>1. /\ Running /\ step = "check" /\ ex = NO_EXCEPTION
        /\ pc' = FollowedBy[pc] /\ step' = "call"
        /\ UNCHANGED <<stack, active, process, thrown>>
    BY <1>13 DEF GoOn, NoJumps, Main
  <2>2. /\ pc \in {"parse", "init", "interpret"} /\ Len(stack) = 1 /\ ~active /\ ~thrown
    BY <1>0, <1>a, <2>1, ExceptionsAssumption DEF PhaseOK, BehindOK
  <2>3. pc' \in {"init", "interpret", "print"}
    BY <2>1, <2>2 DEF FollowedBy
  <2> QED
    BY <1>0, <1>a, <2>1, <2>2, <2>3, PlacedThere DEF PhaseOK, OutsideOK, InsideOK, BehindOK
<1>14. CASE Report
  <2>1. Running /\ step = "check" /\ Exit("exit 1")
    BY <1>14 DEF Report, Main
  <2> QED
    BY <1>a, <2>1, PlacedAtEnd DEF BehindOK
<1>15. CASE UNCHANGED vars
  BY <1>0, <1>15 DEF vars, Placed, PhaseOK, StandingOK, OutsideOK, InsideOK, BehindOK, Reported, Guarded
<1> QED
  BY <1>1, <1>2, <1>3, <1>4, <1>5, <1>6, <1>7, <1>8, <1>9, <1>10, <1>11, <1>12, <1>13, <1>14,
     <1>15 DEF Next

\* Every step of main keeps the invariant, and is one of Exceptions.
LEMMA HostInvariant == HostInv /\ [Next]_vars => HostInv' /\ [ExceptionsNext]_exception_vars
BY StepFollows, HostInvStep, ExceptionsInvStep DEF HostInv, Placed

----------------------------------------------------------------------------
(* Theorems *)

\* Whatever main does is what functions do that call, try, throw and return; so no
\* throw below main ever jumps into a function that has returned.
THEOREM HostJumps == Spec => []JumpsAreSafe
<1>1. Init => ExceptionsInit
  BY DEF Init
<1>2. Spec => ExceptionsSpec
  BY <1>1, HostInvInit, HostInvariant, PTL DEF Spec, ExceptionsSpec
<1> QED
  BY <1>2, JumpTargetsAlive, PTL

\* No exception is lost: main ends with status 1 and the code that was thrown, or
\* the process was ended where init_interpreter threw (main.c:84-99).
THEOREM NothingLost == Spec => []ThrowsAreReported
<1>1. HostInv => ThrowsAreReported
  BY DEF HostInv, Reported, ThrowsAreReported, Running, Depth
<1> QED
  BY <1>1, HostInvInit, HostInvariant, PTL DEF Spec

----------------------------------------------------------------------------
(* The protocol of TRY_CATCH *)

\* Only the second frame is ever in a clause.
ClausesAtTwo == \A d \in 1..Len(stack) : stack[d].clause # "none" => d = 2

\* While a guard is at work, it is that frame.
GuardInPlace ==
  Running /\ Guarded /\ step \in {"enter", "try", "body", "leave", "return"} =>
    Len(stack) >= 2 /\ stack[2].function = Callee[pc]

GuardInv == ClausesAtTwo /\ GuardInPlace

\* A step that does not throw: nobody starts to catch, and who is in a clause stays.
LEMMA ProtocolKept ==
  ASSUME process' # "abort", ClausesAtTwo',
         \A d \in 1..Len(stack) : stack[d].clause # "none" => d <= Len(stack'),
         \A d \in 1..Len(stack') : stack'[d].clause = "catch" =>
           d \in 1..Len(stack) /\ stack[d].clause = "catch"
  PROVE  ProtocolStep
<1>1. \A d, e \in Within("try", stack') : d = e
  BY DEF ClausesAtTwo, Within
<1>2. Within("catch", stack') \ Within("catch", stack) = {}
  BY DEF Within
<1> QED
  BY <1>1, <1>2 DEF ProtocolStep

\* What the frames below the innermost are after a step, and what that is to the protocol.
LEMMA CallKeeps ==
  ASSUME ExceptionsInv, ClausesAtTwo, Running, NEW f \in Functions, Call(f)
  PROVE  /\ ClausesAtTwo' /\ ProtocolStep /\ Len(stack') = Len(stack) + 1
         /\ \A d \in 1..Len(stack) : stack'[d] = stack[d]
         /\ stack'[Len(stack) + 1].function = f
<1>1. stack \in Seq(Frames) /\ Len(stack) \in Nat
  BY DEF ExceptionsInv, ExceptionsTypeOK
<1>2. PICK n \in Nat : n = Len(stack)
  BY <1>1
<1>3. /\ Len(stack') = n + 1 /\ process' = "running"
      /\ \A d \in 1..n : stack'[d] = stack[d]
      /\ stack'[n + 1].clause = "none" /\ stack'[n + 1].function = f
  BY <1>1, <1>2 DEF Call, Running
<1>4. ClausesAtTwo'
  BY <1>2, <1>3 DEF ClausesAtTwo
<1>5. \A d \in 1..Len(stack') : stack'[d].clause = "catch" => d \in 1..n /\ stack[d].clause = "catch"
  BY <1>2, <1>3
<1> QED
  BY <1>2, <1>3, <1>4, <1>5, ProtocolKept

LEMMA ReturnKeeps ==
  ASSUME ExceptionsInv, ClausesAtTwo, Running, Return
  PROVE  /\ ClausesAtTwo' /\ ProtocolStep /\ Len(stack') = Len(stack) - 1
         /\ \A d \in 1..Len(stack) - 1 : stack'[d] = stack[d]
<1>1. stack \in Seq(Frames) /\ Len(stack) \in Nat
  BY DEF ExceptionsInv, ExceptionsTypeOK
<1>2. PICK n \in Nat : n = Len(stack)
  BY <1>1
<1>3. /\ n > 1 /\ Len(stack') = n - 1 /\ process' = "running" /\ stack[n].clause = "none"
      /\ \A d \in 1..n - 1 : stack'[d] = stack[d]
  BY <1>1, <1>2 DEF Return, Running, Depth, Innermost
<1>4. ClausesAtTwo'
  BY <1>2, <1>3 DEF ClausesAtTwo
<1>5. \A d \in 1..Len(stack') : stack'[d].clause = "catch" => d \in 1..n /\ stack[d].clause = "catch"
  BY <1>2, <1>3
<1>6. \A d \in 1..n : stack[d].clause # "none" => d <= Len(stack')
  BY <1>2, <1>3
<1> QED
  BY <1>2, <1>3, <1>4, <1>5, <1>6, ProtocolKept

LEMMA ClauseKeeps ==
  ASSUME ExceptionsInv, ClausesAtTwo, Len(stack) = 2, NEW c \in {"try", "none"},
         stack' = InClause(c), process' = "running"
  PROVE  ClausesAtTwo' /\ ProtocolStep /\ Len(stack') = 2 /\ stack'[2].function = stack[2].function
<1>1. stack \in Seq(Frames)
  BY DEF ExceptionsInv, ExceptionsTypeOK
<1>2. stack' = [stack EXCEPT ![2] = [function |-> stack[2].function, clause |-> c]]
  BY DEF InClause, Depth, Innermost
<1>3. /\ Len(stack') = 2 /\ stack'[1] = stack[1]
      /\ stack'[2].clause = c /\ stack'[2].function = stack[2].function
  BY <1>1, <1>2
<1>4. ClausesAtTwo'
  BY <1>3 DEF ClausesAtTwo
<1>5. \A d \in 1..2 : stack'[d].clause = "catch" => d \in 1..2 /\ stack[d].clause = "catch"
  BY <1>3
<1> QED
  BY <1>3, <1>4, <1>5, ProtocolKept

LEMMA ThrowKeeps ==
  ASSUME ExceptionsInv, ClausesAtTwo, NEW c \in Codes, Throw(c), Running, active, buffer = 2,
         stack[2].function = Callee[pc]
  PROVE  /\ ClausesAtTwo' /\ ProtocolStep /\ Len(stack') = 2
         /\ stack'[2].function = stack[2].function /\ process' = "running"
<1>1. stack \in Seq(Frames) /\ Len(stack) >= 2
  BY DEF ExceptionsInv, ExceptionsTypeOK
<1>2. stack' = Unwound /\ process' = "running"
  BY DEF Throw, Running
<1>3. stack[2].clause = "try"
  BY <1>1, FlagMeansTry
<1>4. /\ Len(Unwound) = buffer
      /\ Unwound[buffer].clause = "catch" /\ Unwound[buffer].function = stack[buffer].function
      /\ \A i \in 1..buffer - 1 : Unwound[i] = stack[i]
  BY <1>1, StackUnwound
<1>5. 1 \in 1..buffer - 1
  OBVIOUS
<1>6. /\ Len(stack') = 2 /\ stack'[1] = stack[1]
      /\ stack'[2].clause = "catch" /\ stack'[2].function = stack[2].function
  BY <1>2, <1>4, <1>5
<1>7. stack[1].clause = "none"
  BY <1>1 DEF ClausesAtTwo
<1>8. ClausesAtTwo' /\ Within("try", stack') = {}
  BY <1>6, <1>7 DEF ClausesAtTwo, Within
<1>9. \A d \in 1..Len(stack) : stack[d].clause # "none" => d <= Len(stack')
  BY <1>6 DEF ClausesAtTwo
<1>10. Within("catch", stack') = {2} /\ 2 \in Within("try", stack)
  BY <1>1, <1>3, <1>6, <1>7 DEF Within
<1> QED
  BY <1>2, <1>6, <1>8, <1>9, <1>10 DEF ProtocolStep

\* The frames stay as they are, and the process runs on or ends by itself.
LEMMA FramesKept ==
  ASSUME ClausesAtTwo, stack' = stack, process' # "abort"
  PROVE  ClausesAtTwo' /\ ProtocolStep
<1>1. ClausesAtTwo'
  BY DEF ClausesAtTwo
<1> QED
  BY <1>1, ProtocolKept DEF ClausesAtTwo

\* Each step of main keeps its guard in place and follows the protocol.
LEMMA GuardInvStep ==
  ASSUME HostInv, GuardInv, [Next]_vars
  PROVE  GuardInv' /\ [ProtocolStep]_exception_vars
<1>0. ExceptionsInv /\ PhaseOK /\ StandingOK /\ ClausesAtTwo
  BY DEF HostInv, GuardInv
<1>a. Running => process = "running" /\ OutsideOK /\ InsideOK /\ BehindOK
  BY <1>0 DEF Running, StandingOK
<1> USE DEF Bodyless, Goes
<1>1. CASE OptionPath \/ OptionFunction \/ OptionArgument \/ SkipOperand \/ Open \/ GoOn
  <2>1. stack' = stack /\ Running /\ process' = process /\ step' \in {"read", "call"}
    BY <1>1 DEF OptionPath, OptionFunction, OptionArgument, SkipOperand, Sets, Reading, Main, Open,
                Opening, GoOn, NoJumps
  <2>2. process' # "abort"
    BY <1>a, <2>1
  <2> QED
    BY <1>0, <2>1, <2>2, FramesKept DEF GuardInv, GuardInPlace
<1>2. CASE ArgumentWithoutValue \/ Usage \/ OpenFails \/ Report \/ PrintResult \/ Dies
  <2>1. \E how \in {"exit 0", "exit 1", "killed"} : Exit(how)
    BY <1>2 DEF ArgumentWithoutValue, Usage, OpenFails, Report, PrintResult, Dies
  <2>2. stack' = stack /\ process' \in {"exit 0", "exit 1", "killed"}
    BY <2>1 DEF Exit, End
  <2>3. process' # "abort" /\ ~Running'
    BY <2>2 DEF Running
  <2> QED
    BY <1>0, <2>2, <2>3, FramesKept DEF GuardInv, GuardInPlace
<1>3. CASE Begin
  <2>1. /\ Running /\ step = "call" /\ Call(Callee[pc]) /\ pc # "print" /\ pc' = pc
    BY <1>3 DEF Begin, Main
  <2>2. pc \in {"parse", "init", "interpret"} /\ Len(stack) = 1
    BY <1>0, <1>a, <2>1 DEF PhaseOK, OutsideOK
  <2>3. Callee[pc] \in Functions
    BY <2>2, CalleesAreFunctions
  <2>4. ClausesAtTwo' /\ ProtocolStep /\ Len(stack') = 2 /\ stack'[2].function = Callee[pc]
    BY <1>0, <2>1, <2>2, <2>3, CallKeeps
  <2> QED
    BY <2>1, <2>4 DEF GuardInv, GuardInPlace
<1>4. CASE Enter
  <2>1. Running /\ step = "enter" /\ Try /\ pc' = pc
    BY <1>4 DEF Enter
  <2>2. Guarded /\ Len(stack) = 2 /\ ~active
    BY <1>0, <1>a, <2>1 DEF PhaseOK, OutsideOK
  <2>3. stack' = InClause("try") /\ process' = "running"
    BY <1>a, <2>1, <2>2 DEF Try
  <2>4. ClausesAtTwo' /\ ProtocolStep /\ Len(stack') = 2 /\ stack'[2].function = stack[2].function
    BY <1>0, <2>2, <2>3, ClauseKeeps
  <2>5. stack[2].function = Callee[pc]
    BY <2>1, <2>2 DEF GuardInv, GuardInPlace
  <2> QED
    BY <2>1, <2>4, <2>5 DEF GuardInv, GuardInPlace
<1>5. CASE CallBody
  <2>1. Running /\ step = "try" /\ Call(Body[pc]) /\ pc' = pc
    BY <1>5 DEF CallBody
  <2>2. Guarded /\ Len(stack) = 2 /\ Body[pc] \in Functions
    BY <1>0, <1>a, <2>1, CalleesAreFunctions DEF PhaseOK, InsideOK
  <2>3. ClausesAtTwo' /\ ProtocolStep /\ Len(stack') = 3 /\ stack'[2] = stack[2]
    BY <1>0, <2>1, <2>2, CallKeeps
  <2>4. stack[2].function = Callee[pc]
    BY <2>1, <2>2 DEF GuardInv, GuardInPlace
  <2> QED
    BY <2>1, <2>3, <2>4 DEF GuardInv, GuardInPlace
<1>6. CASE InnerCall
  <2>1. PICK f \in Functions : Running /\ step = "body" /\ Call(f) /\ pc' = pc
    BY <1>6 DEF InnerCall, Inner
  <2>2. /\ ClausesAtTwo' /\ ProtocolStep /\ Len(stack') = Len(stack) + 1
        /\ \A d \in 1..Len(stack) : stack'[d] = stack[d]
    BY <1>0, <2>1, CallKeeps
  <2>3. Len(stack) \in Nat
    BY <1>0 DEF ExceptionsInv, ExceptionsTypeOK
  <2>4. Guarded => Len(stack) >= 2 /\ stack[2].function = Callee[pc]
    BY <2>1 DEF GuardInv, GuardInPlace
  <2>5. Guarded => Len(stack') >= 2 /\ stack'[2].function = Callee[pc]
    BY <2>2, <2>3, <2>4
  <2> QED
    BY <2>1, <2>2, <2>5 DEF GuardInv, GuardInPlace, Guarded
<1>7. CASE InnerReturn \/ BodyReturns
  <2>1. Running /\ step = "body" /\ Return /\ pc' = pc /\ Len(stack) >= Bottom
    <3>1. Len(stack) \in Nat /\ Bottom \in Nat
      BY <1>0 DEF ExceptionsInv, ExceptionsTypeOK, Bottom
    <3> QED
      BY <1>7, <3>1 DEF InnerReturn, BodyReturns, Depth
  <2>2. /\ ClausesAtTwo' /\ ProtocolStep /\ Len(stack') = Len(stack) - 1
        /\ \A d \in 1..Len(stack) - 1 : stack'[d] = stack[d]
    BY <1>0, <2>1, ReturnKeeps
  <2>3. Len(stack) \in Nat
    BY <1>0 DEF ExceptionsInv, ExceptionsTypeOK
  <2>4. Guarded => Len(stack) >= 3 /\ stack[2].function = Callee[pc]
    BY <2>1 DEF GuardInv, GuardInPlace, Bottom
  <2>5. Guarded => Len(stack') >= 2 /\ stack'[2].function = Callee[pc]
    BY <2>2, <2>3, <2>4
  <2> QED
    BY <2>1, <2>2, <2>5 DEF GuardInv, GuardInPlace, Guarded
<1>8. CASE InnerThrow
  <2>1. PICK c \in Codes : Throw(c)
    BY <1>8 DEF InnerThrow
  <2>2. Running /\ step = "body" /\ pc' = pc /\ thrown' = TRUE
    BY <1>8 DEF InnerThrow
  <2>3. CASE active
    <3>1. Guarded /\ buffer = 2
      BY <1>a, <2>2, <2>3 DEF InsideOK
    <3>2. stack[2].function = Callee[pc]
      BY <2>2, <3>1 DEF GuardInv, GuardInPlace
    <3>3. /\ ClausesAtTwo' /\ ProtocolStep /\ Len(stack') = 2
          /\ stack'[2].function = stack[2].function
      BY <1>0, <2>1, <2>2, <2>3, <3>1, <3>2, ThrowKeeps
    <3> QED
      BY <2>2, <3>2, <3>3 DEF GuardInv, GuardInPlace
  <2>4. CASE ~active
    <3>1. process' = "abort" /\ stack' = stack
      BY <2>1, <2>4 DEF Throw, End
    <3>2. ~Guarded
      BY <1>a, <2>2, <2>4 DEF InsideOK
    <3>3. pc = "init"
      BY <1>0, <2>2, <3>2 DEF PhaseOK, Guarded
    <3>4. ClausesAtTwo' /\ ~Running'
      BY <1>0, <3>1 DEF ClausesAtTwo, Running
    <3>5. /\ \A d, e \in Within("try", stack') : d = e
          /\ \A d \in 1..Len(stack) : stack[d].clause # "none" => d <= Len(stack')
          /\ Within("catch", stack') \ Within("catch", stack) = {}
      BY <3>1, <3>4 DEF ClausesAtTwo, Within
    <3>6. ProtocolStep
      BY <2>2, <3>3, <3>5 DEF ProtocolStep
    <3> QED
      BY <3>4, <3>6 DEF GuardInv, GuardInPlace
  <2> QED
    BY <2>3, <2>4
<1>9. CASE Leave
  <2>1. Running /\ step = "leave" /\ pc' = pc /\ (LeaveTry \/ LeaveCatch)
    BY <1>9 DEF Leave
  <2>2. Guarded /\ Len(stack) = 2 /\ stack[2].function = Callee[pc]
    BY <1>0, <1>a, <2>1 DEF PhaseOK, BehindOK, GuardInv, GuardInPlace
  <2>3. stack' = InClause("none") /\ process' = "running"
    BY <1>a, <2>1 DEF LeaveTry, LeaveCatch
  <2>4. ClausesAtTwo' /\ ProtocolStep /\ Len(stack') = 2 /\ stack'[2].function = stack[2].function
    BY <1>0, <2>2, <2>3, ClauseKeeps
  <2> QED
    BY <2>1, <2>2, <2>4 DEF GuardInv, GuardInPlace
<1>10. CASE Returns
  <2>1. Running /\ Return /\ step' = "check"
    BY <1>10 DEF Returns
  <2>2. ClausesAtTwo' /\ ProtocolStep
    BY <1>0, <2>1, ReturnKeeps
  <2> QED
    BY <2>1, <2>2 DEF GuardInv, GuardInPlace
<1>11. CASE UNCHANGED vars
  BY <1>11 DEF vars, exception_vars, GuardInv, ClausesAtTwo, GuardInPlace, Running, Guarded
<1> QED
  BY <1>1, <1>2, <1>3, <1>4, <1>5, <1>6, <1>7, <1>8, <1>9, <1>10, <1>11 DEF Next

\* At first there is one frame, and it is in no clause.
LEMMA GuardInvInit == Init => GuardInv
<1> SUFFICES ASSUME Init PROVE GuardInv
  OBVIOUS
<1>1. PICK f \in Functions : stack = <<[function |-> f, clause |-> "none"]>>
  BY DEF Init, ExceptionsInit
<1>2. Len(stack) = 1 /\ stack[1].clause = "none" /\ pc = "options"
  BY <1>1 DEF Init
<1> QED
  BY <1>2 DEF GuardInv, ClausesAtTwo, GuardInPlace, Guarded

\* For every command line and any depth of calls: guards are never nested or met with
\* a stale flag, only init_interpreter aborts, no clause is left by a return, and a
\* throw is caught in the function main called (parser.c:854-864, interpreter.c:67-77).
THEOREM HostFollows == Spec => FollowsProtocol
<1>1. HostInv /\ GuardInv /\ [Next]_vars => HostInv' /\ GuardInv' /\ [ProtocolStep]_exception_vars
  BY HostInvariant, GuardInvStep
<1> QED
  BY <1>1, HostInvInit, GuardInvInit, PTL DEF Spec, FollowsProtocol

----------------------------------------------------------------------------
(* The arguments *)

\* What an argument may hold, and the local variables of main.
Held == Arguments \cup {command[j].value : j \in 1..Len(command)}
Local == [optind : Nat \ {0}, path : {local.path}, function : {local.function}, a : Held,
          parameters : Seq(Held), ret : {local.ret}]

\* The arguments before the option to be read have been added, one for each.
Added(n) ==
  /\ Len(local.parameters) = Cardinality(GivenTo(n))
  /\ \A i \in GivenTo(n) : local.parameters[Cardinality(GivenTo(i))] = command[i].value

ArgumentsInv ==
  /\ command \in Commands /\ local \in Local
  /\ pc # "options" => local.optind > Len(command)
  /\ Known => Added(local.optind - 1)

\* The numbers of a set up to one of them.
LEMMA UpTo ==
  ASSUME NEW G \in SUBSET Nat, NEW n \in Nat
  PROVE  /\ n # 0 /\ n \in G => /\ {j \in G : j <= n} = {j \in G : j <= n - 1} \cup {n}
                              /\ n \notin {j \in G : j <= n - 1}
         /\ n # 0 /\ n \notin G => {j \in G : j <= n} = {j \in G : j <= n - 1}
         /\ \A i \in Nat : i <= n => {j \in G : j <= i} \subseteq {j \in G : j <= n}
         /\ (\A j \in G : j <= n) => {j \in G : j <= n} = G
<1>1. \A j \in G : j \in Nat
  OBVIOUS
<1>2. \A j \in Nat : n # 0 => ((j <= n) <=> (j <= n - 1 \/ j = n)) /\ ~(n <= n - 1)
  OBVIOUS
<1>3. \A i, j \in Nat : i <= n /\ j <= i => j <= n
  OBVIOUS
<1> QED
  BY <1>1, <1>2, <1>3, Zenon

\* Counting the arguments up to an option.
LEMMA GivenCounted ==
  ASSUME command \in Commands
  PROVE  /\ Len(command) \in Nat
         /\ \A n \in Nat : Cardinality(GivenTo(n)) \in Nat
         /\ \A n \in Nat \ {0} : n \in Given => /\ Cardinality(GivenTo(n)) = Cardinality(GivenTo(n - 1)) + 1
                                               /\ GivenTo(n) = GivenTo(n - 1) \cup {n}
         /\ \A n \in Nat \ {0} : n \notin Given => GivenTo(n) = GivenTo(n - 1)
         /\ \A n \in Nat : \A i \in GivenTo(n) :
              i \in Nat \ {0} /\ Cardinality(GivenTo(i)) \in 1..Cardinality(GivenTo(n))
         /\ \A n \in Nat : n >= Len(command) => GivenTo(n) = Given
<1>1. Len(command) \in Nat
  <2>1. command \in Seq([kind : STRING, value : STRING])
    BY HostAssumption
  <2> QED
    BY <2>1
<1>2. Given \subseteq 1..Len(command) /\ Given \subseteq Nat
  BY <1>1 DEF Given
<1>3. \A n \in Nat : GivenTo(n) \subseteq 1..Len(command)
  BY <1>2 DEF GivenTo
<1>4. ASSUME NEW n \in Nat PROVE IsFiniteSet(GivenTo(n)) /\ Cardinality(GivenTo(n)) \in Nat
  <2>1. IsFiniteSet(1..Len(command))
    BY <1>1, FS_Interval
  <2>2. IsFiniteSet(GivenTo(n))
    BY <1>3, <2>1, FS_Subset
  <2> QED
    BY <2>2, FS_CardinalityType
<1>5. ASSUME NEW n \in Nat \ {0}, n \in Given
      PROVE  Cardinality(GivenTo(n)) = Cardinality(GivenTo(n - 1)) + 1 /\ GivenTo(n) = GivenTo(n - 1) \cup {n}
  <2>1. GivenTo(n) = GivenTo(n - 1) \cup {n} /\ n \notin GivenTo(n - 1)
    BY <1>2, <1>5, UpTo DEF GivenTo
  <2>2. IsFiniteSet(GivenTo(n - 1))
    BY <1>4
  <2> QED
    BY <2>1, <2>2, FS_AddElement
<1>6. ASSUME NEW n \in Nat \ {0}, n \notin Given PROVE GivenTo(n) = GivenTo(n - 1)
  BY <1>2, <1>6, UpTo DEF GivenTo
<1>7. ASSUME NEW n \in Nat, NEW i \in GivenTo(n)
      PROVE  i \in Nat \ {0} /\ Cardinality(GivenTo(i)) \in 1..Cardinality(GivenTo(n))
  <2>1. i \in Given /\ i <= n /\ i \in Nat \ {0}
    BY <1>1, <1>2 DEF GivenTo
  <2>2. GivenTo(i) \subseteq GivenTo(n)
    BY <1>2, <2>1, UpTo DEF GivenTo
  <2>3. Cardinality(GivenTo(i)) <= Cardinality(GivenTo(n))
    BY <1>4, <2>2, FS_Subset
  <2>4. Cardinality(GivenTo(i)) = Cardinality(GivenTo(i - 1)) + 1 /\ Cardinality(GivenTo(i - 1)) \in Nat
    BY <1>4, <1>5, <2>1
  <2> QED
    BY <1>4, <2>1, <2>3, <2>4
<1>8. ASSUME NEW n \in Nat, n >= Len(command) PROVE GivenTo(n) = Given
  <2>1. \A j \in Given : j <= n
    BY <1>1, <1>2, <1>8
  <2> QED
    BY <1>2, <2>1, UpTo DEF GivenTo
<1> QED
  BY <1>1, <1>4, <1>5, <1>6, <1>7, <1>8

LEMMA ArgumentsInvInit == Init => ArgumentsInv
<1> SUFFICES ASSUME Init PROVE ArgumentsInv
  OBVIOUS
<1>1. PICK garbage \in Arguments :
        local = [optind |-> 1, path |-> NULL, function |-> NULL, a |-> garbage,
                 parameters |-> << >>, ret |-> NULL]
  BY DEF Init
<1>2. local \in Local
  BY <1>1 DEF Local, Held
<1>3. command \in Commands /\ pc = "options" /\ local.optind - 1 = 0 /\ local.parameters = << >>
  BY <1>1 DEF Init
<1>4. GivenTo(0) = {}
  <2>1. \A i \in GivenTo(0) : i \in Nat \ {0} /\ i <= 0
    BY <1>3, GivenCounted DEF GivenTo
  <2> QED
    BY <2>1
<1>5. Cardinality(GivenTo(0)) = 0
  BY <1>4, FS_EmptySet
<1>6. Added(0)
  BY <1>3, <1>4, <1>5 DEF Added
<1> QED
  BY <1>2, <1>3, <1>6 DEF ArgumentsInv

\* The option at n read: its argument added, if it is one.
LEMMA OptionRead ==
  ASSUME ArgumentsInv, local.optind <= Len(command), command' = command, pc' = "options",
         local' \in Local', local'.optind = local.optind + 1,
         \/ local'.parameters = local.parameters /\ local.optind \notin Given
         \/ /\ local.optind \in Given
            /\ \E v \in Held : /\ local'.parameters = Append(local.parameters, v)
                               /\ Known => v = command[local.optind].value
  PROVE  ArgumentsInv'
<1>1. command \in Commands /\ local \in Local
  BY DEF ArgumentsInv
<1>2. local.optind \in Nat \ {0} /\ local.parameters \in Seq(Held)
  BY <1>1 DEF Local
<1>3. PICK n \in Nat \ {0} : n = local.optind
  BY <1>2
<1>4. n - 1 \in Nat /\ local'.optind - 1 = n
  BY <1>3
<1>5. /\ n \in Given => /\ Cardinality(GivenTo(n)) = Cardinality(GivenTo(n - 1)) + 1
                        /\ GivenTo(n) = GivenTo(n - 1) \cup {n}
      /\ n \notin Given => GivenTo(n) = GivenTo(n - 1)
      /\ Cardinality(GivenTo(n - 1)) \in Nat
      /\ \A i \in GivenTo(n - 1) : Cardinality(GivenTo(i)) \in 1..Cardinality(GivenTo(n - 1))
  BY <1>1, <1>4, GivenCounted, Zenon
<1>6. (Known' <=> Known) /\ Given' = Given /\ \A i : GivenTo(i)' = GivenTo(i)
  BY DEF Known, Given, GivenTo
<1>7. ASSUME Known
      PROVE  /\ Len(local'.parameters) = Cardinality(GivenTo(n))
             /\ \A i \in GivenTo(n) : local'.parameters[Cardinality(GivenTo(i))] = command[i].value
  <2>1. /\ Len(local.parameters) = Cardinality(GivenTo(n - 1))
        /\ \A i \in GivenTo(n - 1) : local.parameters[Cardinality(GivenTo(i))] = command[i].value
    <3>1. Added(n - 1)
      BY <1>3, <1>7 DEF ArgumentsInv
    <3> QED
      BY <3>1 DEF Added
  <2>2. CASE local'.parameters = local.parameters /\ n \notin Given
    BY <1>5, <2>1, <2>2
  <2>3. CASE /\ n \in Given
             /\ \E v \in Held : /\ local'.parameters = Append(local.parameters, v)
                                /\ Known => v = command[n].value
    <3>1. PICK v \in Held : local'.parameters = Append(local.parameters, v) /\ v = command[n].value
      BY <1>7, <2>3
    <3>2. Cardinality(GivenTo(n)) = Cardinality(GivenTo(n - 1)) + 1 /\ GivenTo(n) = GivenTo(n - 1) \cup {n}
      BY <1>5, <2>3
    <3>3. PICK length \in Nat : length = Cardinality(GivenTo(n - 1))
      BY <1>5
    <3>4. PICK old \in Seq(Held) : old = local.parameters
      BY <1>2
    <3>5. /\ Len(local'.parameters) = length + 1 /\ local'.parameters[length + 1] = v
          /\ \A k \in 1..length : local'.parameters[k] = old[k]
      <4>1. Len(old) = length /\ local'.parameters = Append(old, v)
        BY <2>1, <3>1, <3>3, <3>4
      <4>2. /\ Len(Append(old, v)) = Len(old) + 1 /\ Append(old, v)[Len(old) + 1] = v
            /\ \A k \in 1..Len(old) : Append(old, v)[k] = old[k]
        BY <3>4
      <4> QED
        BY <4>1, <4>2, Zenon
    <3>6. ASSUME NEW i \in GivenTo(n) PROVE local'.parameters[Cardinality(GivenTo(i))] = command[i].value
      <4>1. CASE i = n
        BY <3>1, <3>2, <3>3, <3>5, <4>1, Zenon
      <4>2. CASE i # n
        <5>1. i \in GivenTo(n - 1)
          BY <3>2, <4>2, Zenon
        <5>2. Cardinality(GivenTo(i)) \in 1..length
          BY <1>5, <3>3, <5>1, Zenon
        <5>3. old[Cardinality(GivenTo(i))] = command[i].value
          BY <2>1, <3>4, <5>1, Zenon
        <5> QED
          BY <3>5, <5>2, <5>3, Zenon
      <4> QED
        BY <4>1, <4>2
    <3>7. Len(local'.parameters) = Cardinality(GivenTo(n))
      BY <3>2, <3>3, <3>5, Zenon
    <3> QED
      BY <3>6, <3>7
  <2> QED
    BY <1>3, <2>2, <2>3
<1>8. Known' => Added(local.optind - 1)'
  BY <1>4, <1>6, <1>7, Zenon DEF Added
<1>9. pc' # "options" => local'.optind > Len(command')
  OBVIOUS
<1> QED
  BY <1>1, <1>8, <1>9 DEF ArgumentsInv

LEMMA ArgumentsInvStep == ArgumentsInv /\ PhaseOK /\ [Next]_vars => ArgumentsInv'
<1> SUFFICES ASSUME ArgumentsInv, PhaseOK, [Next]_vars PROVE ArgumentsInv'
  OBVIOUS
<1>0. command \in Commands /\ local \in Local /\ Len(command) \in Nat
  BY GivenCounted DEF ArgumentsInv
<1>a. /\ local.optind \in Nat \ {0} /\ local.parameters \in Seq(Held) /\ local.a \in Held
      /\ local = [optind |-> local.optind, path |-> local.path, function |-> local.function,
                  a |-> local.a, parameters |-> local.parameters, ret |-> local.ret]
  BY <1>0 DEF Local
<1> USE DEF Goes, Bodyless
<1>1. CASE OptionPath \/ OptionFunction \/ SkipOperand
  <2>1. /\ local.optind <= Len(command) /\ command' = command /\ pc' = "options"
        /\ command[local.optind].kind # "a"
        /\ local'.optind = local.optind + 1 /\ local'.parameters = local.parameters
        /\ local'.a = local.a
        /\ local' = [optind |-> local'.optind, path |-> local'.path, function |-> local'.function,
                     a |-> local'.a, parameters |-> local'.parameters, ret |-> local'.ret]
    <3>1. CASE OptionPath
      BY <1>a, <3>1 DEF OptionPath, Sets, Reading, Option
    <3>2. CASE OptionFunction
      BY <1>a, <3>2 DEF OptionFunction, Sets, Reading, Option
    <3>3. CASE SkipOperand
      BY <1>a, <3>3 DEF SkipOperand, Sets, Reading, Option
    <3> QED
      BY <1>1, <3>1, <3>2, <3>3
  <2>2. Held' = Held /\ local.optind \notin Given
    BY <2>1 DEF Held, Given
  <2>3. local' \in Local'
    BY <1>a, <2>1, <2>2 DEF Local
  <2> QED
    BY <2>1, <2>2, <2>3, OptionRead
<1>2. CASE OptionArgument
  <2>1. /\ local.optind <= Len(command) /\ command' = command /\ pc' = "options"
        /\ command[local.optind].kind = "a"
        /\ local' = [[local EXCEPT !.a = Parsed, !.parameters = Append(@, Parsed)]
                       EXCEPT !.optind = @ + 1]
    BY <1>2 DEF OptionArgument, Sets, Reading, Option
  <2>2. local' = [optind |-> local.optind + 1, path |-> local.path, function |-> local.function,
                  a |-> Parsed, parameters |-> Append(local.parameters, Parsed), ret |-> local.ret]
    BY <1>a, <2>1
  <2>3. local.optind \in 1..Len(command)
    BY <1>0, <1>a, <2>1
  <2>4. local.optind \in Given
    BY <2>1, <2>3 DEF Given
  <2>5. Parsed \in Held /\ (Known => Parsed = command[local.optind].value)
    BY <1>a, <2>3, <2>4 DEF Parsed, Option, Held, Known
  <2>6. Held' = Held /\ Append(local.parameters, Parsed) \in Seq(Held)
    BY <1>a, <2>1, <2>5 DEF Held
  <2>7. local' \in Local'
    BY <1>a, <2>2, <2>5, <2>6 DEF Local
  <2>8. local'.optind = local.optind + 1 /\ local'.parameters = Append(local.parameters, Parsed)
    BY <2>2
  <2> QED
    BY <2>1, <2>4, <2>5, <2>7, <2>8, OptionRead
<1>3. CASE BodyReturns
  <2>1. /\ command' = command /\ pc' = pc /\ step = "body"
        /\ \E r \in Results : local' = IF pc = "interpret" THEN [local EXCEPT !.ret = r] ELSE local
    BY <1>3 DEF BodyReturns
  <2>2. \E r : local' = [optind |-> local.optind, path |-> local.path, function |-> local.function,
                         a |-> local.a, parameters |-> local.parameters, ret |-> r]
    BY <1>a, <2>1
  <2>3. Held' = Held /\ (Known' <=> Known) /\ Given' = Given /\ \A i : GivenTo(i)' = GivenTo(i)
    BY <2>1 DEF Held, Known, Given, GivenTo
  <2>4. local' \in Local'
    BY <1>a, <2>2, <2>3 DEF Local
  <2>5. local'.optind = local.optind /\ local'.parameters = local.parameters
    BY <2>2
  <2>6. Added(local.optind - 1) => Added(local.optind - 1)'
    BY <2>1, <2>3, <2>5 DEF Added
  <2> QED
    BY <2>1, <2>3, <2>4, <2>5, <2>6 DEF ArgumentsInv
<1>4. ASSUME UNCHANGED <<command, local>>, pc' # "options" => local.optind > Len(command)
      PROVE  ArgumentsInv'
  <2>1. Held' = Held /\ (Known' <=> Known) /\ Given' = Given /\ \A i : GivenTo(i)' = GivenTo(i)
    BY <1>4 DEF Held, Known, Given, GivenTo
  <2>2. local' \in Local'
    BY <1>0, <1>4, <2>1 DEF Local
  <2>3. Added(local.optind - 1) => Added(local.optind - 1)'
    BY <1>4, <2>1 DEF Added
  <2> QED
    BY <1>4, <2>1, <2>2, <2>3 DEF ArgumentsInv
<1>5. CASE ArgumentWithoutValue \/ Usage \/ OpenFails \/ Report \/ PrintResult \/ Dies
  <2>1. UNCHANGED <<command, local, pc>>
    BY <1>5 DEF ArgumentWithoutValue, Usage, OpenFails, Report, PrintResult, Dies, Exit
  <2> QED
    BY <1>4, <2>1 DEF ArgumentsInv
<1>6. CASE Open
  <2>1. UNCHANGED <<command, local>> /\ local.optind > Len(command)
    BY <1>6 DEF Open, Opening
  <2> QED
    BY <1>4, <2>1
<1>7. CASE Begin \/ Enter \/ CallBody \/ InnerCall \/ InnerReturn \/ InnerThrow \/ Leave \/ Returns \/ GoOn
  <2>1. UNCHANGED <<command, local>> /\ step # "read"
    BY <1>7 DEF Begin, Enter, CallBody, InnerCall, InnerReturn, InnerThrow, Leave, Returns, GoOn
  <2>2. pc # "options"
    BY <2>1 DEF PhaseOK
  <2> QED
    BY <1>4, <2>1, <2>2 DEF ArgumentsInv
<1>8. CASE UNCHANGED vars
  <2>1. UNCHANGED <<command, local, pc>>
    BY <1>8 DEF vars
  <2> QED
    BY <1>4, <2>1 DEF ArgumentsInv
<1> QED
  BY <1>1, <1>2, <1>3, <1>5, <1>6, <1>7, <1>8 DEF Next

\* The guest is given one argument for each option that names one, in their order,
\* whatever the variable they are parsed into has held before (main.c:59-64).
THEOREM ArgumentsRight == Spec => []ArgumentsAsGiven
<1>1. ArgumentsInv => ArgumentsAsGiven
  <2> SUFFICES ASSUME ArgumentsInv, pc = "interpret", Known
               PROVE  /\ Len(local.parameters) = Cardinality(Given)
                      /\ \A i \in Given : local.parameters[Cardinality(GivenTo(i))] = command[i].value
    BY DEF ArgumentsAsGiven
  <2>1. local.optind > Len(command) /\ local.optind \in Nat \ {0} /\ command \in Commands
    BY DEF ArgumentsInv, Local
  <2>2. Len(command) \in Nat /\ local.optind - 1 \in Nat /\ local.optind - 1 >= Len(command)
    <3>1. Len(command) \in Nat
      BY <2>1, GivenCounted, Zenon
    <3> QED
      BY <2>1, <3>1
  <2>3. GivenTo(local.optind - 1) = Given
    BY <2>1, <2>2, GivenCounted, Zenon
  <2> QED
    BY <2>3 DEF ArgumentsInv, Added
<1>2. HostInv => PhaseOK
  BY DEF HostInv
<1> QED
  BY <1>1, <1>2, ArgumentsInvInit, ArgumentsInvStep, HostInvInit, HostInvariant, PTL DEF Spec
=============================================================================
